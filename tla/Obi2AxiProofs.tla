---------------------------- MODULE Obi2AxiProofs ----------------------------
(***************************************************************************)
(* Theorems about the AXI bridge for any depth of its FIFOs and any slave, *)
(* as long as the slave keeps no more addresses unanswered than the        *)
(* response FIFO has entries.                                              *)
(***************************************************************************)
EXTENDS Obi2Axi, QueueLemmas

\* The slave fits the response FIFO: the condition the grant does not establish.
SlaveFits == MaxAxi <= RspDepth

\* The write data of the accepted writes, then of those that wait for their address.
DataInStep ==
    \E v \in Seq(Aids) : w \o wdata = aw \o v /\ Lists(v, memReq, "we", TRUE)

\* The inductive invariant: the two channels of the slave together are the response
\* FIFO, and the two places of write data are the writes of both request FIFOs.
IInv ==
    /\ TypeOK
    /\ Lists(ar, memRsp, "we", FALSE) /\ Lists(aw, memRsp, "we", TRUE)
    /\ Len(memRsp) = Len(ar) + Len(aw)
    /\ DataInStep
    /\ rvalid => ar # <<>>
    /\ bvalid => aw # <<>> /\ w # <<>>
    /\ arready \/ awready => Len(ar) + Len(aw) < MaxAxi

-------------------------------------------------------------------------------
(* The bridge.                                                               *)

\* A request has an id.
LEMMA AskIds == \A e \in Asks : e.aid \in Aids
BY DEF Asks

\* A list of the requests of direction b over a clock of their FIFO.
LEMMA AskListsClock ==
    ASSUME NEW q \in Seq(Asks), NEW s \in Seq(Aids), NEW b, Lists(s, q, "we", b),
           NEW rd \in BOOLEAN, NEW wr \in BOOLEAN, NEW x,
           rd => q # <<>>, wr => x \in Asks
    PROVE  /\ rd /\ Head(q).we = b => s # <<>> /\ Head(s) = Head(q).aid
           /\ Lists(Clocked(s, rd /\ Head(q).we = b, wr /\ x.we = b, x.aid),
                    Clocked(q, rd, wr, x), "we", b)
BY AskIds, ListsClock

\* What TypeOK says of each variable.
LEMMA Types ==
    ASSUME TypeOK
    PROVE  /\ memReq \in Seq(Asks) /\ memRsp \in Seq(Asks) /\ wdata \in Seq(Aids)
           /\ ar \in Seq(Aids) /\ aw \in Seq(Aids) /\ w \in Seq(Aids)
           /\ arready \in BOOLEAN /\ awready \in BOOLEAN /\ wready \in BOOLEAN
           /\ rvalid \in BOOLEAN /\ bvalid \in BOOLEAN
BY DEF TypeOK

\* The handshakes are truth values.
LEMMA HandshakeTypes ==
    ASSUME TypeOK
    PROVE  /\ mem_req_pop \in BOOLEAN /\ mem_req_push \in BOOLEAN
           /\ mem_rsp_pop \in BOOLEAN /\ w_ack \in BOOLEAN
           /\ ar_ack \in BOOLEAN /\ aw_ack \in BOOLEAN
           /\ r_ack \in BOOLEAN /\ b_ack \in BOOLEAN
<1>1. /\ mem_req_pop \in BOOLEAN /\ mem_rsp_pop \in BOOLEAN
  BY DEF mem_req_pop, mem_rsp_pop
<1>2. mem_req_push \in BOOLEAN
  BY DEF mem_req_push
<1>3. w_ack \in BOOLEAN
  BY DEF w_ack
<1>4. ar_ack \in BOOLEAN /\ aw_ack \in BOOLEAN
  BY DEF ar_ack, aw_ack
<1>5. r_ack \in BOOLEAN /\ b_ack \in BOOLEAN
  BY DEF r_ack, b_ack
<1> QED BY <1>1, <1>2, <1>3, <1>4, <1>5

\* A FIFO is read only when it has an entry, and the request FIFO is written only when
\* it and the write data's have room.
LEMMA NoUnderflow ==
    ASSUME TypeOK
    PROVE  /\ mem_req_pop => memReq # <<>>
           /\ mem_rsp_pop => memRsp # <<>>
           /\ w_ack => wdata # <<>>
           /\ mem_req_push => ask \in Asks /\ Len(memReq) < ReqDepth /\ Len(wdata) < ReqDepth
<1>1. mem_req_pop => memReq # <<>>
  BY DEF mem_req_pop, ar_ack, aw_ack, arvalid, awvalid
<1>2. mem_rsp_pop => memRsp # <<>>
  BY DEF mem_rsp_pop, r_ack, b_ack, rready, bready
<1>3. w_ack => wdata # <<>>
  BY DEF w_ack, wvalid
<1>4. mem_req_push => ask \in Asks /\ Len(memReq) < ReqDepth /\ Len(wdata) < ReqDepth
  BY DEF mem_req_push, gnt, TypeOK
<1> QED BY <1>1, <1>2, <1>3, <1>4

\* Each channel's handshake is the read of a FIFO whose head has that direction.
LEMMA Channels ==
    ASSUME TypeOK
    PROVE  /\ r_ack = (mem_rsp_pop /\ Head(memRsp).we = FALSE)
           /\ b_ack = (mem_rsp_pop /\ Head(memRsp).we = TRUE)
           /\ ar_ack = (mem_req_pop /\ Head(memReq).we = FALSE)
           /\ aw_ack = (mem_req_pop /\ Head(memReq).we = TRUE)
           /\ wdata_push = (mem_req_push /\ ask.we = TRUE)
<1>1. memRsp # <<>> => Head(memRsp).we \in BOOLEAN
  <2>1. memRsp # <<>> => Head(memRsp) \in Asks
    BY Types, HeadTailProperties
  <2> QED BY <2>1 DEF Asks
<1>2. memReq # <<>> => Head(memReq).we \in BOOLEAN
  <2>1. memReq # <<>> => Head(memReq) \in Asks
    BY Types, HeadTailProperties
  <2> QED BY <2>1 DEF Asks
<1>3. mem_req_push => ask.we \in BOOLEAN
  BY NoUnderflow DEF Asks
<1>4. r_ack <=> mem_rsp_pop /\ Head(memRsp).we = FALSE
  BY <1>1 DEF r_ack, b_ack, rready, bready, mem_rsp_pop
<1>5. b_ack <=> mem_rsp_pop /\ Head(memRsp).we = TRUE
  BY <1>1 DEF r_ack, b_ack, rready, bready, mem_rsp_pop
<1>6. ar_ack <=> mem_req_pop /\ Head(memReq).we = FALSE
  BY <1>2 DEF ar_ack, aw_ack, arvalid, awvalid, mem_req_pop
<1>7. aw_ack <=> mem_req_pop /\ Head(memReq).we = TRUE
  BY <1>2 DEF ar_ack, aw_ack, arvalid, awvalid, mem_req_pop
<1>8. wdata_push <=> mem_req_push /\ ask.we = TRUE
  BY <1>3 DEF wdata_push
<1>9. wdata_push \in BOOLEAN
  BY DEF wdata_push
<1> QED BY <1>4, <1>5, <1>6, <1>7, <1>8, <1>9, HandshakeTypes

\* The response FIFO has room: its entries are the addresses the slave has not
\* answered, and it accepts one more only below its limit.
LEMMA Room ==
    ASSUME IInv, SlaveFits
    PROVE  NoOverflow
<1>1. mem_req_push => Len(memReq) < ReqDepth
  BY NoUnderflow DEF IInv
<1>2. wdata_push => Len(wdata) < ReqDepth
  BY NoUnderflow DEF IInv, wdata_push
<1>3. mem_rsp_push => Len(memRsp) < RspDepth
  <2>1. mem_rsp_push => arready \/ awready
    BY DEF mem_rsp_push, mem_req_pop, ar_ack, aw_ack
  <2>2. Len(memRsp) \in Nat
    BY Types DEF IInv
  <2> QED BY <2>1, <2>2, BridgeAssumption DEF IInv, SlaveFits
<1> QED BY <1>1, <1>2, <1>3 DEF NoOverflow

\* What the FIFOs and the slave are after a clock in which nothing overflows.
LEMMA ClockEffect ==
    ASSUME IInv, SlaveFits, Clock
    PROVE  /\ memReq' = Clocked(memReq, mem_req_pop, mem_req_push, ask)
           /\ memRsp' = Clocked(memRsp, mem_rsp_pop, mem_req_pop, Head(memReq))
           /\ wdata' = Clocked(wdata, w_ack, wdata_push, ask.aid)
           /\ ar' = Clocked(ar, r_ack, ar_ack, Head(memReq).aid)
           /\ aw' = Clocked(aw, b_ack, aw_ack, Head(memReq).aid)
           /\ w' = Clocked(w, b_ack, w_ack, Head(wdata))
<1>1. NoOverflow
  BY Room
<1>2. memReq' = Clocked(memReq, mem_req_pop, mem_req_push, ask)
  BY <1>1 DEF Clock, BridgeClock, AfterClock, NoOverflow, When, Clocked
<1>3. memRsp' = Clocked(memRsp, mem_rsp_pop, mem_req_pop, Head(memReq))
  BY <1>1 DEF Clock, BridgeClock, AfterClock, NoOverflow, When, Clocked, mem_rsp_push
<1>4. wdata' = Clocked(wdata, w_ack, wdata_push, ask.aid)
  BY <1>1 DEF Clock, BridgeClock, AfterClock, NoOverflow, When, Clocked
<1> QED BY <1>2, <1>3, <1>4 DEF Clock, SlaveClock, Clocked

\* The ids listed for the slave's two channels are where the answers are looked for.
LEMMA Matching ==
    ASSUME IInv
    PROVE  AnswersMatch
<1>1. r_ack => memRsp # <<>> /\ Head(memRsp).we = FALSE
  BY Channels, NoUnderflow DEF IInv
<1>2. b_ack => memRsp # <<>> /\ Head(memRsp).we = TRUE
  BY Channels, NoUnderflow DEF IInv
<1>3. memRsp \in Seq(Asks) /\ ar \in Seq(Aids) /\ aw \in Seq(Aids)
  BY Types DEF IInv
<1>4. Lists(ar, memRsp, "we", FALSE) /\ Lists(aw, memRsp, "we", TRUE)
  BY DEF IInv
<1>5. r_ack => ar # <<>> /\ Head(ar) = Head(memRsp).aid
  BY <1>1, <1>3, <1>4, AskIds, ListsHead
<1>6. b_ack => aw # <<>> /\ Head(aw) = Head(memRsp).aid
  BY <1>2, <1>3, <1>4, AskIds, ListsHead
<1> QED BY <1>5, <1>6 DEF AnswersMatch

\* Reset: nothing is held and no pin is up.
LEMMA InitIInv == Init => IInv
<1> SUFFICES ASSUME Init PROVE IInv
  OBVIOUS
<1>1. /\ ask = None /\ memReq = <<>> /\ wdata = <<>> /\ memRsp = <<>>
      /\ ar = <<>> /\ aw = <<>> /\ w = <<>>
      /\ ~arready /\ ~awready /\ ~rvalid /\ ~bvalid
  BY DEF Init
<1>2. \A S : <<>> \in Seq(S) /\ Len(<<>>) = 0
  BY EmptySeq
<1>3. TypeOK
  <2>1. {arready, awready, wready, rvalid, bvalid} \subseteq BOOLEAN
    BY DEF Init
  <2>2. /\ memReq \in Seq(Asks) /\ memRsp \in Seq(Asks) /\ wdata \in Seq(Aids)
        /\ ar \in Seq(Aids) /\ aw \in Seq(Aids) /\ w \in Seq(Aids)
    BY <1>1, <1>2
  <2>3. /\ Len(memReq) = 0 /\ Len(memRsp) = 0 /\ Len(wdata) = 0
        /\ Len(ar) = 0 /\ Len(aw) = 0
    BY <1>1, <1>2
  <2> QED BY <1>1, <2>1, <2>2, <2>3, BridgeAssumption DEF TypeOK
<1>4. Lists(ar, memRsp, "we", FALSE) /\ Lists(aw, memRsp, "we", TRUE) /\ Lists(<<>>, memReq, "we", TRUE)
  BY <1>1, ListsNothing
<1>5. w \o wdata = aw \o <<>>
  BY <1>1
<1>6. DataInStep
  BY <1>2, <1>4, <1>5 DEF DataInStep
<1>7. Len(memRsp) = Len(ar) + Len(aw)
  BY <1>1, <1>2
<1> QED BY <1>1, <1>3, <1>4, <1>6, <1>7 DEF IInv

\* Two FIFOs that lose and gain entries, counted together.
LEMMA Totals ==
    ASSUME NEW a \in Nat, NEW b \in Nat, NEW ra \in Nat, NEW rb \in Nat,
           NEW wa \in Nat, NEW wb \in Nat
    PROVE  (a - ra + wa) + (b - rb + wb) = (a + b) - (ra + rb) + (wa + wb)
OBVIOUS

\* A clock keeps the FIFOs within their depths.
LEMMA StepTypes ==
    ASSUME IInv, SlaveFits, Clock
    PROVE  TypeOK' /\ Len(memRsp') = Len(ar') + Len(aw')
<1>0. /\ memReq' = Clocked(memReq, mem_req_pop, mem_req_push, ask)
      /\ memRsp' = Clocked(memRsp, mem_rsp_pop, mem_req_pop, Head(memReq))
      /\ wdata' = Clocked(wdata, w_ack, wdata_push, ask.aid)
      /\ ar' = Clocked(ar, r_ack, ar_ack, Head(memReq).aid)
      /\ aw' = Clocked(aw, b_ack, aw_ack, Head(memReq).aid)
      /\ w' = Clocked(w, b_ack, w_ack, Head(wdata))
  BY ClockEffect
<1>1. TypeOK /\ NoOverflow
  BY Room DEF IInv
<1>2. memReq' \in Seq(Asks) /\ Len(memReq') <= ReqDepth
  <2>1. /\ memReq' \in Seq(Asks)
        /\ Len(memReq') = Len(memReq) - Moved(mem_req_pop)
                           + Moved(mem_req_push)
    <3>1. mem_req_push => ask \in Asks
      BY <1>1, NoUnderflow
    <3>2. mem_req_pop => memReq # <<>>
      BY <1>1, NoUnderflow
    <3>3. memReq \in Seq(Asks) /\ mem_req_pop \in BOOLEAN /\ mem_req_push \in BOOLEAN
      BY <1>1, Types, HandshakeTypes
    <3>4. /\ Clocked(memReq, mem_req_pop, mem_req_push, ask) \in Seq(Asks)
          /\ Len(Clocked(memReq, mem_req_pop, mem_req_push, ask)) =
               Len(memReq) - Moved(mem_req_pop) + Moved(mem_req_push)
      BY <3>1, <3>2, <3>3, ClockType
    <3> QED BY <1>0, <3>4
  <2>2. mem_req_push => Len(memReq) < ReqDepth
    BY <1>1, NoUnderflow
  <2>3. Len(memReq) \in Nat /\ Len(memReq) <= ReqDepth
    BY <1>1, Types DEF TypeOK
  <2> QED BY <2>1, <2>2, <2>3, BridgeAssumption DEF Moved
<1>3. ar_ack \/ aw_ack => mem_req_pop /\ memReq # <<>> /\ Head(memReq).aid \in Aids
  <2>1. ar_ack \/ aw_ack => mem_req_pop /\ memReq # <<>>
    BY <1>1, NoUnderflow DEF mem_req_pop
  <2>2. memReq # <<>> => Head(memReq) \in Asks
    BY <1>1, Types, HeadTailProperties
  <2> QED BY <2>1, <2>2 DEF Asks
<1>4. /\ r_ack => ar # <<>>
      /\ b_ack => aw # <<>> /\ w # <<>>
  BY DEF IInv, r_ack, b_ack
<1>5. /\ ar' \in Seq(Aids)
      /\ Len(ar') = Len(ar) - Moved(r_ack) + Moved(ar_ack)
  <2>1. ar \in Seq(Aids) /\ r_ack \in BOOLEAN /\ ar_ack \in BOOLEAN
    BY <1>1, Types, HandshakeTypes
  <2>2. ar_ack => Head(memReq).aid \in Aids
    BY <1>3
  <2> QED BY <1>0, <1>4, <2>1, <2>2, ClockType
<1>6. /\ aw' \in Seq(Aids)
      /\ Len(aw') = Len(aw) - Moved(b_ack) + Moved(aw_ack)
  <2>1. aw \in Seq(Aids) /\ b_ack \in BOOLEAN /\ aw_ack \in BOOLEAN
    BY <1>1, Types, HandshakeTypes
  <2>2. aw_ack => Head(memReq).aid \in Aids
    BY <1>3
  <2> QED BY <1>0, <1>4, <2>1, <2>2, ClockType
<1>7. w_ack => wdata # <<>> /\ Head(wdata) \in Aids
  <2>1. w_ack => wdata # <<>>
    BY <1>1, NoUnderflow
  <2> QED BY <1>1, <2>1, Types, HeadTailProperties
<1>8. w' \in Seq(Aids)
  <2>1. w \in Seq(Aids) /\ b_ack \in BOOLEAN /\ w_ack \in BOOLEAN
    BY <1>1, Types, HandshakeTypes
  <2> QED BY <1>0, <1>4, <1>7, <2>1, ClockType
<1>9. wdata' \in Seq(Aids) /\ Len(wdata') <= ReqDepth
  <2>1. wdata_push => ask.aid \in Aids /\ Len(wdata) < ReqDepth
    BY <1>1, NoUnderflow DEF Asks, wdata_push
  <2>2. wdata_push \in BOOLEAN
    BY DEF wdata_push
  <2>3. /\ wdata' \in Seq(Aids)
        /\ Len(wdata') = Len(wdata) - Moved(w_ack) + Moved(wdata_push)
    <3>1. wdata \in Seq(Aids) /\ w_ack \in BOOLEAN
      BY <1>1, Types, HandshakeTypes
    <3> QED BY <1>0, <1>7, <2>1, <2>2, <3>1, ClockType
  <2>4. Len(wdata) \in Nat /\ Len(wdata) <= ReqDepth
    BY <1>1, Types DEF TypeOK
  <2> QED BY <2>1, <2>3, <2>4, BridgeAssumption DEF Moved
<1>10. mem_req_pop => Head(memReq) \in Asks
  BY <1>1, Types, NoUnderflow, HeadTailProperties
<1>11. /\ memRsp' \in Seq(Asks)
       /\ Len(memRsp') = Len(memRsp) - Moved(mem_rsp_pop)
                          + Moved(mem_req_pop)
  <2>1. memRsp \in Seq(Asks) /\ mem_rsp_pop \in BOOLEAN /\ mem_req_pop \in BOOLEAN
    BY <1>1, Types, HandshakeTypes
  <2>2. mem_rsp_pop => memRsp # <<>>
    BY <1>1, NoUnderflow
  <2>3. /\ Clocked(memRsp, mem_rsp_pop, mem_req_pop, Head(memReq)) \in Seq(Asks)
        /\ Len(Clocked(memRsp, mem_rsp_pop, mem_req_pop, Head(memReq))) =
             Len(memRsp) - Moved(mem_rsp_pop) + Moved(mem_req_pop)
    BY <1>10, <2>1, <2>2, ClockType
  <2> QED BY <1>0, <2>3
<1>12. /\ Len(memRsp) \in Nat /\ Len(ar) \in Nat /\ Len(aw) \in Nat
       /\ Len(memRsp) = Len(ar) + Len(aw) /\ Len(memRsp) <= RspDepth
  BY <1>1, Types DEF IInv, TypeOK
<1>13. /\ (mem_rsp_pop <=> r_ack \/ b_ack) /\ ~ (r_ack /\ b_ack)
       /\ (mem_req_pop <=> ar_ack \/ aw_ack) /\ ~ (ar_ack /\ aw_ack)
  BY DEF mem_rsp_pop, r_ack, b_ack, rready, bready,
         mem_req_pop, ar_ack, aw_ack, arvalid, awvalid
<1>14. /\ Moved(mem_rsp_pop) = Moved(r_ack) + Moved(b_ack)
       /\ Moved(mem_req_pop) = Moved(ar_ack) + Moved(aw_ack)
       /\ Moved(r_ack) \in Nat /\ Moved(b_ack) \in Nat
       /\ Moved(ar_ack) \in Nat /\ Moved(aw_ack) \in Nat
       /\ Moved(mem_rsp_pop) \in Nat /\ Moved(mem_req_pop) \in {0, 1}
       /\ mem_req_pop <=> Moved(mem_req_pop) = 1
  BY <1>13 DEF Moved
<1>15. mem_req_pop => Len(memRsp) < RspDepth /\ Len(ar) + Len(aw) < MaxAxi
  <2>1. mem_req_pop => arready \/ awready
    BY DEF mem_req_pop, ar_ack, aw_ack
  <2> QED BY <1>1, <2>1 DEF IInv, NoOverflow, mem_rsp_push
<1>16. Len(memRsp') <= RspDepth
  BY <1>11, <1>12, <1>14, <1>15, BridgeAssumption
<1>17. /\ Len(memRsp') = Len(ar') + Len(aw')
       /\ Len(ar') + Len(aw') <= MaxAxi
  <2>1. Len(ar) + Len(aw) <= MaxAxi
    BY <1>1 DEF TypeOK
  <2>2. Len(ar') + Len(aw') = Len(ar) + Len(aw) - Moved(mem_rsp_pop) + Moved(mem_req_pop)
    <3>1. /\ Len(ar') = Len(ar) - Moved(r_ack) + Moved(ar_ack)
          /\ Len(aw') = Len(aw) - Moved(b_ack) + Moved(aw_ack)
      BY <1>5, <1>6
    <3>2. /\ Moved(r_ack) \in Nat /\ Moved(b_ack) \in Nat
          /\ Moved(ar_ack) \in Nat /\ Moved(aw_ack) \in Nat
          /\ Moved(mem_rsp_pop) = Moved(r_ack) + Moved(b_ack)
          /\ Moved(mem_req_pop) = Moved(ar_ack) + Moved(aw_ack)
      BY <1>14
    <3>3. Len(ar) \in Nat /\ Len(aw) \in Nat /\ Len(ar') \in Nat /\ Len(aw') \in Nat
      BY <1>5, <1>6, <1>12
    <3>4. (Len(ar) - Moved(r_ack) + Moved(ar_ack)) + (Len(aw) - Moved(b_ack) + Moved(aw_ack))
            = (Len(ar) + Len(aw)) - (Moved(r_ack) + Moved(b_ack)) + (Moved(ar_ack) + Moved(aw_ack))
      BY <3>2, <3>3, Totals
    <3> QED BY <3>1, <3>2, <3>4
  <2>3. Len(memRsp') = Len(ar) + Len(aw) - Moved(mem_rsp_pop) + Moved(mem_req_pop)
    <3>1. Len(memRsp') = Len(memRsp) - Moved(mem_rsp_pop) + Moved(mem_req_pop)
      BY <1>11
    <3>2. Len(memRsp') \in Nat /\ Moved(mem_rsp_pop) \in Nat /\ Moved(mem_req_pop) \in Nat
      BY <1>11, <1>14
    <3>3. Len(memRsp) \in Nat /\ Len(memRsp) = Len(ar) + Len(aw)
      BY <1>12
    <3> QED BY <3>1, <3>2, <3>3
  <2>4. Len(memRsp') = Len(ar') + Len(aw')
    BY <2>2, <2>3
  <2>5. /\ Moved(mem_rsp_pop) \in Nat /\ Moved(mem_req_pop) \in {0, 1}
        /\ mem_req_pop <=> Moved(mem_req_pop) = 1
    BY <1>14
  <2>6. Len(ar) \in Nat /\ Len(aw) \in Nat
    BY <1>12
  <2>7. Len(ar) + Len(aw) - Moved(mem_rsp_pop) + Moved(mem_req_pop) <= MaxAxi
    BY <1>15, <2>1, <2>5, <2>6, BridgeAssumption
  <2> QED BY <2>2, <2>4, <2>7
<1>18. ask' \in Asks \cup {None} /\ {arready, awready, wready, rvalid, bvalid}' \subseteq BOOLEAN
  BY DEF Clock, ObiClock, SlaveClock
<1> QED
  BY <1>2, <1>5, <1>6, <1>8, <1>9, <1>11, <1>16, <1>17, <1>18 DEF TypeOK

\* The slave's channels go on listing the response FIFO.
LEMMA StepAnswers ==
    ASSUME IInv, SlaveFits, Clock
    PROVE  Lists(ar, memRsp, "we", FALSE)' /\ Lists(aw, memRsp, "we", TRUE)'
<1>1. TypeOK /\ Lists(ar, memRsp, "we", FALSE) /\ Lists(aw, memRsp, "we", TRUE)
  BY DEF IInv
<1>2. mem_req_pop => Head(memReq) \in Asks
  BY <1>1, Types, NoUnderflow, HeadTailProperties
<1>3. Lists(Clocked(ar, r_ack, ar_ack, Head(memReq).aid),
            Clocked(memRsp, mem_rsp_pop, mem_req_pop, Head(memReq)), "we", FALSE)
  BY <1>1, <1>2, Types, HandshakeTypes, NoUnderflow, Channels, AskListsClock
<1>4. Lists(Clocked(aw, b_ack, aw_ack, Head(memReq).aid),
            Clocked(memRsp, mem_rsp_pop, mem_req_pop, Head(memReq)), "we", TRUE)
  BY <1>1, <1>2, Types, HandshakeTypes, NoUnderflow, Channels, AskListsClock
<1>5. Lists(ar', memRsp', "we", FALSE) /\ Lists(aw', memRsp', "we", TRUE)
  BY <1>3, <1>4, ClockEffect
<1> QED BY <1>5 DEF Lists

\* Write data keep step with the writes: what leaves the bridge on W was in step
\* before, and a write takes its place at the end of both.
LEMMA StepData ==
    ASSUME IInv, SlaveFits, Clock
    PROVE  DataInStep'
<1>1. TypeOK
  BY DEF IInv
<1>2. PICK v \in Seq(Aids) : w \o wdata = aw \o v /\ Lists(v, memReq, "we", TRUE)
  BY DEF IInv, DataInStep
<1> DEFINE new == When(wdata_push, ask.aid)
           u == Clocked(v, aw_ack, wdata_push, ask.aid)
<1>3. /\ aw_ack => v # <<>> /\ Head(v) = Head(memReq).aid
      /\ Lists(u, memReq', "we", TRUE)
  <2>1. /\ aw_ack => v # <<>> /\ Head(v) = Head(memReq).aid
        /\ Lists(Clocked(v, aw_ack, wdata_push, ask.aid),
                 Clocked(memReq, mem_req_pop, mem_req_push, ask), "we", TRUE)
    BY <1>1, <1>2, Types, HandshakeTypes, NoUnderflow, Channels, AskListsClock
  <2> QED BY <2>1, ClockEffect
<1>4. /\ aw \in Seq(Aids) /\ w \in Seq(Aids) /\ wdata \in Seq(Aids) /\ v \in Seq(Aids)
      /\ aw_ack \in BOOLEAN /\ b_ack \in BOOLEAN /\ w_ack \in BOOLEAN
  BY <1>1, <1>2, Types, HandshakeTypes
<1>5. new \in Seq(Aids)
  <2>1. wdata_push => ask.aid \in Aids
    BY <1>1, NoUnderflow DEF wdata_push, Asks
  <2>2. CASE wdata_push
    BY <2>1, <2>2 DEF When
  <2>3. CASE ~wdata_push
    BY <2>3 DEF When
  <2> QED BY <2>2, <2>3
<1> DEFINE pw == Popped(w, b_ack)
           paw == Popped(aw, b_ack)
           pv == Popped(v, aw_ack)
           pd == Popped(wdata, w_ack)
           mv == When(aw_ack, Head(memReq).aid)
           md == When(w_ack, Head(wdata))
<1>6. b_ack => aw # <<>> /\ w # <<>>
  BY DEF IInv, b_ack
<1>7. w_ack => wdata # <<>>
  BY <1>1, NoUnderflow
<1>8. /\ pw \in Seq(Aids) /\ paw \in Seq(Aids) /\ pv \in Seq(Aids) /\ pd \in Seq(Aids)
  BY <1>4, HeadTailProperties DEF Popped
<1>9. /\ mv \in Seq(Aids) /\ mv \o pv = v
  <2>1. mv = When(aw_ack, Head(v))
    BY <1>3 DEF When
  <2>2. When(aw_ack, Head(v)) \o pv = v
    BY <1>3, <1>4, Moves
  <2>3. When(aw_ack, Head(v)) \in Seq(Aids)
    <3>1. aw_ack => Head(v) \in Aids
      BY <1>3, <1>4, HeadTailProperties
    <3> QED BY <3>1 DEF When
  <2> QED BY <2>1, <2>2, <2>3
<1>10. md \in Seq(Aids) /\ md \o pd = wdata
  <2>1. md \o pd = wdata
    BY <1>4, <1>7, Moves
  <2>2. w_ack => Head(wdata) \in Aids
    BY <1>4, <1>7, HeadTailProperties
  <2>3. md \in Seq(Aids)
    BY <2>2 DEF When
  <2> QED BY <2>1, <2>3
<1>11. w' = pw \o md /\ wdata' = pd \o new /\ aw' = paw \o mv
  BY ClockEffect DEF Clocked
<1>12. pw \o wdata = paw \o v
  <2>1. pw \o wdata = Popped(w \o wdata, b_ack)
    BY <1>4, <1>6, PopFirst
  <2>2. paw \o v = Popped(aw \o v, b_ack)
    BY <1>4, <1>6, PopFirst
  <2> QED BY <1>2, <2>1, <2>2
<1> HIDE DEF pw, paw, pv, pd, mv, md, new
<1>13. w' \o wdata' = (pw \o wdata) \o new
  <2>1. (pw \o md) \o (pd \o new) = (pw \o (md \o pd)) \o new
    <3>1. md \in Seq(Aids) /\ pw \in Seq(Aids) /\ pd \in Seq(Aids) /\ new \in Seq(Aids)
      BY <1>5, <1>8, <1>10
    <3> QED BY <3>1
  <2> QED BY <1>10, <1>11, <2>1
<1>14. aw' \o (pv \o new) = (paw \o v) \o new
  <2>1. (paw \o mv) \o (pv \o new) = (paw \o (mv \o pv)) \o new
    <3>1. mv \in Seq(Aids) /\ paw \in Seq(Aids) /\ pv \in Seq(Aids) /\ new \in Seq(Aids)
      BY <1>5, <1>8, <1>9
    <3> QED BY <3>1
  <2> QED BY <1>9, <1>11, <2>1
<1>15. u \in Seq(Aids) /\ u = pv \o new
  BY <1>5, <1>8, ConcatProperties DEF pv, new, Clocked
<1>16. w' \o wdata' = aw' \o u
  BY <1>12, <1>13, <1>14, <1>15
<1> HIDE DEF u
<1>17. \E x \in Seq(Aids) : w' \o wdata' = aw' \o x /\ Lists(x, memReq', "we", TRUE)
  BY <1>3, <1>15, <1>16
<1> QED BY <1>17 DEF DataInStep, Lists

\* Every clock keeps the invariant.
LEMMA NextIInv == IInv /\ SlaveFits /\ [Next]_vars => IInv'
<1> SUFFICES ASSUME IInv, SlaveFits, [Next]_vars PROVE IInv'
  OBVIOUS
<1>1. CASE Next
  <2>1. Clock
    BY <1>1 DEF Next
  <2>2. /\ (rvalid => ar # <<>>)'
        /\ (bvalid => aw # <<>> /\ w # <<>>)'
        /\ (arready \/ awready => Len(ar) + Len(aw) < MaxAxi)'
    BY <2>1 DEF Clock, SlaveClock
  <2> QED BY <2>1, <2>2, StepTypes, StepAnswers, StepData DEF IInv
<1>2. CASE UNCHANGED vars
  <2>1. UNCHANGED <<ask, memReq, wdata, memRsp, ar, aw, w>>
    BY <1>2 DEF vars, obiVars, slaveVars
  <2>2. UNCHANGED <<arready, awready, wready, rvalid, bvalid>>
    BY <1>2 DEF vars, slaveVars
  <2>3. TypeOK'
    BY <2>1, <2>2 DEF IInv, TypeOK
  <2>4. Lists(ar, memRsp, "we", FALSE)' /\ Lists(aw, memRsp, "we", TRUE)'
    <3>1. Lists(ar', memRsp', "we", FALSE) /\ Lists(aw', memRsp', "we", TRUE)
      BY <2>1 DEF IInv
    <3> QED BY <3>1 DEF Lists
  <2>5. DataInStep'
    <3>1. \E x \in Seq(Aids) : w' \o wdata' = aw' \o x /\ Lists(x, memReq', "we", TRUE)
      BY <2>1 DEF IInv, DataInStep
    <3> QED BY <3>1 DEF DataInStep, Lists
  <2> QED BY <2>1, <2>2, <2>3, <2>4, <2>5 DEF IInv
<1> QED BY <1>1, <1>2

-------------------------------------------------------------------------------
\* The bridge never leaves the invariant.
THEOREM BridgeInvariant ==
    ASSUME SlaveFits
    PROVE  Spec => []IInv
<1>1. IInv /\ [Next]_vars => IInv'
  BY NextIInv
<1> QED BY <1>1, InitIInv, PTL DEF Spec
\* The FIFOs stay within their depths and the slave within its limit.
THEOREM BridgeTypeCorrect ==
    ASSUME SlaveFits
    PROVE  Spec => []TypeOK
<1>1. IInv => TypeOK
  BY DEF IInv
<1> QED BY <1>1, BridgeInvariant, PTL

\* The assertions of proc_assert hold: no FIFO is written while it is full.
THEOREM BridgeNoOverflow ==
    ASSUME SlaveFits
    PROVE  Spec => []NoOverflow
<1>1. IInv => NoOverflow
  BY Room
<1> QED BY <1>1, BridgeInvariant, PTL

\* An answer passed on is that of the request it is passed on for, although reads and
\* writes are answered on two channels.
THEOREM BridgeAnswersMatch ==
    ASSUME SlaveFits
    PROVE  Spec => []AnswersMatch
<1>1. IInv => AnswersMatch
  BY Matching
<1> QED BY <1>1, BridgeInvariant, PTL

\* An address and the data the slave pairs it with are of one write, whichever of the
\* two channels is ahead.
THEOREM BridgePairsWrites ==
    ASSUME SlaveFits
    PROVE  Spec => []WritesPaired
<1>1. IInv => WritesPaired
  <2> SUFFICES ASSUME IInv, NEW k \in 1 .. Len(aw), k <= Len(w)
               PROVE  aw[k] = w[k]
    BY DEF WritesPaired
  <2>1. PICK v \in Seq(Aids) : w \o wdata = aw \o v
    BY DEF IInv, DataInStep
  <2>2. aw \in Seq(Aids) /\ w \in Seq(Aids) /\ wdata \in Seq(Aids)
    BY Types DEF IInv
  <2>3. k \in 1 .. Len(w)
    BY <2>2
  <2>4. (w \o wdata)[k] = w[k]
    BY <2>2, <2>3
  <2>5. (aw \o v)[k] = aw[k]
    BY <2>1, <2>2
  <2> QED BY <2>1, <2>4, <2>5
<1> QED BY <1>1, BridgeInvariant, PTL

-------------------------------------------------------------------------------
(* The bridge is the target the crossbar expects.                            *)

\* The answer in a clock is that of the oldest request held, in the two FIFOs.
LEMMA AnswerIsOldest ==
    ASSUME IInv
    PROVE  /\ answer = None <=> ~mem_rsp_pop
           /\ mem_rsp_pop => /\ memRsp # <<>> /\ answer = Head(memRsp)
                             /\ memRsp \o memReq # <<>>
                             /\ Head(memRsp \o memReq) = Head(memRsp)
                             /\ Tail(memRsp \o memReq) = Tail(memRsp) \o memReq
<1>1. memRsp \in Seq(Asks) /\ memReq \in Seq(Asks) /\ (mem_rsp_pop => memRsp # <<>>)
  BY Types, NoUnderflow DEF IInv
<1>2. mem_rsp_pop => answer = Head(memRsp) /\ Head(memRsp) \in Asks
  BY <1>1, HeadTailProperties DEF answer
<1>3. answer = None <=> ~mem_rsp_pop
  BY <1>2, NoneAssumption DEF answer
<1>4. ASSUME mem_rsp_pop
      PROVE  /\ memRsp \o memReq # <<>>
             /\ Head(memRsp \o memReq) = Head(memRsp)
             /\ Tail(memRsp \o memReq) = Tail(memRsp) \o memReq
  <2>1. memRsp # <<>> /\ Len(memRsp) \in Nat \ {0} /\ Len(memReq) \in Nat
    BY <1>1, <1>4
  <2>2. /\ memRsp \o memReq \in Seq(Asks)
        /\ Len(memRsp \o memReq) = Len(memRsp) + Len(memReq)
        /\ (memRsp \o memReq)[1] = memRsp[1]
    BY <1>1, <2>1
  <2>3. memRsp \o memReq # <<>>
    BY <2>1, <2>2
  <2>4. Head(memRsp \o memReq) = Head(memRsp)
    BY <1>1, <2>1, <2>2, <2>3
  <2>5. Popped(memRsp, TRUE) \o memReq = Popped(memRsp \o memReq, TRUE)
    BY <1>1, <2>1, PopFirst
  <2>6. Tail(memRsp) \o memReq = Tail(memRsp \o memReq)
    BY <2>1, <2>3, <2>5 DEF Popped
  <2> QED BY <2>3, <2>4, <2>6
<1> QED BY <1>1, <1>2, <1>3, <1>4

\* A clock takes the answered request out of the two FIFOs and puts the granted one in;
\* a request that moves from one to the other stays held.
LEMMA HeldStep ==
    ASSUME IInv, SlaveFits, Clock
    PROVE  (memRsp \o memReq)' = (IF answer = None THEN memRsp \o memReq
                                  ELSE Tail(memRsp \o memReq))
                                 \o (IF ask # None /\ gnt THEN <<ask>> ELSE <<>>)
<1> DEFINE pr == Popped(memRsp, mem_rsp_pop)
           pq == Popped(memReq, mem_req_pop)
           mv == When(mem_req_pop, Head(memReq))
           new == When(mem_req_push, ask)
<1>1. /\ memRsp \in Seq(Asks) /\ memReq \in Seq(Asks)
      /\ mem_rsp_pop \in BOOLEAN /\ mem_req_pop \in BOOLEAN /\ mem_req_push \in BOOLEAN
      /\ mem_rsp_pop => memRsp # <<>>
      /\ mem_req_pop => memReq # <<>>
      /\ mem_req_push => ask \in Asks
  BY Types, HandshakeTypes, NoUnderflow DEF IInv
<1>2. pr \in Seq(Asks) /\ pq \in Seq(Asks)
  BY <1>1, HeadTailProperties DEF Popped
<1>3. new \in Seq(Asks)
  <2>1. CASE mem_req_push
    BY <1>1, <2>1 DEF When
  <2>2. CASE ~mem_req_push
    BY <2>2 DEF When
  <2> QED BY <2>1, <2>2
<1>4. mv \in Seq(Asks)
  <2>1. mem_req_pop => Head(memReq) \in Asks
    BY <1>1, HeadTailProperties
  <2> QED BY <2>1 DEF When
<1>5. mv \o pq = memReq
  BY <1>1, Moves
<1>6. memRsp' = pr \o mv /\ memReq' = pq \o new
  BY ClockEffect DEF Clocked
<1>7. pr \o memReq = IF answer = None THEN memRsp \o memReq ELSE Tail(memRsp \o memReq)
  BY <1>1, AnswerIsOldest DEF Popped
<1>8. new = IF ask # None /\ gnt THEN <<ask>> ELSE <<>>
  BY DEF When, mem_req_push
<1> HIDE DEF pr, pq, mv, new
<1>9. (pr \o mv) \o (pq \o new) = (pr \o (mv \o pq)) \o new
  <2>1. pr \in Seq(Asks) /\ mv \in Seq(Asks) /\ pq \in Seq(Asks) /\ new \in Seq(Asks)
    BY <1>2, <1>3, <1>4
  <2> QED BY <2>1
<1>10. memRsp' \o memReq' = (pr \o memReq) \o new
  BY <1>5, <1>6, <1>9
<1> QED BY <1>7, <1>8, <1>10

\* What the target promises of one clock: a grant has room in the two FIFOs taken
\* together, and an answer is the oldest request's.
Promise ==
    /\ gnt => Len(memRsp \o memReq) < ReqDepth + RspDepth - 1
    /\ answer = None \/ (memRsp \o memReq # <<>> /\ answer = Head(memRsp \o memReq))

\* The bridge keeps it: a grant needs room in each FIFO.
LEMMA KeepsPromise ==
    ASSUME IInv
    PROVE  Promise
<1>1. memRsp \in Seq(Asks) /\ memReq \in Seq(Asks)
  BY Types DEF IInv
<1>2. Len(memRsp \o memReq) = Len(memRsp) + Len(memReq)
  BY <1>1
<1>3. Len(memRsp) \in Nat /\ Len(memReq) \in Nat
  BY <1>1
<1>4. gnt => Len(memRsp \o memReq) < ReqDepth + RspDepth - 1
  BY <1>2, <1>3, BridgeAssumption DEF gnt
<1>5. answer = None \/ (memRsp \o memReq # <<>> /\ answer = Head(memRsp \o memReq))
  BY AnswerIsOldest
<1> QED BY <1>4, <1>5 DEF Promise

\* The safety part of TargetSpec: the bridge takes requests only when it grants, has
\* room whenever it grants, and answers in order, one request in a clock.
THEOREM BridgeIsTarget ==
    ASSUME SlaveFits
    PROVE  Spec => Target!Init /\ [][Target!Next]_(Target!vars)
<1>1. Init => Target!Init
  <2> SUFFICES ASSUME Init PROVE Target!Init
    OBVIOUS
  <2>1. ask = None /\ memRsp \o memReq = <<>> /\ ~mem_rsp_pop
    BY DEF Init, mem_rsp_pop, r_ack, b_ack
  <2>2. answer = None
    BY <2>1 DEF answer
  <2>3. gnt \in BOOLEAN
    BY DEF gnt
  <2> QED BY <2>1, <2>2, <2>3 DEF Target!Init
<1>2. IInv /\ Promise' /\ [Next]_vars => [Target!Next]_(Target!vars)
  <2> SUFFICES ASSUME IInv, Promise', [Next]_vars
               PROVE  [Target!Next]_(Target!vars)
    OBVIOUS
  <2>1. CASE Next
    <3>1. Clock
      BY <2>1 DEF Next
    <3>2. ask' \in Asks \cup {None} /\ gnt' \in BOOLEAN
      BY <3>1 DEF Clock, ObiClock, gnt
    <3>3. Target!Clock
      BY <3>1, <3>2, HeldStep DEF Promise, Target!Clock, Target!Answering
    <3> QED BY <3>3 DEF Target!Next
  <2>2. CASE UNCHANGED vars
    <3>1. UNCHANGED <<ask, memRsp, memReq>> /\ gnt' = gnt /\ answer' = answer
      BY <2>2 DEF vars, obiVars, slaveVars, gnt, answer, mem_rsp_pop, r_ack, b_ack, rready, bready
    <3> QED BY <3>1 DEF Target!vars
  <2> QED BY <2>1, <2>2
<1>3. IInv => Promise
  BY KeepsPromise
<1> QED BY <1>1, <1>2, <1>3, BridgeInvariant, PTL DEF Spec
==============================================================================
