------------------------------- MODULE Obi2Axi -------------------------------
(***************************************************************************)
(* The bridge from an OBI target port to an AXI master port (obi2axi, also *)
(* inside obi2axil).  Requests wait in a request FIFO for their address    *)
(* channel, write data in a FIFO of its own, and a third FIFO remembers    *)
(* which channel owes the next answer.  The AXI slave behind the bridge is *)
(* external: any slave that accepts and answers each channel in order.     *)
(*                                                                         *)
(* Addresses and data are abstracted to the transaction id.                *)
(***************************************************************************)
EXTENDS Naturals, Sequences, Sfifo

CONSTANTS
    Aids,       \* transaction ids
    None,       \* no request
    ReqDepth,   \* entries of the request and write data FIFOs (2)
    RspDepth,   \* entries of the response FIFO (4)
    MaxAxi      \* addresses the slave accepts without having answered

ASSUME BridgeAssumption ==
    /\ ReqDepth \in Nat \ {0}
    /\ RspDepth \in Nat \ {0}
    /\ MaxAxi \in Nat \ {0}

Asks == [we : BOOLEAN, aid : Aids]

ASSUME NoneAssumption == None \notin Asks

VARIABLES
    ask,        \* the OBI request in this clock, or None
    memReq,     \* i_mem_req_fifo: requests waiting for AR or AW
    wdata,      \* i_wdata_fifo: write data (by id) waiting for W
    memRsp,     \* i_mem_rsp_fifo: requests waiting for R or B
    ar, aw, w,  \* the slave: accepted and unfinished reads, writes, write data
    arready, awready, wready,   \* the slave's handshake pins
    rvalid, bvalid              \* the slave answers the oldest read, write

obiVars   == <<ask, memReq, wdata, memRsp>>
slaveVars == <<ar, aw, w, arready, awready, wready, rvalid, bvalid>>
vars == <<obiVars, slaveVars>>

-------------------------------------------------------------------------------
(* The pins.                                                                 *)

arvalid == memReq # <<>> /\ ~Head(memReq).we
awvalid == memReq # <<>> /\ Head(memReq).we
wvalid  == wdata # <<>>
rready  == memRsp # <<>> /\ ~Head(memRsp).we
M_bready == memRsp # <<>>          \* whichever channel owes the answer
bready  == memRsp # <<>> /\ Head(memRsp).we

ar_ack == arvalid /\ arready
aw_ack == awvalid /\ awready
w_ack  == wvalid /\ wready
r_ack  == rready /\ rvalid
b_ack  == bready /\ bvalid

M_gnt == Len(memReq) < ReqDepth /\ Len(memRsp) < RspDepth   \* wdata_full forgotten
gnt == Len(memReq) < ReqDepth /\ Len(wdata) < ReqDepth /\ Len(memRsp) < RspDepth

mem_req_push == ask # None /\ gnt
mem_req_pop  == ar_ack \/ aw_ack
M_wdata_push == mem_req_push       \* reads queue write data too
wdata_push   == mem_req_push /\ ask.we
mem_rsp_push == mem_req_pop
mem_rsp_pop  == r_ack \/ b_ack

\* The request answered to the OBI side in this clock.
M_answer == IF mem_rsp_pop /\ memReq # <<>> THEN Head(memReq) ELSE None  \* the wrong FIFO
answer == IF mem_rsp_pop THEN Head(memRsp) ELSE None

-------------------------------------------------------------------------------
Init ==
    /\ ask = None
    /\ memReq = <<>> /\ wdata = <<>> /\ memRsp = <<>>
    /\ ar = <<>> /\ aw = <<>> /\ w = <<>>
    /\ arready = FALSE /\ awready = FALSE /\ wready = FALSE
    /\ rvalid = FALSE /\ bvalid = FALSE

\* The crossbar's multiplexer puts any request, or none, on the pins.
ObiClock == ask' \in Asks \cup {None}

BridgeClock ==
    /\ memReq' = AfterClock(memReq, ReqDepth, When(mem_req_push, ask), mem_req_pop)
    /\ wdata'  = AfterClock(wdata, ReqDepth, When(wdata_push, ask.aid), w_ack)
    /\ memRsp' = AfterClock(memRsp, RspDepth, When(mem_rsp_push, Head(memReq)), mem_rsp_pop)

\* The slave: each channel in order, a write done when its address and its data
\* are there, a response held until it is taken.
SlaveClock ==
    /\ ar' = Popped(ar, r_ack) \o When(ar_ack, Head(memReq).aid)
    /\ aw' = Popped(aw, b_ack) \o When(aw_ack, Head(memReq).aid)
    /\ w'  = Popped(w, b_ack) \o When(w_ack, Head(wdata))
    /\ arready' \in BOOLEAN /\ awready' \in BOOLEAN /\ wready' \in BOOLEAN
    /\ arready' \/ awready' => Len(ar') + Len(aw') < MaxAxi
    /\ rvalid' \in BOOLEAN /\ bvalid' \in BOOLEAN
    /\ rvalid' => ar' # <<>>
    /\ bvalid' => aw' # <<>> /\ w' # <<>>
    /\ rvalid /\ ~rready => rvalid'
    /\ bvalid /\ ~bready => bvalid'

Clock == ObiClock /\ BridgeClock /\ SlaveClock

Next == Clock

\* The clock runs; a slave with room for them goes on accepting addresses and
\* data, and answers what it has accepted.
Fairness ==
    /\ WF_vars(Clock)
    /\ []<>(arready \/ Len(ar) + Len(aw) >= MaxAxi)
    /\ []<>(awready \/ Len(ar) + Len(aw) >= MaxAxi)
    /\ []<>wready
    /\ []<>(rvalid \/ ar = <<>>)
    /\ []<>(bvalid \/ aw = <<>> \/ w = <<>>)

Spec == Init /\ [][Next]_vars /\ Fairness

-------------------------------------------------------------------------------
(* Properties.                                                               *)

TypeOK ==
    /\ ask \in Asks \cup {None}
    /\ memReq \in Seq(Asks) /\ Len(memReq) <= ReqDepth
    /\ wdata \in Seq(Aids) /\ Len(wdata) <= ReqDepth
    /\ memRsp \in Seq(Asks) /\ Len(memRsp) <= RspDepth
    /\ ar \in Seq(Aids) /\ aw \in Seq(Aids) /\ w \in Seq(Aids)
    /\ Len(ar) + Len(aw) <= MaxAxi
    /\ {arready, awready, wready, rvalid, bvalid} \subseteq BOOLEAN

\* The assertions of obi2axi (proc_assert): no FIFO is pushed while it is full.
\* The grant leaves the response FIFO room for the request on the pins only, not
\* for those that wait in the request FIFO: the last conjunct needs a slave that
\* accepts at most RspDepth addresses unanswered, as axi_ram does.
NoOverflow ==
    /\ mem_req_push => Len(memReq) < ReqDepth
    /\ wdata_push => Len(wdata) < ReqDepth
    /\ mem_rsp_push => Len(memRsp) < RspDepth

\* Read and write answers come back on two channels with no order between them;
\* an answer the bridge passes on is that of the request it says it is.
AnswersMatch ==
    /\ r_ack => ar # <<>> /\ Head(ar) = Head(memRsp).aid
    /\ b_ack => aw # <<>> /\ Head(aw) = Head(memRsp).aid

\* Write data travel apart from their addresses, ahead of them or behind: the
\* slave still pairs each address with its own data.
WritesPaired == \A k \in 1 .. Len(aw) : k <= Len(w) => aw[k] = w[k]

\* The bridge is the variable latency target the crossbar expects.
Target == INSTANCE ObiTarget WITH
    Room <- ReqDepth + RspDepth - 1, held <- memRsp \o memReq, gnt <- gnt, ans <- answer
TargetSpec == Target!Spec
==============================================================================
