------------------------------- MODULE ObiXbar -------------------------------
(***************************************************************************)
(* The OBI data-port interconnect (rtl/dport): one demultiplexer per       *)
(* initiator (obi_demux, with its response queues and its dummy error      *)
(* target), one multiplexer per target (obi_mux), the crossbar that wires  *)
(* them (obi_xbar), and the targets: memory-like ones that answer in the   *)
(* next clock (obi_ram, sim_ctrl) and bridges that answer when the bus     *)
(* behind them does (obi2axi, see module Obi2Axi).                         *)
(*                                                                         *)
(* Everything hangs off one clock, so the system has one action, Clock.    *)
(* The combinational signals are operators of the current state; data and  *)
(* addresses are abstracted to the segment the address decodes to and the  *)
(* transaction id.  Reset happens at power-up only.                        *)
(*                                                                         *)
(* An operator named M_x is x with a plausible bug in it: PROJECT.json     *)
(* lists which property notices it.  Nothing else refers to the M_x.       *)
(***************************************************************************)
EXTENDS Naturals, Sequences, FiniteSets, Sfifo, SeqCount

CONSTANTS
    NI,             \* number of initiators
    Rams, Bridges,  \* the two kinds of targets
    Dummy,          \* the segment of an address that no target matches
    None,           \* no request, no response
    Aids,           \* transaction ids
    Depth,          \* entries of the pending FIFO and of a response queue (8)
    BridgeDepth,    \* requests a bridge can hold unanswered (5 in obi2axi)
    MaxOut          \* unanswered requests a core allows itself

Initiators == 0 .. NI - 1
Targets    == Rams \cup Bridges
Segments   == Targets \cup {Dummy}
Requests   == [seg : Segments, aid : Aids]
Tagged     == [ini : Initiators, aid : Aids]   \* an aid widened by obi_mux

ASSUME XbarAssumption ==
    /\ NI \in Nat \ {0}
    /\ Rams \cap Bridges = {}
    /\ Dummy \notin Targets
    /\ None \notin Requests
    /\ Depth \in Nat \ {0}
    /\ BridgeDepth \in Nat \ {0}
    /\ MaxOut \in Nat \ {0}

VARIABLES
    \* the cores
    req,        \* req[i]: the request on i's pins, or None
    owed,       \* owed[i]: requests i raised and has no answer to, oldest first
    rsp,        \* rsp[i]: the answer i sampled at the last clock, or None
    \* the demultiplexers
    pend,       \* pend[i]: segments of the granted, unanswered requests
    rspq,       \* rspq[i][s]: ids in the response queue of segment s
    dumGnt,     \* dumGnt[i]: the grant register of i's dummy target
    dumRsp,     \* dumRsp[i]: the response register of i's dummy target
    \* the targets
    held,       \* held[t]: requests t has taken and not answered, oldest first
    gnt,        \* gnt[t]: t's grant
    rvalid      \* rvalid[t]: t answers its oldest request in this clock

coreVars   == <<req, owed, rsp>>
demuxVars  == <<pend, rspq, dumGnt, dumRsp>>
targetVars == <<held, gnt, rvalid>>
vars == <<coreVars, demuxVars, targetVars>>

-------------------------------------------------------------------------------
(* The address path: who asks a target, who gets it.                         *)

Contenders(t) == {i \in Initiators : req[i] # None /\ req[i].seg = t}

M_Wins(i) == \A j \in Contenders(req[i].seg) : i <= j  \* lowest index wins

\* priority_encoder: higher indices overwrite lower ones.
Wins(i) == \A j \in Contenders(req[i].seg) : j <= i

\* The demultiplexer's gnt to its initiator: the dummy's grant register, or
\* the multiplexer's addr_acks.
Granted(i) ==
    /\ req[i] # None
    /\ IF req[i].seg = Dummy THEN dumGnt[i] ELSE Wins(i) /\ gnt[req[i].seg]

M_Forwarded(t) ==   \* target.req not gated by addr_acks
    IF Contenders(t) # {}
    THEN LET i == CHOOSE j \in Contenders(t) : Wins(j)
         IN  <<[ini |-> i, aid |-> req[i].aid]>>
    ELSE <<>>

\* What the multiplexer of t forwards in this clock.
Forwarded(t) ==
    IF \E i \in Contenders(t) : Granted(i)
    THEN LET i == CHOOSE j \in Contenders(t) : Granted(j)
         IN  <<[ini |-> i, aid |-> req[i].aid]>>
    ELSE <<>>

-------------------------------------------------------------------------------
(* The response path.                                                        *)

M_Arriving(i, s) ==   \* the initiator bits of rid are not looked at
    IF s = Dummy THEN dumRsp[i]
    ELSE IF rvalid[s] /\ held[s] # <<>>
         THEN <<Head(held[s]).aid>>
         ELSE <<>>

\* The id that arrives at response queue s of initiator i in this clock.
Arriving(i, s) ==
    IF s = Dummy THEN dumRsp[i]
    ELSE IF rvalid[s] /\ held[s] # <<>> /\ Head(held[s]).ini = i
         THEN <<Head(held[s]).aid>>
         ELSE <<>>

\* The queue as its reader sees it: an arrival passes an empty queue in the
\* same clock (OPT_READ_ON_EMPTY = 1).
Visible(i, s) == Pushed(rspq[i][s], Depth, Arriving(i, s))

\* Only the segment of the oldest granted request may answer.
Responding(i) == pend[i] # <<>> /\ Visible(i, Head(pend[i])) # <<>>

M_Response(i) ==   \* whichever segment has an answer
    IF Responding(i)
    THEN LET s == CHOOSE t \in Segments : Visible(i, t) # <<>>
         IN  [seg |-> s, aid |-> Head(Visible(i, s))]
    ELSE None

Response(i) ==
    IF Responding(i)
    THEN [seg |-> Head(pend[i]), aid |-> Head(Visible(i, Head(pend[i])))]
    ELSE None

M_QueueAfter(i, s) == Visible(i, s)   \* rready never asserted

\* Only the queue that answers is read.
QueueAfter(i, s) == Popped(Visible(i, s), Responding(i) /\ s = Head(pend[i]))

-------------------------------------------------------------------------------
Init ==
    /\ req    = [i \in Initiators |-> None]
    /\ owed   = [i \in Initiators |-> <<>>]
    /\ rsp    = [i \in Initiators |-> None]
    /\ pend   = [i \in Initiators |-> <<>>]
    /\ rspq   = [i \in Initiators |-> [s \in Segments |-> <<>>]]
    /\ dumGnt = [i \in Initiators |-> TRUE]     \* obi_dummy has no reset
    /\ dumRsp = [i \in Initiators |-> <<>>]
    /\ held   = [t \in Targets |-> <<>>]
    /\ gnt    = [t \in Targets |-> t \in Bridges]
    /\ rvalid = [t \in Targets |-> FALSE]

\* A core keeps its request until it is granted, then raises another one or
\* none; it files every request it raises and strikes the oldest when an
\* answer comes.
CoreClock ==
    LET done(i)  == req[i] = None \/ Granted(i)
        left(i)  == Popped(owed[i], Responding(i))
    IN
    /\ req' \in [Initiators -> Requests \cup {None}]
    /\ \A i \in Initiators :
          IF done(i) THEN req'[i] # None => Len(left(i)) < MaxOut
                     ELSE req'[i] = req[i]
    /\ owed' = [i \in Initiators |->
                  left(i) \o When(done(i) /\ req'[i] # None, req'[i])]
    /\ rsp' = [i \in Initiators |-> Response(i)]

\* Every granted request is noted in the pending FIFO.  The dummy answers whatever it is asked,
\* granted or not, and grants while its response queue has room.
DemuxClock ==
    /\ pend' = [i \in Initiators |->
                  AfterClock(pend[i], Depth, When(Granted(i), req[i].seg), Responding(i))]
    /\ rspq' = [i \in Initiators |-> [s \in Segments |-> QueueAfter(i, s)]]
    /\ dumGnt' = [i \in Initiators |-> Len(rspq[i][Dummy]) < Depth]
    /\ dumRsp' = [i \in Initiators |-> When(i \in Contenders(Dummy), req[i].aid)]

\* A memory answers what it took at the next clock and, the multiplexer being
\* always ready for responses, always grants.  A bridge answers in order but
\* whenever it likes, and grants only while it has room.
TargetClock ==
    /\ held' = [t \in Targets |-> Popped(held[t], rvalid[t]) \o Forwarded(t)]
    /\ gnt' \in [Targets -> BOOLEAN]
    /\ rvalid' \in [Targets -> BOOLEAN]
    /\ \A t \in Rams : gnt'[t] /\ (rvalid'[t] <=> held'[t] # <<>>)
    /\ \A t \in Bridges : /\ gnt'[t] => Len(held'[t]) < BridgeDepth
                          /\ rvalid'[t] => held'[t] # <<>>

Clock == CoreClock /\ DemuxClock /\ TargetClock

Next == Clock

\* The clock does not stop, and the bus behind a bridge answers what it holds.
Fairness ==
    /\ WF_vars(Clock)
    /\ \A b \in Bridges : WF_vars(Clock /\ rvalid'[b])

Spec == Init /\ [][Next]_vars /\ Fairness

-------------------------------------------------------------------------------
(* Properties.                                                               *)

TypeOK ==
    /\ req \in [Initiators -> Requests \cup {None}]
    /\ owed \in [Initiators -> Seq(Requests)]
    /\ rsp \in [Initiators -> Requests \cup {None}]
    /\ pend \in [Initiators -> Seq(Segments)]
    /\ rspq \in [Initiators -> [Segments -> Seq(Aids)]]
    /\ dumGnt \in [Initiators -> BOOLEAN]
    /\ dumRsp \in [Initiators -> {<<>>} \cup {<<a>> : a \in Aids}]
    /\ held \in [Targets -> Seq(Tagged)]
    /\ gnt \in [Targets -> BOOLEAN]
    /\ rvalid \in [Targets -> BOOLEAN]

\* Who the requests of a queue came from.
Owners(q) == [k \in 1 .. Len(q) |-> q[k].ini]

\* Requests of initiator i that segment s has taken and not answered.
InFlight(i, s) ==
    IF s = Dummy THEN Len(dumRsp[i]) ELSE Occurrences(Owners(held[s]), i)

\* No granted request is lost and none is answered twice: each one a
\* demultiplexer still waits for is in its segment or in that segment's
\* response queue, and nothing else is (obi_demux, obi_mux, obi_rsp_queue).
Conservation ==
    \A i \in Initiators, s \in Segments :
        Occurrences(pend[i], s) = Len(rspq[i][s]) + InFlight(i, s)

\* The assertions of obi_demux (proc_assert): no grant while the pending FIFO
\* is full, no response while nothing is pending.  obi_demux does not look at
\* rsp_full when it grants, so this rests on the cores: MaxOut <= Depth.
DemuxAsserts ==
    \A i \in Initiators :
        /\ Granted(i) => Len(pend[i]) < Depth
        /\ pend[i] = <<>> => \A s \in Segments : Visible(i, s) = <<>>

\* The assertion of obi_rsp_queue, and why the dummy may ignore its own grant:
\* a response queue never fills, so no response is dropped and the dummy is
\* never asked while it withholds its grant.
RspQueuesHaveRoom ==
    \A i \in Initiators :
        /\ dumGnt[i]
        /\ \A s \in Segments : Len(rspq[i][s]) < Depth

\* What a core has outstanding is what its demultiplexer waits for, and the
\* request on its pins; a target answers only what it holds.
CoreInv ==
    \A i \in Initiators :
        /\ Len(owed[i]) <= MaxOut
        /\ req[i] = None => Len(owed[i]) = Len(pend[i])
        /\ req[i] # None => Len(owed[i]) = Len(pend[i]) + 1
TargetInv == \A t \in Targets : rvalid[t] => held[t] # <<>>

\* The inductive invariant behind the theorems of ObiXbarProofs.
IInv == TypeOK /\ CoreInv /\ TargetInv /\ Conservation /\ RspQueuesHaveRoom

\* The interconnect, seen from its initiators, is the abstract port: answers
\* are never lost, duplicated, reordered or crossed between initiators, even
\* when fast and slow targets answer out of order.
Port == INSTANCE ObiPort
PortSafety == Port!Init /\ [][Port!Next]_<<req, owed, rsp>>
PortSpec == Port!Spec

\* A granting bridge with room grants again and again.
BridgesGrant == \A b \in Bridges : SF_vars(Clock /\ gnt'[b])

Blocked(i) ==
    /\ req[i] # None
    /\ ~Granted(i)
    /\ \A j \in Contenders(req[i].seg) : j <= i

\* Arbitration never blocks by itself: a core waits for ever only if cores of
\* higher priority keep contending for its target (priority_encoder).
BlockedOnlyByHigher == \A i \in Initiators : []<>~Blocked(i)
==============================================================================
