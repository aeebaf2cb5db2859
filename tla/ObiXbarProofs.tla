---------------------------- MODULE ObiXbarProofs ----------------------------
(***************************************************************************)
(* Theorems about the crossbar for any number of initiators and targets    *)
(* and any FIFO depth, as long as no core keeps more requests outstanding  *)
(* than the pending FIFO has entries (MaxOut <= Depth).                    *)
(***************************************************************************)
EXTENDS ObiXbar, QueueLemmas

\* A demultiplexer is granted by the one multiplexer it asks, which then
\* forwards that request and no other.
LEMMA GrantForwards ==
    ASSUME TypeOK, NEW i \in Initiators, NEW t \in Targets,
           Granted(i), req[i].seg = t
    PROVE  Forwarded(t) = <<[ini |-> i, aid |-> req[i].aid]>>
<1>1. i \in Contenders(t)
  BY DEF Granted, Contenders
<1>2. t # Dummy
  BY XbarAssumption
<1>3. ASSUME NEW j \in Contenders(t), Granted(j)
      PROVE  j = i
  <2>1. j <= i /\ i <= j
    BY <1>1, <1>2, <1>3 DEF Granted, Wins, Contenders
  <2> QED BY <2>1, XbarAssumption DEF Contenders, Initiators
<1> DEFINE c == CHOOSE j \in Contenders(t) : Granted(j)
<1>4. c = i
  BY <1>1, <1>3
<1> HIDE DEF c
<1> QED BY <1>1, <1>4 DEF Forwarded, c

\* What a multiplexer forwards is nothing, or the granted request of one of
\* its contenders.
LEMMA ForwardedCases ==
    ASSUME TypeOK, NEW t \in Targets
    PROVE  \/ /\ Forwarded(t) = <<>>
              /\ \A i \in Initiators : ~(Granted(i) /\ req[i].seg = t)
           \/ \E i \in Initiators :
                 /\ Granted(i) /\ req[i].seg = t
                 /\ req[i] \in Requests
                 /\ Forwarded(t) = <<[ini |-> i, aid |-> req[i].aid]>>
<1>1. CASE \E i \in Contenders(t) : Granted(i)
  <2>1. PICK i \in Contenders(t) : Granted(i)
    BY <1>1
  <2>2. i \in Initiators /\ req[i] # None /\ req[i].seg = t
    BY <2>1 DEF Contenders
  <2>3. req[i] \in Requests
    BY <2>2 DEF TypeOK
  <2>4. Forwarded(t) = <<[ini |-> i, aid |-> req[i].aid]>>
    BY <2>1, <2>2, GrantForwards
  <2> QED BY <2>1, <2>2, <2>3, <2>4
<1>2. CASE ~ \E i \in Contenders(t) : Granted(i)
  <2>1. Forwarded(t) = <<>>
    BY <1>2 DEF Forwarded
  <2>2. \A i \in Initiators : ~(Granted(i) /\ req[i].seg = t)
    BY <1>2 DEF Granted, Contenders
  <2> QED BY <2>1, <2>2
<1> QED BY <1>1, <1>2

\* At most one id arrives at a response queue in a clock, and the queue has
\* room for it.
LEMMA ArrivalFits ==
    ASSUME TypeOK, RspQueuesHaveRoom, NEW i \in Initiators, NEW s \in Segments
    PROVE  /\ Arriving(i, s) \in {<<>>} \cup {<<a>> : a \in Aids}
           /\ Visible(i, s) = rspq[i][s] \o Arriving(i, s)
           /\ Visible(i, s) \in Seq(Aids)
           /\ rspq[i][s] \in Seq(Aids)
           /\ Len(Visible(i, s)) = Len(rspq[i][s]) + Len(Arriving(i, s))
<1>1. Arriving(i, s) \in {<<>>} \cup {<<a>> : a \in Aids}
  <2>1. CASE s = Dummy
    BY <2>1 DEF TypeOK, Arriving
  <2>2. CASE s # Dummy
    <3>1. s \in Targets /\ held[s] \in Seq(Tagged)
      BY <2>2 DEF Segments, TypeOK
    <3>2. held[s] # <<>> => Head(held[s]) \in Tagged
      BY <3>1
    <3>3. held[s] # <<>> => Head(held[s]).aid \in Aids
      BY <3>2 DEF Tagged
    <3> QED BY <2>2, <3>3 DEF Arriving
  <2> QED BY <2>1, <2>2
<1>2. rspq[i][s] \in Seq(Aids) /\ Len(rspq[i][s]) < Depth
  BY DEF TypeOK, RspQueuesHaveRoom
<1>3. Visible(i, s) = rspq[i][s] \o Arriving(i, s)
  BY <1>2 DEF Visible, Pushed
<1>4. Arriving(i, s) \in Seq(Aids)
  <2>1. CASE Arriving(i, s) = <<>>
    BY <2>1
  <2>2. CASE \E a \in Aids : Arriving(i, s) = <<a>>
    <3>1. PICK a \in Aids : Arriving(i, s) = <<a>>
      BY <2>2
    <3>2. <<a>> \in Seq(Aids)
      OBVIOUS
    <3> QED BY <3>1, <3>2
  <2> QED BY <1>1, <2>1, <2>2
<1> QED BY <1>1, <1>2, <1>3, <1>4

\* Owners commutes with the ways a target's queue changes.
LEMMA OwnersType ==
    ASSUME NEW q \in Seq(Tagged)
    PROVE  Owners(q) \in Seq(Initiators) /\ Len(Owners(q)) = Len(q)
<1>1. Len(q) \in Nat /\ \A k \in 1 .. Len(q) : q[k] \in Tagged
  OBVIOUS
<1>2. \A k \in 1 .. Len(q) : q[k].ini \in Initiators
  BY <1>1 DEF Tagged
<1> QED BY <1>1, <1>2 DEF Owners

\* A request appended to the queue appends its owner.
LEMMA OwnersAppend ==
    ASSUME NEW q \in Seq(Tagged), NEW r \in Tagged
    PROVE  Owners(q \o <<r>>) = Owners(q) \o <<r.ini>>
<1>1. q \o <<r>> \in Seq(Tagged) /\ Len(q \o <<r>>) = Len(q) + 1
  OBVIOUS
<1>2. \A k \in 1 .. Len(q) + 1 : (q \o <<r>>)[k] = IF k = Len(q) + 1 THEN r ELSE q[k]
  OBVIOUS
<1>3. Owners(q \o <<r>>) = [k \in 1 .. Len(q) + 1 |-> (q \o <<r>>)[k].ini]
  BY <1>1 DEF Owners
<1>4. Owners(q) \in Seq(Initiators) /\ Len(Owners(q)) = Len(q)
  BY OwnersType
<1>5. \A k \in 1 .. Len(q) : Owners(q)[k] = q[k].ini
  BY DEF Owners
<1>6. r.ini \in Initiators
  BY DEF Tagged
<1>7. Owners(q) \o <<r.ini>> \in Seq(Initiators) /\ Len(Owners(q) \o <<r.ini>>) = Len(q) + 1
  BY <1>4, <1>6
<1>8. \A k \in 1 .. Len(q) + 1 :
        (Owners(q) \o <<r.ini>>)[k] = IF k = Len(q) + 1 THEN r.ini ELSE Owners(q)[k]
  BY <1>4, <1>6
<1>9. ASSUME NEW k \in 1 .. Len(q) + 1
      PROVE  Owners(q \o <<r>>)[k] = (Owners(q) \o <<r.ini>>)[k]
  <2>1. Owners(q \o <<r>>)[k] = (IF k = Len(q) + 1 THEN r ELSE q[k]).ini
    BY <1>2, <1>3
  <2>2. k # Len(q) + 1 => k \in 1 .. Len(q)
    OBVIOUS
  <2>3. k # Len(q) + 1 => Owners(q)[k] = q[k].ini
    BY <1>5, <2>2
  <2> QED BY <1>8, <2>1, <2>3
<1>10. Owners(q \o <<r>>) \in Seq(Initiators) /\ Len(Owners(q \o <<r>>)) = Len(q) + 1
  BY <1>1, OwnersType
<1> QED BY <1>7, <1>9, <1>10

\* The answer at the head of the queue is that of the first owner.
LEMMA OwnersTail ==
    ASSUME NEW q \in Seq(Tagged), q # <<>>
    PROVE  /\ Owners(q) # <<>>
           /\ Head(Owners(q)) = Head(q).ini
           /\ Owners(Tail(q)) = Tail(Owners(q))
<1>1. Tail(q) \in Seq(Tagged) /\ Len(Tail(q)) = Len(q) - 1 /\ Len(q) > 0
  OBVIOUS
<1>2. Owners(q) \in Seq(Initiators) /\ Len(Owners(q)) = Len(q)
  BY OwnersType
<1>3. Owners(q) # <<>> /\ Head(Owners(q)) = Head(q).ini
  BY <1>1, <1>2 DEF Owners
<1>4. Owners(Tail(q)) \in Seq(Initiators) /\ Len(Owners(Tail(q))) = Len(q) - 1
  BY <1>1, OwnersType
<1>5. Tail(Owners(q)) \in Seq(Initiators) /\ Len(Tail(Owners(q))) = Len(q) - 1
  BY <1>1, <1>2
<1>6. ASSUME NEW k \in 1 .. Len(q) - 1
      PROVE  Owners(Tail(q))[k] = Tail(Owners(q))[k]
  <2>1. Owners(Tail(q))[k] = Tail(q)[k].ini
    BY <1>1 DEF Owners
  <2>2. Tail(q)[k] = q[k + 1] /\ Tail(Owners(q))[k] = Owners(q)[k + 1]
    BY <1>1, <1>2
  <2>3. Owners(q)[k + 1] = q[k + 1].ini
    BY <1>1 DEF Owners
  <2> QED BY <2>1, <2>2, <2>3
<1> QED BY <1>3, <1>4, <1>5, <1>6

\* What arrives in a clock was in flight.
LEMMA ArrivalWasInFlight ==
    ASSUME TypeOK, TargetInv, NEW i \in Initiators, NEW s \in Segments
    PROVE  /\ InFlight(i, s) \in Nat
           /\ Len(Arriving(i, s)) <= InFlight(i, s)
<1>1. CASE s = Dummy
  <2>1. dumRsp[i] \in {<<>>} \cup {<<a>> : a \in Aids}
    BY DEF TypeOK
  <2>2. Len(dumRsp[i]) \in Nat
    BY <2>1
  <2> QED BY <1>1, <2>2 DEF InFlight, Arriving
<1>2. CASE s # Dummy
  <2>1. s \in Targets /\ held[s] \in Seq(Tagged)
    BY <1>2 DEF Segments, TypeOK
  <2>2. Owners(held[s]) \in Seq(Initiators)
    BY <2>1, OwnersType
  <2>3. InFlight(i, s) = Occurrences(Owners(held[s]), i) /\ InFlight(i, s) \in Nat
    BY <1>2, <2>2, OccurrencesType DEF InFlight
  <2>4. CASE Arriving(i, s) = <<>>
    <3>1. Len(Arriving(i, s)) = 0
      BY <2>4
    <3> QED BY <2>3, <3>1
  <2>5. CASE Arriving(i, s) # <<>>
    <3>1. /\ held[s] # <<>> /\ Head(held[s]).ini = i
          /\ Arriving(i, s) = <<Head(held[s]).aid>>
      BY <1>2, <2>5 DEF Arriving
    <3>2. /\ Owners(held[s]) # <<>> /\ Head(Owners(held[s])) = i
          /\ Tail(Owners(held[s])) \in Seq(Initiators)
      BY <2>1, <2>2, <3>1, OwnersTail
    <3>3. /\ Occurrences(Owners(held[s]), i) = Occurrences(Tail(Owners(held[s])), i) + 1
          /\ Occurrences(Tail(Owners(held[s])), i) \in Nat
      BY <2>2, <3>2, OccurrencesTail, OccurrencesType
    <3>4. Len(Arriving(i, s)) = 1
      BY <3>1
    <3> QED BY <2>3, <3>3, <3>4
  <2> QED BY <2>4, <2>5
<1> QED BY <1>1, <1>2

\* One clock moves exactly the arriving id out of a segment, and exactly the
\* granted request into it.
LEMMA FlightStep ==
    ASSUME TypeOK, RspQueuesHaveRoom, TargetInv, Clock,
           NEW i \in Initiators, NEW s \in Segments
    PROVE  InFlight(i, s)' = InFlight(i, s) - Len(Arriving(i, s))
                             + (IF Granted(i) /\ req[i].seg = s THEN 1 ELSE 0)
<1>1. CASE s = Dummy
  <2>1. dumRsp[i] \in {<<>>} \cup {<<a>> : a \in Aids} /\ dumGnt[i]
    BY DEF TypeOK, RspQueuesHaveRoom
  <2>2. Len(dumRsp[i]) \in Nat
    BY <2>1
  <2>3. InFlight(i, s) = Len(dumRsp[i]) /\ Arriving(i, s) = dumRsp[i]
    BY <1>1 DEF InFlight, Arriving
  <2>4. dumRsp'[i] = IF Granted(i) /\ req[i].seg = s THEN <<req[i].aid>> ELSE <<>>
    BY <1>1, <2>1 DEF Clock, DemuxClock, When, Contenders, Granted
  <2>5. InFlight(i, s)' = IF Granted(i) /\ req[i].seg = s THEN 1 ELSE 0
    BY <1>1, <2>4 DEF InFlight
  <2> QED BY <2>2, <2>3, <2>5
<1>2. CASE s # Dummy
  <2> DEFINE q == held[s]
             p == Popped(q, rvalid[s])
  <2>1. s \in Targets /\ q \in Seq(Tagged) /\ (rvalid[s] => q # <<>>)
    BY <1>2 DEF Segments, TypeOK, TargetInv
  <2>2. held'[s] = p \o Forwarded(s)
    BY <2>1 DEF Clock, TargetClock
  <2>3. /\ InFlight(i, s) = Occurrences(Owners(q), i)
        /\ InFlight(i, s)' = Occurrences(Owners(held'[s]), i)
    BY <1>2 DEF InFlight
  <2>4. Owners(q) \in Seq(Initiators)
    BY <2>1, OwnersType
  <2>5. InFlight(i, s) \in Nat
    BY <2>3, <2>4, OccurrencesType
  <2>6. /\ p \in Seq(Tagged)
        /\ Occurrences(Owners(p), i) \in Nat
        /\ Occurrences(Owners(q), i) = Occurrences(Owners(p), i) + Len(Arriving(i, s))
    <3>1. CASE rvalid[s]
      <4>1. p = Tail(q) /\ p \in Seq(Tagged)
        BY <2>1, <3>1 DEF Popped
      <4>2. /\ Owners(q) # <<>>
            /\ Head(Owners(q)) = Head(q).ini
            /\ Owners(p) = Tail(Owners(q))
        BY <2>1, <3>1, <4>1, OwnersTail
      <4>3. Occurrences(Owners(q), i) = Occurrences(Owners(p), i)
                + (IF Head(q).ini = i THEN 1 ELSE 0)
        BY <2>4, <4>2, OccurrencesTail
      <4>4. Len(Arriving(i, s)) = IF Head(q).ini = i THEN 1 ELSE 0
        BY <1>2, <2>1, <3>1 DEF Arriving
      <4>5. Occurrences(Owners(p), i) \in Nat
        BY <4>1, OwnersType, OccurrencesType
      <4> HIDE DEF p, q
      <4> QED BY <4>1, <4>3, <4>4, <4>5
    <3>2. CASE ~ rvalid[s]
      <4>1. p = q
        BY <3>2 DEF Popped
      <4>2. Arriving(i, s) = <<>>
        BY <1>2, <3>2 DEF Arriving
      <4>3. Len(Arriving(i, s)) = 0
        BY <4>2
      <4> HIDE DEF p, q
      <4> QED BY <2>1, <2>3, <2>5, <4>1, <4>3
    <3> QED BY <3>1, <3>2
  <2>7. Occurrences(Owners(held'[s]), i) = Occurrences(Owners(p), i)
            + (IF Granted(i) /\ req[i].seg = s THEN 1 ELSE 0)
    <3>1. CASE /\ Forwarded(s) = <<>>
               /\ \A j \in Initiators : ~(Granted(j) /\ req[j].seg = s)
      <4>1. held'[s] = p
        BY <2>2, <2>6, <3>1
      <4> HIDE DEF p
      <4> QED BY <2>6, <3>1, <4>1
    <3>2. CASE \E j \in Initiators :
                 /\ Granted(j) /\ req[j].seg = s
                 /\ req[j] \in Requests
                 /\ Forwarded(s) = <<[ini |-> j, aid |-> req[j].aid]>>
      <4>1. PICK j \in Initiators :
                 /\ Granted(j) /\ req[j].seg = s
                 /\ req[j] \in Requests
                 /\ Forwarded(s) = <<[ini |-> j, aid |-> req[j].aid]>>
        BY <3>2
      <4> DEFINE r == [ini |-> j, aid |-> req[j].aid]
      <4>2. r \in Tagged /\ r.ini = j
        BY <4>1 DEF Requests, Tagged
      <4>3. (Granted(i) /\ req[i].seg = s) <=> i = j
        <5>1. ASSUME Granted(i), req[i].seg = s
              PROVE  i = j
          <6>1. Forwarded(s) = <<[ini |-> i, aid |-> req[i].aid]>>
            BY <2>1, <5>1, GrantForwards
          <6>2. <<[ini |-> i, aid |-> req[i].aid]>>[1] = <<[ini |-> j, aid |-> req[j].aid]>>[1]
            BY <4>1, <6>1
          <6>3. [ini |-> i, aid |-> req[i].aid].ini = [ini |-> j, aid |-> req[j].aid].ini
            BY <6>2
          <6> QED BY <6>3
        <5> QED BY <4>1, <5>1
      <4>4. held'[s] = p \o <<r>>
        BY <2>2, <4>1
      <4> HIDE DEF p, r
      <4>5. Owners(held'[s]) = Owners(p) \o <<j>> /\ Owners(p) \in Seq(Initiators)
        BY <2>6, <4>2, <4>4, OwnersAppend, OwnersType
      <4>6. Occurrences(Owners(held'[s]), i) = Occurrences(Owners(p), i)
                + (IF j = i THEN 1 ELSE 0)
        BY <4>5, OccurrencesAppend
      <4> QED BY <4>3, <4>6
    <3> QED BY <2>1, <3>1, <3>2, ForwardedCases
  <2>8. Len(Arriving(i, s)) \in Nat
    BY ArrivalFits
  <2> HIDE DEF p, q
  <2> QED BY <2>3, <2>5, <2>6, <2>7, <2>8
<1> QED BY <1>1, <1>2

\* The demultiplexers' assertions follow from the invariant.
LEMMA AssertsHold ==
    ASSUME MaxOut <= Depth, IInv
    PROVE  DemuxAsserts
<1> SUFFICES ASSUME NEW i \in Initiators
             PROVE  /\ Granted(i) => Len(pend[i]) < Depth
                    /\ pend[i] = <<>> => \A s \in Segments : Visible(i, s) = <<>>
  BY DEF DemuxAsserts
<1>1. pend[i] \in Seq(Segments) /\ MaxOut \in Nat /\ Depth \in Nat
  BY XbarAssumption DEF IInv, TypeOK
<1>2. ASSUME Granted(i)
      PROVE  Len(pend[i]) < Depth
  <2>1. req[i] # None
    BY <1>2 DEF Granted
  <2>2. Len(owed[i]) <= MaxOut /\ Len(owed[i]) = Len(pend[i]) + 1
    BY <2>1 DEF IInv, CoreInv
  <2>3. Len(pend[i]) \in Nat
    BY <1>1
  <2> QED BY <1>1, <2>2, <2>3
<1>3. ASSUME pend[i] = <<>>, NEW s \in Segments
      PROVE  Visible(i, s) = <<>>
  <2>1. Occurrences(pend[i], s) = 0
    BY <1>3, OccurrencesEmpty
  <2>2. InFlight(i, s) \in Nat /\ Len(Arriving(i, s)) <= InFlight(i, s)
    BY ArrivalWasInFlight DEF IInv
  <2>3. Occurrences(pend[i], s) = Len(rspq[i][s]) + InFlight(i, s)
    BY DEF IInv, Conservation
  <2>4. /\ Visible(i, s) \in Seq(Aids) /\ rspq[i][s] \in Seq(Aids)
        /\ Arriving(i, s) \in {<<>>} \cup {<<a>> : a \in Aids}
        /\ Len(Visible(i, s)) = Len(rspq[i][s]) + Len(Arriving(i, s))
    BY ArrivalFits DEF IInv
  <2>5. Len(Arriving(i, s)) \in Nat
    BY <2>4
  <2>6. Len(Visible(i, s)) = 0
    BY <2>1, <2>2, <2>3, <2>4, <2>5
  <2> QED BY <2>4, <2>6
<1> QED BY <1>2, <1>3

\* One clock of a pending FIFO: the answered request leaves, the granted one
\* enters.
LEMMA PendStep ==
    ASSUME IInv, DemuxAsserts, Clock, NEW i \in Initiators
    PROVE  /\ pend'[i] \in Seq(Segments)
           /\ Len(pend'[i]) = Len(pend[i]) - (IF Responding(i) THEN 1 ELSE 0)
                                          + (IF Granted(i) THEN 1 ELSE 0)
           /\ \A s \in Segments : Occurrences(pend'[i], s) = Occurrences(pend[i], s)
                 - (IF Responding(i) /\ s = Head(pend[i]) THEN 1 ELSE 0)
                 + (IF Granted(i) /\ req[i].seg = s THEN 1 ELSE 0)
           /\ ~Granted(i) /\ ~Responding(i) => pend'[i] = pend[i]
<1> DEFINE p == Popped(pend[i], Responding(i))
<1>1. pend[i] \in Seq(Segments)
  BY DEF IInv, TypeOK
<1>2. Responding(i) => pend[i] # <<>>
  BY DEF Responding
<1>3. pend'[i] = p \o When(Granted(i), req[i].seg)
  <2>1. Granted(i) => Len(pend[i]) < Depth
    BY DEF DemuxAsserts
  <2>2. p \o When(FALSE, req[i].seg) = p \o <<>>
    BY DEF When
  <2> QED BY <2>1, <2>2 DEF Clock, DemuxClock, AfterClock, When
<1>4. /\ p \in Seq(Segments)
      /\ Len(p) = Len(pend[i]) - (IF Responding(i) THEN 1 ELSE 0)
      /\ ~Responding(i) => p = pend[i]
  <2>1. CASE Responding(i)
    <3>1. p = Tail(pend[i]) /\ pend[i] # <<>>
      BY <1>2, <2>1 DEF Popped
    <3>2. Tail(pend[i]) \in Seq(Segments) /\ Len(Tail(pend[i])) = Len(pend[i]) - 1
      BY <1>1, <3>1
    <3> QED BY <2>1, <3>1, <3>2
  <2>2. CASE ~Responding(i)
    <3>1. p = pend[i] /\ Len(pend[i]) \in Nat
      BY <1>1, <2>2 DEF Popped
    <3> QED BY <1>1, <2>2, <3>1
  <2> QED BY <2>1, <2>2
<1>5. ASSUME NEW s \in Segments
      PROVE  /\ Occurrences(p, s) = Occurrences(pend[i], s)
                     - (IF Responding(i) /\ s = Head(pend[i]) THEN 1 ELSE 0)
             /\ Occurrences(p, s) \in Nat
  <2>1. Occurrences(p, s) \in Nat /\ Occurrences(pend[i], s) \in Nat
    BY <1>1, <1>4, OccurrencesType
  <2>2. CASE Responding(i)
    <3>1. p = Tail(pend[i])
      BY <1>2, <2>2 DEF Popped
    <3>2. Occurrences(pend[i], s) = Occurrences(p, s) + (IF Head(pend[i]) = s THEN 1 ELSE 0)
      BY <1>1, <1>2, <2>2, <3>1, OccurrencesTail
    <3> HIDE DEF p
    <3> QED BY <2>1, <2>2, <3>2
  <2>3. CASE ~Responding(i)
    <3> HIDE DEF p
    <3> QED BY <1>4, <2>1, <2>3
  <2> QED BY <2>2, <2>3
<1> HIDE DEF p
<1>6. CASE Granted(i)
  <2>1. req[i] \in Requests /\ req[i].seg \in Segments
    BY <1>6 DEF Granted, IInv, TypeOK, Requests
  <2>2. pend'[i] = p \o <<req[i].seg>>
    BY <1>3, <1>6 DEF When
  <2>3. pend'[i] \in Seq(Segments) /\ Len(pend'[i]) = Len(p) + 1
    BY <1>4, <2>1, <2>2
  <2>4. \A s \in Segments : Occurrences(pend'[i], s)
                = Occurrences(p, s) + (IF req[i].seg = s THEN 1 ELSE 0)
    BY <1>4, <2>1, <2>2, OccurrencesAppend
  <2> QED BY <1>4, <1>5, <1>6, <2>3, <2>4
<1>7. CASE ~Granted(i)
  <2>1. pend'[i] = p
    BY <1>3, <1>4, <1>7 DEF When
  <2> QED BY <1>1, <1>4, <1>5, <1>7, <2>1
<1> QED BY <1>6, <1>7

\* One clock of a response queue: what arrives enters, what is answered leaves.
LEMMA QueueStep ==
    ASSUME IInv, Clock, NEW i \in Initiators, NEW s \in Segments
    PROVE  /\ rspq'[i][s] \in Seq(Aids)
           /\ Len(rspq'[i][s]) = Len(rspq[i][s]) + Len(Arriving(i, s))
                 - (IF Responding(i) /\ s = Head(pend[i]) THEN 1 ELSE 0)
           /\ ~(Responding(i) /\ s = Head(pend[i])) => rspq'[i][s] = Visible(i, s)
<1>1. rspq'[i][s] = Popped(Visible(i, s), Responding(i) /\ s = Head(pend[i]))
  BY DEF Clock, DemuxClock, QueueAfter
<1>2. /\ Visible(i, s) \in Seq(Aids)
      /\ Len(Visible(i, s)) = Len(rspq[i][s]) + Len(Arriving(i, s))
  BY ArrivalFits DEF IInv
<1>3. Responding(i) /\ s = Head(pend[i]) => Visible(i, s) # <<>>
  BY DEF Responding
<1>4. CASE Responding(i) /\ s = Head(pend[i])
  <2>1. rspq'[i][s] = Tail(Visible(i, s))
    BY <1>1, <1>3, <1>4 DEF Popped
  <2>2. Visible(i, s) # <<>>
    BY <1>3, <1>4
  <2>3. /\ Tail(Visible(i, s)) \in Seq(Aids)
        /\ Len(Tail(Visible(i, s))) = Len(Visible(i, s)) - 1
    BY <1>2, <2>2
  <2>4. Len(rspq'[i][s]) = Len(rspq[i][s]) + Len(Arriving(i, s)) - 1
    BY <1>2, <2>1, <2>3
  <2> QED BY <1>4, <2>1, <2>3, <2>4
<1>5. CASE ~(Responding(i) /\ s = Head(pend[i]))
  <2>1. rspq'[i][s] = Visible(i, s)
    BY <1>1, <1>5 DEF Popped
  <2>2. Len(Visible(i, s)) \in Nat
    BY <1>2
  <2> QED BY <1>2, <1>5, <2>1, <2>2
<1> QED BY <1>4, <1>5

\* One clock of a core's list of unanswered requests.
LEMMA OwedStep ==
    ASSUME IInv, Clock, NEW i \in Initiators
    PROVE  /\ owed'[i] \in Seq(Requests)
           /\ Len(owed'[i]) = Len(owed[i]) - (IF Responding(i) THEN 1 ELSE 0)
                 + (IF (req[i] = None \/ Granted(i)) /\ req'[i] # None THEN 1 ELSE 0)
           /\ Len(owed'[i]) <= MaxOut
<1> DEFINE left == Popped(owed[i], Responding(i))
           new == (req[i] = None \/ Granted(i)) /\ req'[i] # None
<1>1. owed[i] \in Seq(Requests) /\ Len(owed[i]) \in Nat /\ Len(owed[i]) <= MaxOut
  BY DEF IInv, TypeOK, CoreInv
<1>2. pend[i] \in Seq(Segments) /\ Len(pend[i]) \in Nat
  BY DEF IInv, TypeOK
<1>3. Responding(i) => owed[i] # <<>>
  <2>1. ASSUME Responding(i), owed[i] = <<>>
        PROVE  FALSE
    <3>1. pend[i] # <<>> /\ Len(owed[i]) = 0
      BY <2>1 DEF Responding
    <3>2. Len(pend[i]) > 0
      BY <1>2, <3>1
    <3>3. Len(owed[i]) = Len(pend[i]) + 0 \/ Len(owed[i]) = Len(pend[i]) + 1
      BY DEF IInv, CoreInv
    <3> QED BY <1>2, <3>1, <3>2, <3>3
  <2> QED BY <2>1
<1>4. /\ left \in Seq(Requests)
      /\ Len(left) = Len(owed[i]) - (IF Responding(i) THEN 1 ELSE 0)
      /\ Len(left) <= MaxOut
  <2>1. CASE Responding(i)
    <3>1. left = Tail(owed[i])
      BY <1>3, <2>1 DEF Popped
    <3>2. Tail(owed[i]) \in Seq(Requests) /\ Len(Tail(owed[i])) = Len(owed[i]) - 1
      BY <1>1, <1>3, <2>1
    <3>3. MaxOut \in Nat
      BY XbarAssumption
    <3>4. Len(owed[i]) - 1 <= MaxOut
      BY <1>1, <3>3
    <3> HIDE DEF left
    <3> QED BY <2>1, <3>1, <3>2, <3>4
  <2>2. CASE ~Responding(i)
    <3>1. left = owed[i]
      BY <2>2 DEF Popped
    <3> QED BY <1>1, <2>2, <3>1
  <2> QED BY <2>1, <2>2
<1>5. owed'[i] = left \o When(new, req'[i])
  BY DEF Clock, CoreClock
<1>6. new => Len(left) < MaxOut
  <2>1. IF req[i] = None \/ Granted(i)
        THEN req'[i] # None => Len(left) < MaxOut
        ELSE req'[i] = req[i]
    BY Zenon DEF Clock, CoreClock
  <2> QED BY <2>1
<1>7. new => req'[i] \in Requests
  BY DEF Clock, CoreClock
<1> HIDE DEF left
<1>8. CASE new
  <2>1. owed'[i] = left \o <<req'[i]>>
    BY <1>5, <1>8 DEF When
  <2>2. owed'[i] \in Seq(Requests) /\ Len(owed'[i]) = Len(left) + 1
    BY <1>4, <1>7, <1>8, <2>1
  <2>3. Len(left) \in Nat /\ MaxOut \in Nat
    BY <1>4, XbarAssumption
  <2>4. Len(owed'[i]) <= MaxOut
    BY <1>6, <1>8, <2>2, <2>3
  <2> QED BY <1>4, <1>8, <2>2, <2>4
<1>9. CASE ~new
  <2>1. owed'[i] = left
    BY <1>4, <1>5, <1>9 DEF When
  <2>2. Len(left) \in Nat
    BY <1>4
  <2>3. Len(owed'[i]) = Len(owed[i]) - (IF Responding(i) THEN 1 ELSE 0) + 0
    BY <1>1, <1>4, <2>1
  <2> QED BY <1>4, <1>9, <2>1, <2>3
<1> QED BY <1>8, <1>9

\* Every variable keeps its type.
LEMMA TypeStep ==
    ASSUME IInv, DemuxAsserts, Clock
    PROVE  TypeOK'
<1>1. req' \in [Initiators -> Requests \cup {None}]
  BY DEF Clock, CoreClock
<1>2. owed' \in [Initiators -> Seq(Requests)]
  <2>1. owed' = [i \in Initiators |-> owed'[i]]
    BY Zenon DEF Clock, CoreClock
  <2>2. \A i \in Initiators : owed'[i] \in Seq(Requests)
    BY OwedStep
  <2> QED BY <2>1, <2>2
<1>3. rsp' \in [Initiators -> Requests \cup {None}]
  <2>1. ASSUME NEW i \in Initiators
        PROVE  Response(i) \in Requests \cup {None}
    <3>1. CASE Responding(i)
      <4>1. pend[i] \in Seq(Segments) /\ pend[i] # <<>>
        BY <3>1 DEF IInv, TypeOK, Responding
      <4>2. Head(pend[i]) \in Segments
        BY <4>1
      <4>3. /\ Visible(i, Head(pend[i])) \in Seq(Aids)
            /\ Visible(i, Head(pend[i])) # <<>>
        BY <3>1, <4>2, ArrivalFits DEF IInv, Responding
      <4>4. Head(Visible(i, Head(pend[i]))) \in Aids
        BY <4>3
      <4> QED BY <3>1, <4>2, <4>4 DEF Response, Requests
    <3> QED BY <3>1 DEF Response
  <2> QED BY <2>1 DEF Clock, CoreClock
<1>4. pend' \in [Initiators -> Seq(Segments)]
  <2>1. pend' = [i \in Initiators |-> pend'[i]]
    BY DEF Clock, DemuxClock
  <2> QED BY <2>1, PendStep
<1>5. rspq' \in [Initiators -> [Segments -> Seq(Aids)]]
  <2>1. rspq' = [i \in Initiators |-> [s \in Segments |-> rspq'[i][s]]]
    BY DEF Clock, DemuxClock
  <2>2. \A i \in Initiators, s \in Segments : rspq'[i][s] \in Seq(Aids)
    BY QueueStep
  <2> QED BY <2>1, <2>2
<1>6. dumGnt' \in [Initiators -> BOOLEAN]
  BY DEF Clock, DemuxClock
<1>7. dumRsp' \in [Initiators -> {<<>>} \cup {<<a>> : a \in Aids}]
  <2>1. ASSUME NEW i \in Initiators
        PROVE  When(i \in Contenders(Dummy), req[i].aid) \in {<<>>} \cup {<<a>> : a \in Aids}
    <3>1. i \in Contenders(Dummy) => req[i] \in Requests
      BY DEF Contenders, IInv, TypeOK
    <3>2. i \in Contenders(Dummy) => req[i].aid \in Aids
      BY <3>1 DEF Requests
    <3> QED BY <3>2 DEF When
  <2> QED BY <2>1 DEF Clock, DemuxClock
<1>8. held' \in [Targets -> Seq(Tagged)]
  <2>1. ASSUME NEW t \in Targets
        PROVE  Popped(held[t], rvalid[t]) \o Forwarded(t) \in Seq(Tagged)
    <3>1. held[t] \in Seq(Tagged)
      BY DEF IInv, TypeOK
    <3>2. Popped(held[t], rvalid[t]) \in Seq(Tagged)
      BY <3>1 DEF Popped
    <3>3. Forwarded(t) \in Seq(Tagged)
      <4>1. CASE Forwarded(t) = <<>>
        BY <4>1
      <4>2. CASE \E i \in Initiators :
                    /\ req[i] \in Requests
                    /\ Forwarded(t) = <<[ini |-> i, aid |-> req[i].aid]>>
        <5>1. PICK i \in Initiators :
                    /\ req[i] \in Requests
                    /\ Forwarded(t) = <<[ini |-> i, aid |-> req[i].aid]>>
          BY <4>2
        <5>2. [ini |-> i, aid |-> req[i].aid] \in Tagged
          BY <5>1 DEF Requests, Tagged
        <5> DEFINE r == [ini |-> i, aid |-> req[i].aid]
        <5> HIDE DEF r
        <5>3. r \in Tagged /\ Forwarded(t) = <<r>>
          BY <5>1, <5>2 DEF r
        <5> QED BY <5>3
      <4> QED BY <4>1, <4>2, ForwardedCases DEF IInv
    <3> QED BY <3>2, <3>3
  <2> QED BY <2>1 DEF Clock, TargetClock
<1>9. gnt' \in [Targets -> BOOLEAN] /\ rvalid' \in [Targets -> BOOLEAN]
  BY DEF Clock, TargetClock
<1> QED BY <1>1, <1>2, <1>3, <1>4, <1>5, <1>6, <1>7, <1>8, <1>9 DEF TypeOK

\* The cores' lists and the pending FIFOs move together.
LEMMA CoreStep ==
    ASSUME IInv, DemuxAsserts, Clock
    PROVE  CoreInv'
<1> SUFFICES ASSUME NEW i \in Initiators
             PROVE  /\ Len(owed'[i]) <= MaxOut
                    /\ req'[i] = None => Len(owed'[i]) = Len(pend'[i])
                    /\ req'[i] # None => Len(owed'[i]) = Len(pend'[i]) + 1
  BY DEF CoreInv
<1>1. /\ Len(owed[i]) \in Nat /\ Len(pend[i]) \in Nat
  BY DEF IInv, TypeOK
<1> DEFINE answered == IF Responding(i) THEN 1 ELSE 0
           granted == IF Granted(i) THEN 1 ELSE 0
           raised == IF (req[i] = None \/ Granted(i)) /\ req'[i] # None THEN 1 ELSE 0
<1>2. /\ Len(owed'[i]) <= MaxOut
      /\ Len(owed'[i]) = Len(owed[i]) - answered + raised
  BY OwedStep
<1>3. Len(pend'[i]) = Len(pend[i]) - answered + granted
  BY PendStep
<1>4. Granted(i) => req[i] # None
  BY DEF Granted
<1>5. /\ req[i] = None => Len(owed[i]) = Len(pend[i])
      /\ req[i] # None => Len(owed[i]) = Len(pend[i]) + 1
  BY <1>1 DEF IInv, CoreInv
<1>6. req[i] # None /\ ~Granted(i) => req'[i] = req[i]
  <2>1. IF req[i] = None \/ Granted(i)
        THEN req'[i] # None => Len(Popped(owed[i], Responding(i))) < MaxOut
        ELSE req'[i] = req[i]
    BY Zenon DEF Clock, CoreClock
  <2> QED BY <2>1
<1>7. answered \in Nat
  OBVIOUS
<1>8. /\ granted = IF Granted(i) THEN 1 ELSE 0
      /\ raised = IF (req[i] = None \/ Granted(i)) /\ req'[i] # None THEN 1 ELSE 0
  OBVIOUS
<1> HIDE DEF answered, granted, raised
<1>9. CASE req[i] = None
  <2>1. Len(owed[i]) = Len(pend[i]) /\ granted = 0
    BY <1>4, <1>5, <1>8, <1>9
  <2>2. /\ req'[i] = None => raised = 0
        /\ req'[i] # None => raised = 1
    BY <1>8, <1>9
  <2> QED BY <1>1, <1>2, <1>3, <1>7, <2>1, <2>2
<1>10. CASE req[i] # None /\ Granted(i)
  <2>1. Len(owed[i]) = Len(pend[i]) + 1 /\ granted = 1
    BY <1>5, <1>8, <1>10
  <2>2. /\ req'[i] = None => raised = 0
        /\ req'[i] # None => raised = 1
    BY <1>8, <1>10
  <2> QED BY <1>1, <1>2, <1>3, <1>7, <2>1, <2>2
<1>11. CASE req[i] # None /\ ~Granted(i)
  <2>1. Len(owed[i]) = Len(pend[i]) + 1 /\ granted = 0 /\ raised = 0 /\ req'[i] # None
    BY <1>5, <1>6, <1>8, <1>11
  <2> QED BY <1>1, <1>2, <1>3, <1>7, <2>1
<1> QED BY <1>9, <1>10, <1>11

\* What is pending, queued and in flight stays in balance.
LEMMA ConservationStep ==
    ASSUME IInv, DemuxAsserts, Clock
    PROVE  Conservation'
<1> SUFFICES ASSUME NEW i \in Initiators, NEW s \in Segments
             PROVE  Occurrences(pend'[i], s) = Len(rspq'[i][s]) + InFlight(i, s)'
  BY DEF Conservation
<1> DEFINE popped == IF Responding(i) /\ s = Head(pend[i]) THEN 1 ELSE 0
           taken == IF Granted(i) /\ req[i].seg = s THEN 1 ELSE 0
<1>1. Occurrences(pend'[i], s) = Occurrences(pend[i], s) - popped + taken
  BY PendStep
<1>2. Len(rspq'[i][s]) = Len(rspq[i][s]) + Len(Arriving(i, s)) - popped
  BY QueueStep
<1>3. /\ InFlight(i, s) \in Nat
      /\ InFlight(i, s)' = InFlight(i, s) - Len(Arriving(i, s)) + taken
  BY FlightStep, ArrivalWasInFlight DEF IInv
<1>4. Occurrences(pend[i], s) = Len(rspq[i][s]) + InFlight(i, s)
  BY DEF IInv, Conservation
<1>5. /\ rspq[i][s] \in Seq(Aids)
      /\ Arriving(i, s) \in {<<>>} \cup {<<a>> : a \in Aids}
  BY ArrivalFits DEF IInv
<1>6. Len(rspq[i][s]) \in Nat /\ Len(Arriving(i, s)) \in Nat
  BY <1>5
<1>7. popped \in Nat /\ taken \in Nat
  OBVIOUS
<1> HIDE DEF popped, taken
<1> QED BY <1>1, <1>2, <1>3, <1>4, <1>6, <1>7

\* A response queue with Depth entries would hold an answer to every request
\* the core may have outstanding; but then one of them was just granted, and
\* is in flight, or the queue was being answered from.
LEMMA RoomStep ==
    ASSUME MaxOut <= Depth, IInv, DemuxAsserts, Clock, TypeOK', CoreInv', Conservation'
    PROVE  RspQueuesHaveRoom'
<1> SUFFICES ASSUME NEW i \in Initiators
             PROVE  /\ dumGnt'[i]
                    /\ \A s \in Segments : Len(rspq'[i][s]) < Depth
  BY DEF RspQueuesHaveRoom
<1>1. dumGnt'[i]
  <2>1. Len(rspq[i][Dummy]) < Depth
    BY DEF IInv, RspQueuesHaveRoom, Segments
  <2> QED BY <2>1 DEF Clock, DemuxClock
<1>2. ASSUME NEW s \in Segments, ~(Len(rspq'[i][s]) < Depth)
      PROVE  FALSE
  <2>1. MaxOut \in Nat /\ Depth \in Nat /\ Depth > 0
    BY XbarAssumption
  <2>2. /\ pend[i] \in Seq(Segments) /\ Len(pend[i]) \in Nat
        /\ pend'[i] \in Seq(Segments) /\ Len(pend'[i]) \in Nat
        /\ rspq'[i][s] \in Seq(Aids) /\ Len(rspq'[i][s]) \in Nat
    BY DEF IInv, TypeOK
  <2>3. Len(pend[i]) <= Depth /\ Len(pend'[i]) <= Depth
    <3>1. /\ Len(owed[i]) \in Nat /\ Len(owed[i]) <= MaxOut
          /\ Len(owed[i]) = Len(pend[i]) + 0 \/ Len(owed[i]) = Len(pend[i]) + 1
      BY DEF IInv, TypeOK, CoreInv
    <3>2. /\ Len(owed'[i]) \in Nat /\ Len(owed'[i]) <= MaxOut
          /\ Len(owed'[i]) = Len(pend'[i]) + 0 \/ Len(owed'[i]) = Len(pend'[i]) + 1
      BY DEF TypeOK, CoreInv
    <3> QED BY <2>1, <2>2, <3>1, <3>2
  <2>4. /\ InFlight(i, s) \in Nat
        /\ Len(Arriving(i, s)) <= InFlight(i, s)
        /\ InFlight(i, s)' = InFlight(i, s) - Len(Arriving(i, s))
               + (IF Granted(i) /\ req[i].seg = s THEN 1 ELSE 0)
    BY FlightStep, ArrivalWasInFlight DEF IInv
  <2>5. Len(Arriving(i, s)) \in Nat
    <3>1. Arriving(i, s) \in {<<>>} \cup {<<a>> : a \in Aids}
      BY ArrivalFits DEF IInv
    <3> QED BY <3>1
  <2>6. Occurrences(pend'[i], s) = Len(rspq'[i][s]) + InFlight(i, s)'
    BY DEF Conservation
  <2>7. /\ Occurrences(pend'[i], s) \in Nat /\ Occurrences(pend'[i], s) <= Len(pend'[i])
        /\ Occurrences(pend[i], s) \in Nat /\ Occurrences(pend[i], s) <= Len(pend[i])
    BY <2>2, OccurrencesType
  <2>8. /\ Occurrences(pend'[i], s) = Depth /\ Len(pend'[i]) = Depth
        /\ Len(rspq'[i][s]) = Depth
        /\ ~(Granted(i) /\ req[i].seg = s)
    <3>1. Len(rspq'[i][s]) >= Depth
      BY <1>2, <2>1, <2>2
    <3>2. CASE Granted(i) /\ req[i].seg = s
      <4>1. InFlight(i, s)' = InFlight(i, s) - Len(Arriving(i, s)) + 1
        BY <2>4, <3>2
      <4> QED BY <2>1, <2>2, <2>3, <2>4, <2>5, <2>6, <2>7, <3>1, <4>1
    <3>3. CASE ~(Granted(i) /\ req[i].seg = s)
      <4>1. InFlight(i, s)' = InFlight(i, s) - Len(Arriving(i, s)) + 0
        BY <2>4, <3>3
      <4> QED BY <2>1, <2>2, <2>3, <2>4, <2>5, <2>6, <2>7, <3>1, <3>3, <4>1
    <3> QED BY <3>2, <3>3
  <2>9. /\ Len(pend'[i]) = Len(pend[i]) - (IF Responding(i) THEN 1 ELSE 0)
                                        + (IF Granted(i) THEN 1 ELSE 0)
        /\ Occurrences(pend'[i], s) = Occurrences(pend[i], s)
               - (IF Responding(i) /\ s = Head(pend[i]) THEN 1 ELSE 0)
               + (IF Granted(i) /\ req[i].seg = s THEN 1 ELSE 0)
        /\ ~Granted(i) /\ ~Responding(i) => pend'[i] = pend[i]
    BY PendStep
  <2>10. CASE Responding(i)
    <3>1. pend[i] # <<>> /\ Head(pend[i]) = pend[i][1] /\ 1 \in 1 .. Len(pend[i])
      BY <2>2, <2>10 DEF Responding
    <3>2. Granted(i)
      BY <2>2, <2>3, <2>8, <2>9, <2>10
    <3>3. Head(pend[i]) # s /\ Occurrences(pend[i], s) = Len(pend[i])
      BY <2>2, <2>7, <2>8, <2>9, <2>10, <3>2
    <3> QED BY <2>2, <3>1, <3>3, OccurrencesAll
  <2>11. CASE ~Responding(i) /\ Granted(i)
    BY <2>2, <2>7, <2>8, <2>9, <2>11
  <2>12. CASE ~Responding(i) /\ ~Granted(i)
    <3>1. pend'[i] = pend[i] /\ Occurrences(pend[i], s) = Len(pend[i]) /\ Len(pend[i]) = Depth
      BY <2>8, <2>9, <2>12
    <3>2. pend[i] # <<>> /\ Head(pend[i]) = pend[i][1] /\ 1 \in 1 .. Len(pend[i])
      BY <2>1, <2>2, <3>1
    <3>3. Head(pend[i]) = s
      BY <2>2, <3>1, <3>2, OccurrencesAll
    <3>4. Visible(i, s) = <<>>
      BY <2>12, <3>2, <3>3 DEF Responding
    <3>5. rspq'[i][s] = <<>>
      BY <2>12, <3>4, QueueStep
    <3>6. Len(rspq'[i][s]) = 0
      BY <3>5
    <3> QED BY <2>1, <2>8, <3>6
  <2> QED BY <2>10, <2>11, <2>12
<1> QED BY <1>1, <1>2

\* The power-up state satisfies the invariant.
LEMMA InitIInv ==
    ASSUME Init
    PROVE  IInv
<1>1. TypeOK
  <2>1. <<>> \in Seq(Requests) /\ <<>> \in Seq(Segments) /\ <<>> \in Seq(Aids) /\ <<>> \in Seq(Tagged)
    OBVIOUS
  <2> QED BY <2>1 DEF Init, TypeOK
<1>2. CoreInv
  <2>1. Len(<<>>) = 0 /\ MaxOut \in Nat
    BY XbarAssumption
  <2> QED BY <2>1 DEF Init, CoreInv
<1>3. TargetInv
  BY DEF Init, TargetInv
<1>4. Conservation
  <2> SUFFICES ASSUME NEW i \in Initiators, NEW s \in Segments
               PROVE  Occurrences(pend[i], s) = Len(rspq[i][s]) + InFlight(i, s)
    BY DEF Conservation
  <2>1. Occurrences(pend[i], s) = 0
    BY OccurrencesEmpty DEF Init
  <2>2. Len(rspq[i][s]) = 0
    BY DEF Init
  <2>3. InFlight(i, s) = 0
    <3>1. CASE s = Dummy
      BY <3>1 DEF Init, InFlight
    <3>2. CASE s # Dummy
      <4>1. held[s] = <<>>
        BY <3>2 DEF Init, Segments
      <4>2. Owners(<<>>) = <<>>
        BY DEF Owners
      <4> QED BY <3>2, <4>1, <4>2, OccurrencesEmpty DEF InFlight
    <3> QED BY <3>1, <3>2
  <2> QED BY <2>1, <2>2, <2>3
<1>5. RspQueuesHaveRoom
  <2>1. Len(<<>>) < Depth
    BY XbarAssumption
  <2> QED BY <2>1 DEF Init, RspQueuesHaveRoom
<1> QED BY <1>1, <1>2, <1>3, <1>4, <1>5 DEF IInv

\* Every step preserves the invariant.
LEMMA NextIInv ==
    ASSUME MaxOut <= Depth, IInv, [Next]_vars
    PROVE  IInv'
<1>1. CASE Clock
  <2>1. DemuxAsserts
    BY <1>1, AssertsHold
  <2>2. TypeOK'
    BY <1>1, <2>1, TypeStep
  <2>3. CoreInv'
    BY <1>1, <2>1, CoreStep
  <2>4. TargetInv'
    BY <1>1 DEF Clock, TargetClock, TargetInv, Targets
  <2>5. Conservation'
    BY <1>1, <2>1, ConservationStep
  <2>6. RspQueuesHaveRoom'
    BY <1>1, <2>1, <2>2, <2>3, <2>5, RoomStep
  <2> QED BY <2>2, <2>3, <2>4, <2>5, <2>6 DEF IInv
<1>2. CASE UNCHANGED vars
  BY <1>2 DEF vars, coreVars, demuxVars, targetVars, IInv, TypeOK, CoreInv, TargetInv,
              Conservation, InFlight, RspQueuesHaveRoom
<1> QED BY <1>1, <1>2 DEF Next

-------------------------------------------------------------------------------
\* The inductive invariant holds of every crossbar whose cores keep at most
\* Depth requests outstanding.
THEOREM XbarInvariant ==
    ASSUME MaxOut <= Depth
    PROVE  Spec => []IInv
<1>1. Init => IInv
  BY InitIInv
<1>2. IInv /\ [Next]_vars => IInv'
  BY NextIInv
<1> QED BY <1>1, <1>2, PTL DEF Spec

\* Every variable of the crossbar keeps its type.
THEOREM XbarTypeCorrect ==
    ASSUME MaxOut <= Depth
    PROVE  Spec => []TypeOK
<1>1. IInv => TypeOK
  BY DEF IInv
<1> QED BY <1>1, XbarInvariant, PTL

\* No granted request is lost or answered twice, whatever the targets, the
\* initiators, the grants and the latencies.
THEOREM XbarConserves ==
    ASSUME MaxOut <= Depth
    PROVE  Spec => []Conservation
<1>1. IInv => Conservation
  BY DEF IInv
<1> QED BY <1>1, XbarInvariant, PTL

\* The assertions in obi_demux never fail: no grant into a full pending FIFO,
\* no response while nothing is pending.
THEOREM XbarAsserts ==
    ASSUME MaxOut <= Depth
    PROVE  Spec => []DemuxAsserts
<1>1. IInv => DemuxAsserts
  BY AssertsHold
<1> QED BY <1>1, XbarInvariant, PTL

\* The response queues never fill: the assertion in obi_rsp_queue holds and the
\* dummy target is never asked while it withholds its grant.
THEOREM XbarQueuesHaveRoom ==
    ASSUME MaxOut <= Depth
    PROVE  Spec => []RspQueuesHaveRoom
<1>1. IInv => RspQueuesHaveRoom
  BY DEF IInv
<1> QED BY <1>1, XbarInvariant, PTL

-------------------------------------------------------------------------------
(* The crossbar is the port its cores rely on: the safety part of ObiPort.   *)

\* The segments of a queue of requests.
Segs(G) == [k \in 1 .. Len(G) |-> G[k].seg]

\* v holds the ids of initiator i that segment s has taken and not answered, in
\* the order it will answer them.
InOrder(i, s, v) ==
    IF s = Dummy THEN v = dumRsp[i] ELSE Lists(v, held[s], "ini", i)

\* G holds the granted requests of initiator i that have no answer, oldest first:
\* the core's list but for the request on its pins; the pending FIFO; and, for
\* each segment, what waits in its response queue and then what it still holds.
Backlog(i, G) ==
    /\ owed[i] = G \o When(req[i] # None, req[i])
    /\ pend[i] = Segs(G)
    /\ \A s \in Segments : \E v \in Seq(Aids) :
          InOrder(i, s, v) /\ Lists(rspq[i][s] \o v, G, "seg", s)

\* Everything that holds a request of a core agrees on its place in the order.
OrderInv == \A i \in Initiators : \E G \in Seq(Requests) : Backlog(i, G)

\* Requests and what a multiplexer makes of them have ids.
LEMMA RequestIds ==
    /\ \A e \in Requests : e.aid \in Aids /\ e.seg \in Segments
    /\ \A e \in Tagged : e.aid \in Aids /\ e.ini \in Initiators
BY DEF Requests, Tagged

-------------------------------------------------------------------------------
\* One clock in a segment: the id that arrives at the response queue is the first
\* of what the segment held, and a granted request goes last.
LEMMA FlightOrder ==
    ASSUME IInv, Clock, NEW i \in Initiators, NEW s \in Segments,
           NEW v \in Seq(Aids), InOrder(i, s, v),
           NEW come, come = (Arriving(i, s) # <<>>),
           NEW in, in = (Granted(i) /\ req[i].seg = s),
           NEW u, u = Clocked(v, come, in, req[i].aid)
    PROVE  /\ come => v # <<>>
           /\ Arriving(i, s) = When(come, Head(v))
           /\ u \in Seq(Aids)
           /\ IF s = Dummy THEN u = dumRsp'[i] ELSE Lists(u, held'[s], "ini", i)
<1>1. in => req[i] \in Requests /\ req[i].aid \in Aids
  BY RequestIds DEF Granted, IInv, TypeOK
<1>2. come \in BOOLEAN /\ in \in BOOLEAN
  OBVIOUS
<1>3. CASE s = Dummy
  <2>1. v = dumRsp[i] /\ Arriving(i, s) = v /\ v \in {<<>>} \cup {<<a>> : a \in Aids}
    BY <1>3 DEF InOrder, Arriving, IInv, TypeOK
  <2>2. /\ come => v # <<>>
        /\ Arriving(i, s) = When(come, Head(v))
        /\ Popped(v, come) = <<>>
    <3>1. CASE v = <<>>
      BY <2>1, <3>1 DEF When, Popped
    <3>2. CASE \E a \in Aids : v = <<a>>
      <4>1. PICK a \in Aids : v = <<a>>
        BY <3>2
      <4>2. v # <<>> /\ Head(v) = a /\ Tail(v) = <<>>
        BY <4>1
      <4>3. come = TRUE
        BY <2>1, <4>2
      <4> QED BY <2>1, <4>1, <4>2, <4>3 DEF When, Popped
    <3> QED BY <2>1, <3>1, <3>2
  <2>3. When(in, req[i].aid) \in Seq(Aids)
    BY <1>1, <1>2 DEF When
  <2>4. u = When(in, req[i].aid)
    <3>1. <<>> \o When(in, req[i].aid) = When(in, req[i].aid)
      BY <2>3, ConcatEmptySeq
    <3> QED BY <2>2, <3>1 DEF Clocked
  <2>5. dumRsp'[i] = When(i \in Contenders(Dummy), req[i].aid)
    BY DEF Clock, DemuxClock
  <2>6. in = (i \in Contenders(Dummy))
    BY <1>3 DEF Granted, Contenders, IInv, RspQueuesHaveRoom
  <2> QED BY <1>3, <2>2, <2>3, <2>4, <2>5, <2>6
<1>4. CASE s # Dummy
  <2>1. s \in Targets /\ held[s] \in Seq(Tagged) /\ rvalid[s] \in BOOLEAN
    BY <1>4 DEF Segments, IInv, TypeOK
  <2>2. rvalid[s] => held[s] # <<>>
    BY <2>1 DEF IInv, TargetInv
  <2>3. Lists(v, held[s], "ini", i)
    BY <1>4 DEF InOrder
  <2>4. come = (rvalid[s] /\ Head(held[s])["ini"] = i)
    BY <1>4, <2>2 DEF Arriving
  <2>5. come => Arriving(i, s) = <<Head(held[s]).aid>>
    BY <1>4 DEF Arriving
  <2>6. PICK wr \in BOOLEAN : \E x :
           /\ Forwarded(s) = When(wr, x)
           /\ wr => x \in Tagged
           /\ in = (wr /\ x["ini"] = i)
           /\ in => x.aid = req[i].aid
    <3>1. CASE /\ Forwarded(s) = <<>>
               /\ \A j \in Initiators : ~(Granted(j) /\ req[j].seg = s)
      <4>1. Forwarded(s) = When(FALSE, 0)
        BY <3>1 DEF When
      <4>2. in = FALSE
        BY <3>1
      <4> QED BY <4>1, <4>2
    <3>2. CASE \E j \in Initiators :
                 /\ Granted(j) /\ req[j].seg = s
                 /\ req[j] \in Requests
                 /\ Forwarded(s) = <<[ini |-> j, aid |-> req[j].aid]>>
      <4>1. PICK j \in Initiators :
                 /\ Granted(j) /\ req[j].seg = s
                 /\ req[j] \in Requests
                 /\ Forwarded(s) = <<[ini |-> j, aid |-> req[j].aid]>>
        BY <3>2
      <4> DEFINE r == [ini |-> j, aid |-> req[j].aid]
      <4>2. r \in Tagged /\ r.ini = j /\ r["ini"] = j /\ r.aid = req[j].aid
        BY <4>1, RequestIds DEF Tagged
      <4>3. in <=> j = i
        <5>1. ASSUME in
              PROVE  j = i
          <6>1. Forwarded(s) = <<[ini |-> i, aid |-> req[i].aid]>>
            BY <2>1, <5>1, GrantForwards DEF IInv
          <6>2. <<[ini |-> i, aid |-> req[i].aid]>>[1] = <<[ini |-> j, aid |-> req[j].aid]>>[1]
            BY <4>1, <6>1
          <6>3. [ini |-> i, aid |-> req[i].aid].ini = [ini |-> j, aid |-> req[j].aid].ini
            BY <6>2
          <6> QED BY <6>3
        <5> QED BY <4>1, <5>1
      <4>4. Forwarded(s) = When(TRUE, r)
        BY <4>1 DEF When
      <4> HIDE DEF r
      <4>5. in = (TRUE /\ r["ini"] = i) /\ (in => r.aid = req[i].aid)
        BY <1>2, <4>2, <4>3
      <4> QED BY <4>2, <4>4, <4>5
    <3> QED BY <2>1, <3>1, <3>2, ForwardedCases DEF IInv
  <2>7. PICK x :
           /\ Forwarded(s) = When(wr, x)
           /\ wr => x \in Tagged
           /\ in = (wr /\ x["ini"] = i)
           /\ in => x.aid = req[i].aid
    BY <2>6
  <2>8. held'[s] = Clocked(held[s], rvalid[s], wr, x)
    BY <2>1, <2>7 DEF Clock, TargetClock, Clocked
  <2>9. /\ rvalid[s] /\ Head(held[s])["ini"] = i => v # <<>> /\ Head(v) = Head(held[s]).aid
        /\ Lists(Clocked(v, rvalid[s] /\ Head(held[s])["ini"] = i, wr /\ x["ini"] = i, x.aid),
                 Clocked(held[s], rvalid[s], wr, x), "ini", i)
    BY <2>1, <2>2, <2>3, <2>7, RequestIds, ListsClock
  <2>10. u = Clocked(v, come, in, x.aid)
    BY <2>7 DEF Clocked, When
  <2>11. Lists(u, held'[s], "ini", i)
    BY <2>4, <2>7, <2>8, <2>9, <2>10
  <2>12. come => v # <<>> /\ Head(v) = Head(held[s]).aid
    BY <2>4, <2>9
  <2>13. Arriving(i, s) = When(come, Head(v))
    BY <2>5, <2>12 DEF When
  <2>14. u \in Seq(Aids)
    BY <1>1, <1>2, <2>12, ClockType
  <2> QED BY <1>4, <2>11, <2>12, <2>13, <2>14
<1> QED BY <1>3, <1>4

\* One clock of a segment and its response queue, taken together: they lose the id
\* that is answered and gain the one that is granted.
LEMMA BacklogOrder ==
    ASSUME IInv, Clock, NEW i \in Initiators, NEW s \in Segments,
           NEW G \in Seq(Requests), pend[i] = Segs(G),
           NEW v \in Seq(Aids), InOrder(i, s, v), Lists(rspq[i][s] \o v, G, "seg", s)
    PROVE  /\ Responding(i) /\ s = Head(pend[i]) =>
                  G # <<>> /\ Head(Visible(i, s)) = Head(G).aid
           /\ \E u \in Seq(Aids) :
                 /\ IF s = Dummy THEN u = dumRsp'[i] ELSE Lists(u, held'[s], "ini", i)
                 /\ Lists(rspq'[i][s] \o u,
                          Clocked(G, Responding(i), Granted(i), req[i]), "seg", s)
<1> DEFINE come == Arriving(i, s) # <<>>
           in == Granted(i) /\ req[i].seg = s
           out == Responding(i) /\ s = Head(pend[i])
           u == Clocked(v, come, in, req[i].aid)
           rest == Popped(v, come)
<1>1. /\ come => v # <<>>
      /\ Arriving(i, s) = When(come, Head(v))
      /\ u \in Seq(Aids)
      /\ IF s = Dummy THEN u = dumRsp'[i] ELSE Lists(u, held'[s], "ini", i)
  <2> HIDE DEF come, in, u
  <2>1. come = (Arriving(i, s) # <<>>) /\ in = (Granted(i) /\ req[i].seg = s)
        /\ u = Clocked(v, come, in, req[i].aid)
    BY DEF come, in, u
  <2> QED BY <2>1, FlightOrder
<1>2. /\ rspq[i][s] \in Seq(Aids) /\ Visible(i, s) \in Seq(Aids)
      /\ Visible(i, s) = rspq[i][s] \o Arriving(i, s)
      /\ Arriving(i, s) \in Seq(Aids)
  <2>1. Arriving(i, s) \in {<<>>} \cup {<<a>> : a \in Aids}
    BY ArrivalFits DEF IInv
  <2>2. Arriving(i, s) \in Seq(Aids)
    <3>1. CASE Arriving(i, s) = <<>>
      BY <3>1
    <3>2. CASE \E a \in Aids : Arriving(i, s) = <<a>>
      <4>1. PICK a \in Aids : Arriving(i, s) = <<a>>
        BY <3>2
      <4>2. <<a>> \in Seq(Aids)
        OBVIOUS
      <4> QED BY <4>1, <4>2
    <3> QED BY <2>1, <3>1, <3>2
  <2> QED BY <2>2, ArrivalFits DEF IInv
<1>3. come \in BOOLEAN /\ in \in BOOLEAN /\ out \in BOOLEAN /\ rest \in Seq(Aids)
  <2>1. rest \in Seq(Aids)
    BY HeadTailProperties DEF Popped
  <2> QED BY <2>1
<1>4. When(in, req[i].aid) \in Seq(Aids)
  <2>1. in => req[i].aid \in Aids
    BY RequestIds DEF Granted, IInv, TypeOK
  <2>2. CASE in
    BY <2>1, <2>2 DEF When
  <2>3. CASE ~in
    BY <2>3 DEF When
  <2> QED BY <2>2, <2>3
<1>5. u = rest \o When(in, req[i].aid)
  BY DEF Clocked
<1>6. rspq'[i][s] = Popped(Visible(i, s), out)
  BY DEF Clock, DemuxClock, QueueAfter
<1>7. out => Visible(i, s) # <<>>
  BY DEF Responding
<1> HIDE DEF come, in, out, u, rest
<1>8. rspq[i][s] \o v = Visible(i, s) \o rest
  <2>1. Arriving(i, s) \o rest = v
    BY <1>1, <1>3, Moves DEF rest
  <2>2. rspq[i][s] \o (Arriving(i, s) \o rest) = (rspq[i][s] \o Arriving(i, s)) \o rest
    <3> DEFINE a == rspq[i][s]
               b == Arriving(i, s)
    <3>1. a \in Seq(Aids) /\ b \in Seq(Aids) /\ rest \in Seq(Aids)
      BY <1>2, <1>3
    <3> HIDE DEF a, b
    <3>2. a \o (b \o rest) = (a \o b) \o rest
      BY <3>1
    <3> QED BY <3>2 DEF a, b
  <2> QED BY <1>2, <2>1, <2>2
<1>9. Visible(i, s) \o rest \in Seq(Aids)
  BY <1>2, <1>3, ConcatProperties
<1>10. Responding(i) => G # <<>> /\ Head(pend[i]) = Head(G)["seg"]
  <2>1. Responding(i) => pend[i] # <<>>
    BY DEF Responding
  <2>2. pend[i] \in Seq(Segments) /\ Len(pend[i]) = Len(G) /\ Len(G) \in Nat
    BY DEF IInv, TypeOK, Segs
  <2>3. Responding(i) => 1 \in 1 .. Len(G) /\ Head(pend[i]) = pend[i][1] /\ Head(G) = G[1]
    BY <2>1, <2>2
  <2>4. Responding(i) => pend[i][1] = G[1].seg
    BY <2>3 DEF Segs
  <2> QED BY <2>3, <2>4
<1>11. Responding(i) \in BOOLEAN /\ Granted(i) \in BOOLEAN /\ (Granted(i) => req[i] \in Requests)
  BY DEF Responding, Granted, IInv, TypeOK
<1>12. out = (Responding(i) /\ Head(G)["seg"] = s)
  BY <1>3, <1>10 DEF out
<1>13. in = (Granted(i) /\ req[i]["seg"] = s)
  BY DEF in
<1>14. /\ out => Head(Visible(i, s) \o rest) = Head(G).aid
       /\ Lists(Clocked(Visible(i, s) \o rest, out, in, req[i].aid),
                Clocked(G, Responding(i), Granted(i), req[i]), "seg", s)
  <2> DEFINE L == Visible(i, s) \o rest
  <2>1. L \in Seq(Aids) /\ Lists(L, G, "seg", s)
    BY <1>8, <1>9
  <2> HIDE DEF L
  <2>2. Responding(i) => G # <<>>
    BY <1>10
  <2>3. /\ Responding(i) /\ Head(G)["seg"] = s => L # <<>> /\ Head(L) = Head(G).aid
        /\ Lists(Clocked(L, Responding(i) /\ Head(G)["seg"] = s,
                          Granted(i) /\ req[i]["seg"] = s, req[i].aid),
                 Clocked(G, Responding(i), Granted(i), req[i]), "seg", s)
    BY <1>11, <2>1, <2>2, RequestIds, ListsClock
  <2> QED BY <1>12, <1>13, <2>3 DEF L
<1>15. out => Head(Visible(i, s)) = Head(G).aid
  <2>1. out => Head(Visible(i, s) \o rest) = Head(Visible(i, s))
    BY <1>2, <1>3, <1>7
  <2> QED BY <1>14, <2>1
<1>16. Clocked(Visible(i, s) \o rest, out, in, req[i].aid) = rspq'[i][s] \o u
  <2>1. Popped(Visible(i, s), out) \o rest = Popped(Visible(i, s) \o rest, out)
    BY <1>2, <1>3, <1>7, PopFirst
  <2>2. rspq'[i][s] \in Seq(Aids)
    BY QueueStep
  <2>3. (rspq'[i][s] \o rest) \o When(in, req[i].aid) = rspq'[i][s] \o (rest \o When(in, req[i].aid))
    <3> DEFINE a == rspq'[i][s]
               c == When(in, req[i].aid)
    <3>1. a \in Seq(Aids) /\ rest \in Seq(Aids) /\ c \in Seq(Aids)
      BY <1>3, <1>4, <2>2
    <3> HIDE DEF a, c
    <3>2. (a \o rest) \o c = a \o (rest \o c)
      BY <3>1
    <3> QED BY <3>2 DEF a, c
  <2> QED BY <1>5, <1>6, <2>1, <2>3 DEF Clocked
<1>17. Lists(rspq'[i][s] \o u, Clocked(G, Responding(i), Granted(i), req[i]), "seg", s)
  BY <1>14, <1>16
<1>18. out => G # <<>>
  BY <1>10 DEF out
<1> QED BY <1>1, <1>15, <1>17, <1>18 DEF out

-------------------------------------------------------------------------------
\* The segments of a queue of requests, over what a clock does to the queue.
LEMMA SegsType ==
    ASSUME NEW G \in Seq(Requests)
    PROVE  Segs(G) \in Seq(Segments) /\ Len(Segs(G)) = Len(G)
<1>1. Len(G) \in Nat /\ \A k \in 1 .. Len(G) : G[k] \in Requests
  OBVIOUS
<1>2. \A k \in 1 .. Len(G) : G[k].seg \in Segments
  BY <1>1, RequestIds
<1> QED BY <1>1, <1>2 DEF Segs

\* The tail of the segments is the segments of the tail.
LEMMA SegsTail ==
    ASSUME NEW G \in Seq(Requests), G # <<>>
    PROVE  Segs(G) # <<>> /\ Segs(Tail(G)) = Tail(Segs(G))
<1>1. Tail(G) \in Seq(Requests) /\ Len(Tail(G)) = Len(G) - 1 /\ Len(G) > 0
  OBVIOUS
<1>2. Segs(G) \in Seq(Segments) /\ Len(Segs(G)) = Len(G)
  BY SegsType
<1>3. Segs(G) # <<>>
  BY <1>1, <1>2
<1>4. Segs(Tail(G)) \in Seq(Segments) /\ Len(Segs(Tail(G))) = Len(G) - 1
  BY <1>1, SegsType
<1>5. Tail(Segs(G)) \in Seq(Segments) /\ Len(Tail(Segs(G))) = Len(G) - 1
  BY <1>1, <1>2
<1>6. ASSUME NEW k \in 1 .. Len(G) - 1
      PROVE  Segs(Tail(G))[k] = Tail(Segs(G))[k]
  <2>1. Segs(Tail(G))[k] = Tail(G)[k].seg
    BY <1>1 DEF Segs
  <2>2. Tail(G)[k] = G[k + 1] /\ Tail(Segs(G))[k] = Segs(G)[k + 1]
    BY <1>1, <1>2
  <2>3. Segs(G)[k + 1] = G[k + 1].seg
    BY <1>1 DEF Segs
  <2> QED BY <2>1, <2>2, <2>3
<1> QED BY <1>3, <1>4, <1>5, <1>6

\* A request appended appends its segment.
LEMMA SegsAppend ==
    ASSUME NEW G \in Seq(Requests), NEW r \in Requests
    PROVE  Segs(G \o <<r>>) = Segs(G) \o <<r.seg>>
<1>1. G \o <<r>> \in Seq(Requests) /\ Len(G \o <<r>>) = Len(G) + 1 /\ Len(G) \in Nat
  OBVIOUS
<1>2. \A k \in 1 .. Len(G) + 1 : (G \o <<r>>)[k] = IF k = Len(G) + 1 THEN r ELSE G[k]
  OBVIOUS
<1>3. Segs(G) \in Seq(Segments) /\ Len(Segs(G)) = Len(G) /\ r.seg \in Segments
  BY SegsType, RequestIds
<1>4. /\ Segs(G) \o <<r.seg>> \in Seq(Segments)
      /\ Len(Segs(G) \o <<r.seg>>) = Len(G) + 1
      /\ \A k \in 1 .. Len(G) + 1 :
            (Segs(G) \o <<r.seg>>)[k] = IF k = Len(G) + 1 THEN r.seg ELSE Segs(G)[k]
  BY <1>3
<1>5. Segs(G \o <<r>>) \in Seq(Segments) /\ Len(Segs(G \o <<r>>)) = Len(G) + 1
  BY <1>1, SegsType
<1>6. ASSUME NEW k \in 1 .. Len(G) + 1
      PROVE  Segs(G \o <<r>>)[k] = (Segs(G) \o <<r.seg>>)[k]
  <2>1. Segs(G \o <<r>>)[k] = (G \o <<r>>)[k].seg
    BY <1>1 DEF Segs
  <2>2. CASE k = Len(G) + 1
    BY <1>2, <1>4, <2>1, <2>2
  <2>3. CASE k \in 1 .. Len(G)
    <3>1. Segs(G)[k] = G[k].seg /\ k # Len(G) + 1
      BY <1>1, <2>3 DEF Segs
    <3> QED BY <1>2, <1>4, <2>1, <3>1
  <2>4. Len(G) \in Nat
    OBVIOUS
  <2>5. k = Len(G) + 1 \/ k \in 1 .. Len(G)
    BY <2>4
  <2> QED BY <2>2, <2>3, <2>5
<1> DEFINE a == Segs(G \o <<r>>)
           b == Segs(G) \o <<r.seg>>
<1>7. /\ a \in Seq(Segments) /\ b \in Seq(Segments)
      /\ Len(a) = Len(G) + 1 /\ Len(b) = Len(G) + 1
      /\ \A k \in 1 .. Len(G) + 1 : a[k] = b[k]
  BY <1>4, <1>5, <1>6
<1> HIDE DEF a, b
<1>8. a = b
  BY <1>7, SeqEqual
<1> QED BY <1>8 DEF a, b

\* The pending FIFO stays the segments of the granted requests.
LEMMA SegsClock ==
    ASSUME NEW G \in Seq(Requests), NEW rd \in BOOLEAN, NEW wr \in BOOLEAN, NEW x,
           rd => G # <<>>, wr => x \in Requests
    PROVE  Segs(Clocked(G, rd, wr, x)) = Clocked(Segs(G), rd, wr, x.seg)
<1> DEFINE p == Popped(G, rd)
<1>1. p \in Seq(Requests) /\ Segs(p) = Popped(Segs(G), rd)
  <2>1. CASE rd
    <3>1. p = Tail(G) /\ p \in Seq(Requests)
      BY <2>1, HeadTailProperties DEF Popped
    <3>2. Segs(G) # <<>> /\ Segs(Tail(G)) = Tail(Segs(G))
      BY <2>1, SegsTail
    <3> QED BY <2>1, <3>1, <3>2 DEF Popped
  <2>2. CASE ~rd
    BY <2>2 DEF Popped
  <2> QED BY <2>1, <2>2
<1> HIDE DEF p
<1>2. CASE wr
  <2>1. Segs(p \o <<x>>) = Segs(p) \o <<x.seg>>
    BY <1>1, <1>2, SegsAppend
  <2>2. Clocked(G, rd, wr, x) = p \o <<x>>
    BY <1>2 DEF Clocked, When, p
  <2>3. Clocked(Segs(G), rd, wr, x.seg) = Segs(p) \o <<x.seg>>
    BY <1>1, <1>2 DEF Clocked, When
  <2> QED BY <2>1, <2>2, <2>3
<1>3. CASE ~wr
  <2>1. Clocked(G, rd, wr, x) = p \o <<>>
    BY <1>3 DEF Clocked, When, p
  <2>2. Clocked(Segs(G), rd, wr, x.seg) = Segs(p) \o <<>>
    BY <1>1, <1>3 DEF Clocked, When
  <2>3. p \o <<>> = p
    BY <1>1, ConcatEmptySeq
  <2>4. Segs(p) \o <<>> = Segs(p)
    <3>1. Segs(p) \in Seq(Segments)
      BY <1>1, SegsType
    <3> QED BY <3>1, ConcatEmptySeq
  <2> QED BY <2>1, <2>2, <2>3, <2>4
<1> QED BY <1>2, <1>3

-------------------------------------------------------------------------------
\* The core's list and the pending FIFO over one clock, and the answer of that clock.
LEMMA OwedOrder ==
    ASSUME MaxOut <= Depth, IInv, Clock, NEW i \in Initiators,
           NEW G \in Seq(Requests), Backlog(i, G)
    PROVE  /\ Responding(i) => G # <<>> /\ owed[i] # <<>> /\ Head(owed[i]) = Head(G)
           /\ Clocked(G, Responding(i), Granted(i), req[i]) \in Seq(Requests)
           /\ pend'[i] = Segs(Clocked(G, Responding(i), Granted(i), req[i]))
           /\ owed'[i] = Clocked(G, Responding(i), Granted(i), req[i])
                         \o When(req'[i] # None, req'[i])
<1> DEFINE rd == Responding(i)
           wr == Granted(i)
           H == Clocked(G, rd, wr, req[i])
           pin == When(req[i] # None, req[i])
           new == When(req'[i] # None, req'[i])
<1>1. rd \in BOOLEAN /\ wr \in BOOLEAN /\ (wr => req[i] # None)
  BY DEF Responding, Granted
<1>2. /\ req[i] \in Requests \cup {None} /\ req'[i] \in Requests \cup {None}
      /\ req[i] # None => req[i] \in Requests
      /\ req'[i] # None => req'[i] \in Requests
  BY DEF IInv, TypeOK, Clock, CoreClock
<1>3. owed[i] = G \o pin /\ pend[i] = Segs(G)
  BY DEF Backlog
<1>4. rd => G # <<>>
  <2>1. rd => pend[i] # <<>>
    BY DEF Responding
  <2>2. Segs(<<>>) = <<>>
    BY DEF Segs
  <2> QED BY <1>3, <2>1, <2>2
<1>5. pin \in Seq(Requests) /\ new \in Seq(Requests)
  <2>1. pin \in Seq(Requests)
    BY <1>2 DEF When
  <2>2. new \in Seq(Requests)
    BY <1>2 DEF When
  <2> QED BY <2>1, <2>2
<1>6. H \in Seq(Requests)
  BY <1>1, <1>2, <1>4, ClockType
<1>7. pend'[i] = Segs(H)
  <2>1. DemuxAsserts
    BY AssertsHold
  <2>2. wr => Len(pend[i]) < Depth
    BY <2>1 DEF DemuxAsserts
  <2>3. pend'[i] = Popped(pend[i], rd)
                    \o (IF Len(pend[i]) < Depth THEN When(wr, req[i].seg) ELSE <<>>)
    BY DEF Clock, DemuxClock, AfterClock
  <2>4. ~wr => When(wr, req[i].seg) = <<>>
    BY DEF When
  <2>5. (IF Len(pend[i]) < Depth THEN When(wr, req[i].seg) ELSE <<>>) = When(wr, req[i].seg)
    BY <2>2, <2>4
  <2>6. pend'[i] = Clocked(Segs(G), rd, wr, req[i].seg)
    BY <1>3, <2>3, <2>5 DEF Clocked
  <2>7. Segs(H) = Clocked(Segs(G), rd, wr, req[i].seg)
    BY <1>1, <1>2, <1>4, SegsClock
  <2> QED BY <2>6, <2>7
<1>8. rd => owed[i] # <<>> /\ Head(owed[i]) = Head(G)
  <2> HIDE DEF pin
  <2> QED BY <1>3, <1>4, <1>5
<1>9. owed'[i] = H \o new
  <2> DEFINE left == Popped(G, rd)
             done == req[i] = None \/ wr
             taken == When(wr, req[i])
  <2>1. IF done THEN req'[i] # None => Len(Popped(owed[i], rd)) < MaxOut ELSE req'[i] = req[i]
    BY Zenon DEF Clock, CoreClock
  <2>2. owed'[i] = Popped(owed[i], rd) \o When(done /\ req'[i] # None, req'[i])
    BY DEF Clock, CoreClock
  <2>3. Popped(owed[i], rd) = left \o pin
    <3> HIDE DEF pin
    <3>1. Popped(G, rd) \o pin = Popped(G \o pin, rd)
      BY <1>1, <1>4, <1>5, PopFirst
    <3> QED BY <1>3, <3>1
  <2>4. H = left \o taken
    BY DEF Clocked
  <2>5. left \in Seq(Requests)
    BY HeadTailProperties DEF Popped
  <2>6. CASE done
    <3>1. taken = pin
      BY <1>1, <2>6 DEF When
    <3>2. When(done /\ req'[i] # None, req'[i]) = new
      BY <2>6
    <3> HIDE DEF left, taken, pin, new, H, done
    <3> QED BY <2>2, <2>3, <2>4, <3>1, <3>2
  <2>7. CASE ~done
    <3>1. req'[i] = req[i] /\ new = pin /\ taken = <<>>
      BY <2>1, <2>7 DEF When
    <3>2. When(done /\ req'[i] # None, req'[i]) = <<>>
      BY <2>7 DEF When
    <3> HIDE DEF left, taken, pin, new, H, done
    <3>3. H = left
      BY <2>4, <2>5, <3>1, ConcatEmptySeq
    <3>4. left \o pin \in Seq(Requests)
      BY <1>5, <2>5, ConcatProperties
    <3>5. (left \o pin) \o <<>> = left \o pin
      BY <3>4, ConcatEmptySeq
    <3> QED BY <2>2, <2>3, <3>1, <3>2, <3>3, <3>5
  <2> QED BY <2>6, <2>7
<1> QED BY <1>4, <1>6, <1>7, <1>8, <1>9

\* An answer is for the oldest granted request.
LEMMA AnswerIsOldest ==
    ASSUME MaxOut <= Depth, IInv, Clock, NEW i \in Initiators,
           NEW G \in Seq(Requests), Backlog(i, G), Responding(i)
    PROVE  Response(i) = Head(G) /\ Head(G) \in Requests
<1> DEFINE s == Head(pend[i])
<1>1. G # <<>>
  BY OwedOrder
<1>2. Head(G) \in Requests
  BY <1>1, HeadTailProperties
<1>3. pend[i] = Segs(G)
  BY DEF Backlog
<1>4. s = Head(G).seg /\ s \in Segments
  <2>1. Len(G) \in Nat /\ 1 \in 1 .. Len(G) /\ Head(G) = G[1]
    BY <1>1
  <2>2. Segs(G) \in Seq(Segments) /\ Len(Segs(G)) = Len(G) /\ Segs(G)[1] = G[1].seg
    BY <2>1, SegsType DEF Segs
  <2>3. Head(Segs(G)) = Segs(G)[1]
    BY <2>1, <2>2
  <2> QED BY <1>2, <1>3, <2>1, <2>2, <2>3, RequestIds
<1> HIDE DEF s
<1>5. PICK v \in Seq(Aids) : InOrder(i, s, v) /\ Lists(rspq[i][s] \o v, G, "seg", s)
  BY <1>4 DEF Backlog
<1>6. Head(Visible(i, s)) = Head(G).aid
  BY <1>3, <1>4, <1>5, BacklogOrder DEF s
<1>7. Response(i) = [seg |-> s, aid |-> Head(Visible(i, s))]
  BY DEF Response, s
<1> QED BY <1>2, <1>4, <1>6, <1>7 DEF Requests

\* One clock keeps the order.
LEMMA OrderStep ==
    ASSUME MaxOut <= Depth, IInv, Clock, OrderInv, NEW i \in Initiators
    PROVE  \E H \in Seq(Requests) :
              /\ owed'[i] = H \o When(req'[i] # None, req'[i])
              /\ pend'[i] = Segs(H)
              /\ \A s \in Segments : \E u \in Seq(Aids) :
                    /\ IF s = Dummy THEN u = dumRsp'[i] ELSE Lists(u, held'[s], "ini", i)
                    /\ Lists(rspq'[i][s] \o u, H, "seg", s)
<1>1. PICK G \in Seq(Requests) : Backlog(i, G)
  BY DEF OrderInv
<1> DEFINE H == Clocked(G, Responding(i), Granted(i), req[i])
<1>2. /\ H \in Seq(Requests) /\ pend'[i] = Segs(H)
      /\ owed'[i] = H \o When(req'[i] # None, req'[i])
  BY <1>1, OwedOrder
<1>3. ASSUME NEW s \in Segments
      PROVE  \E u \in Seq(Aids) :
                /\ IF s = Dummy THEN u = dumRsp'[i] ELSE Lists(u, held'[s], "ini", i)
                /\ Lists(rspq'[i][s] \o u, H, "seg", s)
  <2>1. PICK v \in Seq(Aids) : InOrder(i, s, v) /\ Lists(rspq[i][s] \o v, G, "seg", s)
    BY <1>1 DEF Backlog
  <2>2. pend[i] = Segs(G)
    BY <1>1 DEF Backlog
  <2> QED BY <2>1, <2>2, BacklogOrder
<1> HIDE DEF H
<1> QED BY <1>2, <1>3

\* At power-up nothing is granted anywhere.
LEMMA InitOrder == Init => OrderInv
<1> SUFFICES ASSUME Init, NEW i \in Initiators
             PROVE  Backlog(i, <<>>) /\ <<>> \in Seq(Requests)
  BY DEF OrderInv
<1>1. <<>> \in Seq(Requests) /\ <<>> \in Seq(Aids) /\ <<>> \o <<>> = <<>>
  OBVIOUS
<1>2. owed[i] = <<>> \o When(req[i] # None, req[i])
  BY <1>1 DEF Init, When
<1>3. pend[i] = Segs(<<>>)
  BY DEF Init, Segs
<1>4. ASSUME NEW s \in Segments
      PROVE  InOrder(i, s, <<>>) /\ Lists(rspq[i][s] \o <<>>, <<>>, "seg", s)
  <2>1. rspq[i][s] = <<>> /\ dumRsp[i] = <<>> /\ (s # Dummy => held[s] = <<>>)
    BY DEF Init, Segments
  <2>2. InOrder(i, s, <<>>)
    BY <2>1, ListsNothing DEF InOrder
  <2>3. Lists(rspq[i][s] \o <<>>, <<>>, "seg", s)
    BY <1>1, <2>1, ListsNothing
  <2> QED BY <2>2, <2>3
<1> QED BY <1>1, <1>2, <1>3, <1>4 DEF Backlog

\* Every step keeps the order.
LEMMA NextOrder ==
    ASSUME MaxOut <= Depth, IInv, OrderInv, [Next]_vars
    PROVE  OrderInv'
<1>1. CASE Clock
  BY <1>1, OrderStep DEF OrderInv, Backlog, InOrder, Lists
<1>2. CASE UNCHANGED vars
  <2>1. /\ req' = req /\ owed' = owed /\ pend' = pend /\ rspq' = rspq
        /\ dumRsp' = dumRsp /\ held' = held
    BY <1>2 DEF vars, coreVars, demuxVars, targetVars
  <2>2. ASSUME NEW i \in Initiators, NEW G \in Seq(Requests), Backlog(i, G)
        PROVE  Backlog(i, G)'
    <3>1. \A s \in Segments, v \in Seq(Aids) : InOrder(i, s, v) => InOrder(i, s, v)'
      BY <2>1 DEF InOrder, Lists
    <3>2. \A s \in Segments, v \in Seq(Aids) :
            Lists(rspq[i][s] \o v, G, "seg", s) => Lists(rspq'[i][s] \o v, G, "seg", s)
      BY <2>1
    <3>3. \A s \in Segments : \E v \in Seq(Aids) :
            InOrder(i, s, v)' /\ Lists(rspq'[i][s] \o v, G, "seg", s)
      BY <2>2, <3>1, <3>2 DEF Backlog
    <3>4. owed'[i] = G \o When(req'[i] # None, req'[i]) /\ pend'[i] = Segs(G)
      BY <2>1, <2>2 DEF Backlog
    <3> QED BY <3>3, <3>4 DEF Backlog, Lists
  <2> QED BY <2>2 DEF OrderInv
<1> QED BY <1>1, <1>2 DEF Next

\* Every clock of the crossbar is one of the port: a request is kept until its
\* grant, an answer is that of the oldest granted request.
LEMMA ClockIsPort ==
    ASSUME MaxOut <= Depth, IInv, IInv', OrderInv, Clock
    PROVE  Port!Clock
<1>1. /\ req' \in [Initiators -> Requests \cup {None}]
      /\ rsp' \in [Initiators -> Requests \cup {None}]
  BY DEF IInv, TypeOK
<1>2. ASSUME NEW i \in Initiators
      PROVE  /\ rsp'[i] # None <=> Responding(i)
             /\ Responding(i) => owed[i] # <<>> /\ rsp'[i] = Head(owed[i])
                                 /\ Port!Accepted(i) > 0
  <2>1. PICK G \in Seq(Requests) : Backlog(i, G)
    BY DEF OrderInv
  <2>2. rsp'[i] = Response(i)
    BY DEF Clock, CoreClock
  <2>3. ~Responding(i) => rsp'[i] = None
    BY <2>2 DEF Response
  <2>4. Responding(i) => rsp'[i] = Head(G) /\ Head(G) \in Requests
    BY <2>1, <2>2, AnswerIsOldest
  <2>5. Responding(i) => G # <<>> /\ owed[i] # <<>> /\ Head(owed[i]) = Head(G)
    BY <2>1, OwedOrder
  <2>6. Responding(i) => Port!Accepted(i) > 0
    <3>1. Responding(i) => pend[i] # <<>>
      BY DEF Responding
    <3>2. pend[i] \in Seq(Segments) /\ owed[i] \in Seq(Requests)
      BY DEF IInv, TypeOK
    <3>3. /\ req[i] = None => Len(owed[i]) = Len(pend[i])
          /\ req[i] # None => Len(owed[i]) = Len(pend[i]) + 1
      BY DEF IInv, CoreInv
    <3>4. Port!Accepted(i) = Len(pend[i])
      BY <3>2, <3>3 DEF Port!Accepted
    <3> QED BY <3>1, <3>2, <3>4
  <2> QED BY <2>3, <2>4, <2>5, <2>6, XbarAssumption
<1> DEFINE granted == {i \in Initiators : Granted(i)}
           kept(i) == req[i] # None /\ i \notin granted
<1>3. granted \in SUBSET {i \in Initiators : req[i] # None}
  BY DEF Granted
<1>4. ASSUME NEW i \in Initiators, kept(i)
      PROVE  req'[i] = req[i]
  <2>1. IF req[i] = None \/ Granted(i)
        THEN req'[i] # None => Len(Popped(owed[i], Responding(i))) < MaxOut
        ELSE req'[i] = req[i]
    BY Zenon DEF Clock, CoreClock
  <2> QED BY <1>4, <2>1
<1>5. owed' = [i \in Initiators |->
                 (IF rsp'[i] = None THEN owed[i] ELSE Tail(owed[i]))
                 \o (IF kept(i) \/ req'[i] = None THEN <<>> ELSE <<req'[i]>>)]
  <2>1. ASSUME NEW i \in Initiators
        PROVE  /\ Popped(owed[i], Responding(i)) =
                    IF rsp'[i] = None THEN owed[i] ELSE Tail(owed[i])
               /\ When((req[i] = None \/ Granted(i)) /\ req'[i] # None, req'[i]) =
                    IF kept(i) \/ req'[i] = None THEN <<>> ELSE <<req'[i]>>
    <3>1. Popped(owed[i], Responding(i)) = IF rsp'[i] = None THEN owed[i] ELSE Tail(owed[i])
      BY <1>2 DEF Popped
    <3>2. When((req[i] = None \/ Granted(i)) /\ req'[i] # None, req'[i]) =
            IF kept(i) \/ req'[i] = None THEN <<>> ELSE <<req'[i]>>
      BY DEF When
    <3> QED BY <3>1, <3>2
  <2>2. owed' = [i \in Initiators |->
                   Popped(owed[i], Responding(i))
                   \o When((req[i] = None \/ Granted(i)) /\ req'[i] # None, req'[i])]
    BY DEF Clock, CoreClock
  <2> HIDE DEF kept, granted
  <2> QED BY <2>1, <2>2
<1>6. \A i \in Initiators : Len(owed'[i]) <= MaxOut
  BY DEF IInv, CoreInv
<1>7. \A i \in Initiators :
        rsp'[i] # None => Port!Accepted(i) > 0 /\ rsp'[i] = Head(owed[i])
  BY <1>2
<1> QED BY <1>1, <1>3, <1>4, <1>5, <1>6, <1>7 DEF Port!Clock

-------------------------------------------------------------------------------
\* The core's list, the pending FIFO, the response queues and the targets agree on
\* the order of every core's requests (obi_demux, obi_mux, obi_rsp_queue).
THEOREM XbarKeepsOrder ==
    ASSUME MaxOut <= Depth
    PROVE  Spec => []OrderInv
<1>1. Init => OrderInv
  BY InitOrder
<1>2. IInv /\ OrderInv /\ [Next]_vars => OrderInv'
  BY NextOrder
<1> QED BY <1>1, <1>2, XbarInvariant, PTL DEF Spec

\* The crossbar is the abstract port for every initiator: no answer is lost, given
\* twice, out of order, or to another core, whatever the latencies of the targets.
THEOREM XbarIsPort ==
    ASSUME MaxOut <= Depth
    PROVE  Spec => PortSafety
<1>1. Init => Port!Init
  BY DEF Init, Port!Init
<1>2. IInv /\ IInv' /\ OrderInv /\ [Next]_vars => [Port!Next]_<<req, owed, rsp>>
  BY ClockIsPort DEF Next, Port!Next, vars, coreVars
<1> QED BY <1>1, <1>2, XbarInvariant, XbarKeepsOrder, PTL DEF Spec, PortSafety
===============================================================================
