------------------------------- MODULE ObiPort -------------------------------
(***************************************************************************)
(* What an OBI initiator port promises the core behind it, whatever lies   *)
(* between it and the targets: every request the port accepts is answered  *)
(* exactly once, the answers come in the order of the requests, never in   *)
(* the clock of the grant itself, and every accepted request is answered   *)
(* in the end.  ObiXbar is shown to implement this module.                 *)
(***************************************************************************)
EXTENDS Naturals, Sequences

CONSTANTS
    Initiators,     \* the ports
    Requests,       \* what a core can ask for (target and transaction id)
    None,           \* no request, no response
    MaxOut          \* the most requests a core has unanswered

VARIABLES
    req,            \* req[i]: the request on port i's pins, or None
    owed,           \* owed[i]: the requests port i raised and has no answer to
    rsp             \* rsp[i]: what port i answered in the last clock, or None

vars == <<req, owed, rsp>>

\* The number of requests of port i that are granted and not yet answered.
Accepted(i) == IF req[i] = None THEN Len(owed[i]) ELSE Len(owed[i]) - 1

Init ==
    /\ req = [i \in Initiators |-> None]
    /\ owed = [i \in Initiators |-> <<>>]
    /\ rsp = [i \in Initiators |-> None]

\* One clock of all ports.  A request stays on the pins until its grant;
\* a port answers nothing or the oldest accepted request.
Clock ==
    /\ req' \in [Initiators -> Requests \cup {None}]
    /\ rsp' \in [Initiators -> Requests \cup {None}]
    /\ \A i \in Initiators :
          rsp'[i] # None => Accepted(i) > 0 /\ rsp'[i] = Head(owed[i])
    /\ \E granted \in SUBSET {i \in Initiators : req[i] # None} :
          LET kept(i) == req[i] # None /\ i \notin granted IN
          /\ \A i \in Initiators : kept(i) => req'[i] = req[i]
          /\ owed' = [i \in Initiators |->
                        (IF rsp'[i] = None THEN owed[i] ELSE Tail(owed[i]))
                        \o (IF kept(i) \/ req'[i] = None THEN <<>> ELSE <<req'[i]>>)]
    /\ \A i \in Initiators : Len(owed'[i]) <= MaxOut

Next == Clock

\* While a port has accepted requests, answers keep coming.  (A port that is
\* asked and answers the same thing clock after clock does not change these
\* variables, so this is stated of the states and not as the fairness of a step.)
Answers(i) == []<>(Accepted(i) = 0 \/ rsp[i] # None)

Spec == Init /\ [][Next]_vars /\ \A i \in Initiators : Answers(i)
==============================================================================
