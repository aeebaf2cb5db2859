------------------------------ MODULE ObiTarget ------------------------------
(***************************************************************************)
(* What the crossbar expects of a target with variable latency: it takes a *)
(* request only when it grants, grants only while it has room, answers the *)
(* requests it took in their order, each in a clock of its own and never   *)
(* in the clock of the grant, and keeps granting and answering.  The       *)
(* bridges of ObiXbar behave like this; Obi2Axi is shown to.               *)
(***************************************************************************)
EXTENDS Naturals, Sequences

CONSTANTS
    Asks,       \* the requests
    Room,       \* requests the target can hold
    None        \* no request, no answer

VARIABLES
    ask,        \* the request on the pins in this clock, or None
    held,       \* requests taken and not answered, oldest first
    gnt,        \* the grant in this clock
    ans         \* the request answered in this clock, or None

vars == <<ask, held, gnt, ans>>

Answering == ans = None \/ (held # <<>> /\ ans = Head(held))

Init == held = <<>> /\ ask = None /\ gnt \in BOOLEAN /\ ans = None

Clock ==
    /\ held' = (IF ans = None THEN held ELSE Tail(held))
               \o (IF ask # None /\ gnt THEN <<ask>> ELSE <<>>)
    /\ ask' \in Asks \cup {None}
    /\ gnt' \in BOOLEAN
    /\ gnt' => Len(held') < Room
    /\ Answering'

Next == Clock

Spec ==
    /\ Init /\ [][Next]_vars
    /\ []<>(held = <<>> \/ ans # None)
    /\ []<>gnt
==============================================================================
