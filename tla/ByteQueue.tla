------------------------------ MODULE ByteQueue ------------------------------
(***************************************************************************)
(* What a byte buffer between two threads promises: a bounded queue whose  *)
(* bytes come out in the order they went in, none lost, repeated or torn.  *)
(* A byte is its number.                                                   *)
(***************************************************************************)
EXTENDS Naturals, Sequences

CONSTANT Capacity

VARIABLES
    queue,      \* the bytes put and not got
    put,        \* bytes put so far
    hand        \* the byte the reader got last

Init == queue = <<>> /\ put = 0 /\ hand = 0

Put ==
    /\ Len(queue) < Capacity
    /\ put' = put + 1
    /\ queue' = Append(queue, put')
    /\ UNCHANGED hand

Get ==
    /\ queue # <<>>
    /\ hand' = Head(queue)
    /\ queue' = Tail(queue)
    /\ UNCHANGED put

\* A put, a get, or nothing the queue knows of.
Step == [Put \/ Get]_<<queue, put, hand>>

Spec == Init /\ [][Step]_<<queue, put, hand>>
==============================================================================
