------------------------------ MODULE TaskView ------------------------------
(***************************************************************************)
(* What the context switch promises: every task has a processor of its     *)
(* own.  Its registers, its place and its critical depth change by its own *)
(* instructions alone, one instruction at a time, whatever interrupts and  *)
(* other tasks do in between.                                              *)
(***************************************************************************)
EXTENDS TaskCode

VARIABLES view,     \* the context of every task, NoTask before it is created
          started   \* the scheduler's first task has been entered

NoTask == [pc |-> At("none", 0)]

Init == view = [t \in Tasks |-> NoTask] /\ started = FALSE

Becomes(t, c) == view' = [view EXCEPT ![t] = c] /\ UNCHANGED started

Born(t) == view[t] = NoTask /\ Becomes(t, NewContext)

\* The task the scheduler enters first is entered by a return, not by a return
\* from a trap: its return address is its own function.
First(t) ==
  /\ ~started
  /\ view[t] = NewContext
  /\ started' = TRUE
  /\ view' = [view EXCEPT ![t].reg[1] = "code"]

Step(t) ==
  LET c == view[t]
  IN  /\ c # NoTask
      /\ \/ CanCompute(c) /\ \E r \in Touched, v \in Values : Becomes(t, Compute(c, r, v))
         \/ CanMask(c) /\ Becomes(t, Mask(c))
         \/ CanCount(c) /\ Becomes(t, Count(c))
         \/ CanUncount(c) /\ Becomes(t, Uncount(c))
         \/ CanLeave(c) /\ Becomes(t, Leave(c))
         \/ CanYield(c) /\ Becomes(t, Yield(c))

Next == \E t \in Tasks : Born(t) \/ First(t) \/ Step(t)

Spec == Init /\ [][Next]_<<view, started>>
=============================================================================
