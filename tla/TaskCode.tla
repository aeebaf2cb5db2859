------------------------------ MODULE TaskCode ------------------------------
(***************************************************************************)
(* What one instruction of a FreeRTOS task does to what belongs to the     *)
(* task: its registers, the place it is at, and the depth of its critical  *)
(* sections.  A task is a loop of Length instructions, each of which       *)
(* computes a value, enters or leaves a critical section (portmacro.h: two *)
(* instructions each, a CSR access and a count), or yields.                *)
(***************************************************************************)
EXTENDS Naturals

CONSTANTS Tasks,     \* the tasks
          Values,    \* what a task computes
          Touched,   \* the registers tasks compute into, a bound for TLC
          Length,    \* the instructions of a task's loop
          NestMax    \* bound: how deep a task nests critical sections

\* x0 is wired to zero, x2 is the stack pointer, x3 and x4 never change.
Registers == {1} \cup (5 .. 31)

\* The contents of a register that a task did not compute: the return address
\* and the argument of its function, the function itself, the fill of a new
\* stack, whatever a handler leaves behind.
Data == Values \cup {"return", "param", "code", "fill", "junk"}

ASSUME CodeAssumption ==
  /\ Length \in Nat \ {0}
  /\ NestMax \in Nat
  /\ Touched \subseteq Registers

At(label, n) == [at |-> label, n |-> n]
Entry == At("run", 0)
TaskPcs == [at : {"run", "count", "leave"}, n : 0 .. Length - 1]

Contexts == [reg : [Registers -> Data], pc : TaskPcs, nest : 0 .. NestMax]

\* A new task is at its function, with its argument and its return address in
\* their registers; the other registers hold what its stack was filled with.
NewRegisters == [r \in Registers |->
  CASE r = 1 -> "return" [] r = 10 -> "param" [] OTHER -> "fill"]
NewContext == [reg |-> NewRegisters, pc |-> Entry, nest |-> 0]

Advance(pc) == At("run", (pc.n + 1) % Length)

Compute(c, r, v) == [c EXCEPT !.reg[r] = v, !.pc = Advance(@)]

\* portENTER_CRITICAL: csrc mstatus, then xCriticalNesting++.
Mask(c) == [c EXCEPT !.pc = At("count", @.n)]
Count(c) == [c EXCEPT !.pc = Advance(@), !.nest = @ + 1]

\* portEXIT_CRITICAL: xCriticalNesting--, then csrs mstatus if it is zero.
Uncount(c) == [c EXCEPT !.pc = At("leave", @.n), !.nest = @ - 1]
Leave(c) == [c EXCEPT !.pc = Advance(@)]

\* portYIELD: ecall, whose handler returns behind it.
Yield(c) == [c EXCEPT !.pc = Advance(@)]

CanCompute(c) == c.pc.at = "run"
CanMask(c) == c.pc.at = "run" /\ c.nest < NestMax
CanCount(c) == c.pc.at = "count"
CanUncount(c) == c.pc.at = "run" /\ c.nest > 0
CanLeave(c) == c.pc.at = "leave"
CanYield(c) == c.pc.at = "run"
=============================================================================
