-------------------------------- MODULE Mtime --------------------------------
(***************************************************************************)
(* The machine timer mtime32: a counter of clocks, a compare register and  *)
(* the interrupt line.  A clock that makes the two registers meet raises   *)
(* the line one clock later; a write of the compare register lowers it.    *)
(* Both registers are words that wrap at Word.  clear_intr_i is tied to 0  *)
(* in every testbench, and no software writes mtime.                       *)
(***************************************************************************)
EXTENDS Naturals

CONSTANT Word       \* 2^32

ASSUME WordAssumption == Word \in Nat \ {0}

VARIABLES mtime, mtimecmp, interrupt

timerVars == <<mtime, mtimecmp, interrupt>>

Words == 0 .. Word - 1
None == Word                        \* no write to mtimecmp in this clock

\* Addition of words, and the number of clocks from one value of mtime to another.
Plus(a, b) == IF a + b < Word THEN a + b ELSE a + b - Word
Until(a, b) == IF a <= b THEN b - a ELSE b - a + Word

TimerInit == mtime = 0 /\ mtimecmp = 0 /\ interrupt = FALSE

M_Interrupt(write) == interrupt \/ mtime = mtimecmp     \* the write does not clear
M_InterruptNow(write) == mtime = mtimecmp               \* a pulse of one clock
Interrupt(write) ==
    \/ mtime = mtimecmp
    \/ write = None /\ interrupt

TimerClock(write) ==
    /\ mtime' = Plus(mtime, 1)
    /\ mtimecmp' = IF write = None THEN mtimecmp ELSE write
    /\ interrupt' = Interrupt(write)
==============================================================================
