------------------------------ MODULE TickTimer ------------------------------
(***************************************************************************)
(* The FreeRTOS tick on the machine timer: xPortStartScheduler arms it and *)
(* the tick handler moves the compare register on by one period.  Each     *)
(* action is one clock of the timer, with the software's access to it in   *)
(* that clock, if any.  The software may take any number of clocks between *)
(* its accesses, up to MaxLate from the moment it answers to.              *)
(***************************************************************************)
EXTENDS Mtime

CONSTANTS
    Period,     \* uxTimerIncrementsForOneTick
    MaxLate     \* clocks from a match, or a read of mtime, to the compare's write

ASSUME TickAssumption ==
    /\ Period \in Nat /\ 0 < Period /\ 2 * Period < Word
    /\ MaxLate \in Nat /\ 3 <= MaxLate /\ MaxLate < Word

VARIABLES
    pc,         \* where the software is
    reg,        \* what it last loaded from the timer
    started,    \* the value of mtime the ticks count from
    ticks       \* ticks counted by the kernel, a word

softVars == <<pc, reg, started, ticks>>
vars == <<timerVars, softVars>>

Armed == {"armed", "run", "isr", "loaded", "stored"}

Init == TimerInit /\ pc = "reset" /\ reg = 0 /\ started = 0 /\ ticks = 0

-------------------------------------------------------------------------------
\* The clocks since the compare value was reached, when it was.
Lateness == Until(mtimecmp, mtime)

\* The steps the software has yet to take before it writes the compare register.
StepsLeft == CASE pc = "loaded" -> 0
               [] pc = "isr" -> 1
               [] pc = "run" -> 2
               [] OTHER -> 3

\* A clock in which no deadline is missed: neither that of a compare value that was
\* reached, nor that of the read of mtime the first one is computed from, and the
\* start-up code is done before mtime wraps.  (A write of the register in the very
\* clock mtime meets its reset value would leave the line up.)
InTime ==
    /\ pc \in Armed /\ Lateness <= MaxLate => Lateness' + StepsLeft' <= MaxLate
    /\ pc = "read" => Until(reg, mtime)' <= MaxLate
    /\ pc \notin Armed => mtime' # 0

\* MaxLate, and half a lap of mtime for the start-up code, bound the idle clocks.
Idle ==
    /\ pc \notin Armed => 2 * mtime < Word
    /\ TimerClock(None)
    /\ UNCHANGED softVars
    /\ InTime

(* xPortStartScheduler, with interrupts off *)

ClearCompare ==
    /\ pc = "reset" /\ pc' = "cleared"
    /\ TimerClock(0)
    /\ UNCHANGED <<reg, started, ticks>>
    /\ InTime

ReadTime ==
    /\ pc = "cleared" /\ pc' = "read"
    /\ reg' = mtime
    /\ TimerClock(None)
    /\ UNCHANGED <<started, ticks>>
    /\ InTime

SetCompare ==
    /\ pc = "read" /\ pc' = "armed"
    /\ started' = reg
    /\ TimerClock(Plus(reg, Period))
    /\ UNCHANGED <<reg, ticks>>

EnableInterrupts ==
    /\ pc = "armed" /\ pc' = "run"
    /\ TimerClock(None)
    /\ UNCHANGED <<reg, started, ticks>>
    /\ InTime

(* the timer interrupt *)

Trap ==
    /\ pc = "run" /\ interrupt /\ pc' = "isr"
    /\ TimerClock(None)
    /\ UNCHANGED <<reg, started, ticks>>
    /\ InTime

M_Loaded == mtime               \* the period counted from now
Loaded == mtimecmp

LoadCompare ==
    /\ pc = "isr" /\ pc' = "loaded"
    /\ reg' = Loaded
    /\ TimerClock(None)
    /\ UNCHANGED <<started, ticks>>
    /\ InTime

StoreCompare ==
    /\ pc = "loaded" /\ pc' = "stored"
    /\ TimerClock(Plus(reg, Period))
    /\ UNCHANGED <<reg, started, ticks>>

\* xTaskIncrementTick, and the return from the trap.
IncrementTick ==
    /\ pc = "stored" /\ pc' = "run"
    /\ ticks' = Plus(ticks, 1)
    /\ TimerClock(None)
    /\ UNCHANGED <<reg, started>>
    /\ InTime

Next ==
    \/ Idle
    \/ ClearCompare \/ ReadTime \/ SetCompare \/ EnableInterrupts
    \/ Trap \/ LoadCompare \/ StoreCompare \/ IncrementTick

Spec == Init /\ [][Next]_vars

-------------------------------------------------------------------------------
(* Properties.                                                               *)

TypeOK ==
    /\ {mtime, mtimecmp, reg, started, ticks} \subseteq Words
    /\ interrupt \in BOOLEAN
    /\ pc \in {"reset", "cleared", "read"} \cup Armed

\* A timer that is armed and has not fired is due within one period.  A compare
\* value written into the past would be due only after mtime has wrapped.
DueWithinPeriod ==
    pc \in Armed /\ ~interrupt => Until(mtime, mtimecmp) <= Period

\* The line is up only for a compare value that has been reached: it falls with the
\* write of the register, for the handler's and for the start-up code's, which finds
\* it raised by the reset values, so no tick is counted twice or too early.
NoSpuriousTick ==
    (pc \in Armed /\ interrupt) \/ pc \in {"isr", "loaded"} => Lateness <= MaxLate

\* The kernel's count and the clock do not drift apart: every tick is one period
\* after the tick before it however late the handlers run.
NoDrift ==
    pc \in {"armed", "run", "isr", "loaded"} =>
        mtimecmp = (started + (ticks + 1) * Period) % Word

\* The inductive invariant.  Before the timer is armed the compare register holds
\* its reset value, which mtime has left behind; from then on the line tells on
\* which side of the compare value mtime is.
IInv ==
    /\ TypeOK
    /\ pc \notin Armed => mtimecmp = 0
    /\ pc = "read" => mtime # 0 /\ Until(reg, mtime) <= MaxLate
    /\ pc \in Armed /\ interrupt => Lateness \in 1 .. MaxLate
    /\ pc \in Armed /\ ~interrupt => Until(mtime, mtimecmp) <= Period
    /\ pc \in {"isr", "loaded"} => interrupt
    /\ pc = "loaded" => reg = mtimecmp
==============================================================================
