--------------------------- MODULE TickTimerProofs ---------------------------
(***************************************************************************)
(* Proofs about the FreeRTOS tick: a handler that is late by less than one *)
(* period never loses a tick and never sees one too many, for every word   *)
(* length, period and lateness.                                            *)
(***************************************************************************)
EXTENDS TickTimer, Integers, TLAPS

(* Words on the circle of Word clocks.                                       *)

\* The sum of two words and the clocks between two words are words.
LEMMA WordsClosed ==
    ASSUME NEW a \in Words, NEW b \in Words
    PROVE  Plus(a, b) \in Words /\ Until(a, b) \in Words
BY WordAssumption DEF Words, Plus, Until

\* A clock brings mtime one closer to a value it has not reached.
LEMMA OneCloser ==
    ASSUME NEW a \in Words, NEW b \in Words, a # b
    PROVE  Until(Plus(a, 1), b) = Until(a, b) - 1
BY WordAssumption DEF Words, Plus, Until

\* A clock takes mtime one further from a value, short of a whole lap.
LEMMA OneFurther ==
    ASSUME NEW a \in Words, NEW b \in Words, Until(a, b) < Word - 1
    PROVE  Until(a, Plus(b, 1)) = Until(a, b) + 1
BY WordAssumption DEF Words, Plus, Until

\* What is left, at m, of a distance of p clocks from a.
LEMMA WhatIsLeft ==
    ASSUME NEW a \in Words, NEW m \in Words, NEW p \in Words, Until(a, m) <= p
    PROVE  Until(m, Plus(a, p)) = p - Until(a, m)
BY WordAssumption DEF Words, Plus, Until

-------------------------------------------------------------------------------
\* Reset: every register is zero and nothing is armed.
LEMMA InitIInv == Init => IInv
<1> SUFFICES ASSUME Init PROVE IInv
  OBVIOUS
<1>1. mtime = 0 /\ mtimecmp = 0 /\ reg = 0 /\ started = 0 /\ ticks = 0
  BY DEF Init, TimerInit
<1>2. pc = "reset" /\ interrupt = FALSE
  BY DEF Init, TimerInit
<1>3. 0 \in Words
  BY WordAssumption DEF Words
<1>4. pc \notin Armed
  BY <1>2 DEF Armed
<1>5. TypeOK
  BY <1>1, <1>2, <1>3 DEF TypeOK
<1> QED BY <1>1, <1>2, <1>4, <1>5 DEF IInv

\* What TypeOK says of each variable.
LEMMA Types ==
    ASSUME TypeOK
    PROVE  /\ mtime \in Words /\ mtimecmp \in Words /\ reg \in Words
           /\ started \in Words /\ ticks \in Words /\ interrupt \in BOOLEAN
           /\ pc \in {"reset", "cleared", "read"} \cup Armed
BY DEF TypeOK

\* The constants are words: a period, and the clocks a handler may be late.
LEMMA Sizes ==
    /\ 0 \in Words /\ 1 \in Words /\ Period \in Words /\ MaxLate \in Words
    /\ None \notin Words
BY WordAssumption, TickAssumption DEF Words, None

\* A clock that leaves the compare register alone.
LEMMA QuietClock ==
    ASSUME TypeOK, TimerClock(None)
    PROVE  /\ mtime' = Plus(mtime, 1) /\ mtimecmp' = mtimecmp
           /\ interrupt' \in BOOLEAN
           /\ interrupt' <=> (mtime = mtimecmp \/ interrupt)
<1>1. interrupt \in BOOLEAN
  BY Types
<1>2. interrupt' = Interrupt(None)
  BY DEF TimerClock
<1>3. Interrupt(None) <=> (mtime = mtimecmp \/ interrupt)
  BY DEF Interrupt
<1>4. Interrupt(None) \in BOOLEAN
  BY DEF Interrupt
<1>5. mtime' = Plus(mtime, 1) /\ mtimecmp' = mtimecmp
  BY DEF TimerClock
<1> QED BY <1>2, <1>3, <1>4, <1>5

\* A clock that writes the compare register.
LEMMA WritingClock ==
    ASSUME TypeOK, NEW w \in Words, TimerClock(w)
    PROVE  /\ mtime' = Plus(mtime, 1) /\ mtimecmp' = w
           /\ interrupt' = (mtime = mtimecmp)
<1>1. w # None
  BY Sizes
<1>2. Interrupt(w) = (mtime = mtimecmp)
  BY <1>1 DEF Interrupt
<1> QED BY <1>1, <1>2 DEF TimerClock

\* In a clock that leaves the compare register alone an armed timer counts down to
\* its value, raises the line, and is then late by one clock more.
LEMMA ArmedClock ==
    ASSUME IInv, MaxLate < Period, TimerClock(None), pc \in Armed,
           Lateness <= MaxLate => Lateness' <= MaxLate
    PROVE  /\ interrupt' => Lateness' \in 1 .. MaxLate
           /\ ~interrupt' => Until(mtime, mtimecmp)' <= Period
           /\ interrupt => interrupt'
<1> USE WordAssumption, TickAssumption
<1>0. TypeOK
  BY DEF IInv
<1>1. /\ mtime \in Words /\ mtimecmp \in Words /\ 1 \in Words
      /\ mtime' = Plus(mtime, 1) /\ mtimecmp' = mtimecmp
      /\ interrupt' <=> (mtime = mtimecmp \/ interrupt)
  BY <1>0, Types, Sizes, QuietClock
<1>2. mtime' \in Words
  BY <1>1, WordsClosed
<1>3. CASE interrupt
  <2>1. Lateness \in 1 .. MaxLate /\ Lateness' <= MaxLate
    BY <1>3 DEF IInv
  <2>3. CASE Until(mtimecmp, mtime) < Word - 1
    <3>1. Until(mtimecmp, Plus(mtime, 1)) = Until(mtimecmp, mtime) + 1
      BY <1>1, <2>3, OneFurther
    <3>2. Lateness' = Lateness + 1
      BY <1>1, <3>1 DEF Lateness
    <3> QED BY <1>1, <1>3, <2>1, <3>2
  <2> QED BY <2>1, <2>3 DEF Lateness
<1>4. CASE ~interrupt /\ mtime = mtimecmp
  <2>1. Until(mtimecmp, mtime) = 0
    BY <1>1, <1>4 DEF Until, Words
  <2>2. Until(mtimecmp, Plus(mtime, 1)) = 1
    BY <1>1, <2>1, OneFurther
  <2> QED BY <1>1, <1>4, <2>2 DEF Lateness
<1>5. CASE ~interrupt /\ mtime # mtimecmp
  <2>1. Until(mtime, mtimecmp) <= Period
    BY <1>5 DEF IInv
  <2>2. Until(Plus(mtime, 1), mtimecmp) = Until(mtime, mtimecmp) - 1
    BY <1>1, <1>5, OneCloser
  <2> QED BY <1>1, <1>5, <2>1, <2>2, WordsClosed DEF Words
<1> QED BY <1>3, <1>4, <1>5

\* A write of the compare register d clocks after the value it is computed from,
\* d less than a period, lowers the line and leaves the timer due within the period.
LEMMA ArmingWrite ==
    ASSUME IInv, MaxLate < Period,
           TimerClock(Plus(reg, Period)),
           mtime # mtimecmp, Until(reg, mtime) <= MaxLate
    PROVE  /\ interrupt' = FALSE
           /\ Until(mtime, mtimecmp)' <= Period
           /\ mtime' \in Words /\ mtimecmp' \in Words
<1> USE WordAssumption, TickAssumption
<1>0. TypeOK
  BY DEF IInv
<1>1. mtime \in Words /\ reg \in Words /\ Period \in Words /\ 1 \in Words
  BY <1>0, Types, Sizes
<1>2. Plus(reg, Period) \in Words
  BY <1>1, WordsClosed
<1>3. mtime' = Plus(mtime, 1) /\ mtimecmp' = Plus(reg, Period) /\ interrupt' = FALSE
  BY <1>0, <1>2, WritingClock
<1>4. mtime' \in Words
  BY <1>1, <1>3, WordsClosed
<1>5. Until(reg, mtime) \in Words
  BY <1>1, WordsClosed
<1>6. Until(mtime, Plus(reg, Period)) = Period - Until(reg, mtime)
  <2>1. Until(reg, mtime) <= Period
    BY <1>5 DEF Words
  <2> QED BY <1>1, <2>1, WhatIsLeft
<1>7. mtime # Plus(reg, Period)
  <2>1. SUFFICES ASSUME mtime = Plus(reg, Period) PROVE FALSE
    OBVIOUS
  <2>2. Until(mtime, mtime) = 0
    BY <1>1 DEF Until, Words
  <2>3. Period - Until(reg, mtime) = 0
    BY <1>6, <2>1, <2>2
  <2>4. Until(reg, mtime) = Period
    BY <1>5, <2>3 DEF Words
  <2> QED BY <2>4
<1>8. Until(Plus(mtime, 1), Plus(reg, Period)) = Until(mtime, Plus(reg, Period)) - 1
  BY <1>1, <1>2, <1>7, OneCloser
<1> QED BY <1>2, <1>3, <1>4, <1>5, <1>6, <1>8 DEF Words

-------------------------------------------------------------------------------
(* The steps.                                                                *)

\* Every step keeps the variables in their types.
LEMMA StepTypes ==
    ASSUME TypeOK, Next
    PROVE  TypeOK'
<1>1. /\ mtime \in Words /\ mtimecmp \in Words /\ reg \in Words
      /\ started \in Words /\ ticks \in Words /\ interrupt \in BOOLEAN
      /\ pc \in {"reset", "cleared", "read"} \cup Armed
  BY Types
<1>2. 0 \in Words /\ 1 \in Words /\ Period \in Words
  BY Sizes
<1>3. /\ Plus(mtime, 1) \in Words /\ Plus(reg, Period) \in Words
      /\ Plus(ticks, 1) \in Words
  BY <1>1, <1>2, WordsClosed
<1>4. mtime' \in Words /\ mtimecmp' \in Words /\ interrupt' \in BOOLEAN
  <2>1. CASE TimerClock(None)
    BY <1>1, <1>3, <2>1, QuietClock
  <2>2. ASSUME NEW w \in Words, TimerClock(w)
        PROVE  mtime' \in Words /\ mtimecmp' \in Words /\ interrupt' \in BOOLEAN
    BY <1>3, <2>2, WritingClock
  <2>3. \/ TimerClock(None)
        \/ TimerClock(0)
        \/ TimerClock(Plus(reg, Period))
    BY DEF Next, Idle, ClearCompare, ReadTime, SetCompare, EnableInterrupts, Trap,
           LoadCompare, StoreCompare, IncrementTick
  <2> QED BY <1>2, <1>3, <2>1, <2>2, <2>3
<1>5. reg' \in {reg, mtime, mtimecmp} /\ started' \in {started, reg}
      /\ ticks' \in {ticks, Plus(ticks, 1)}
  BY DEF Next, Idle, ClearCompare, ReadTime, SetCompare, EnableInterrupts, Trap,
         LoadCompare, Loaded, StoreCompare, IncrementTick, softVars
<1>6. pc' \in {"reset", "cleared", "read"} \cup Armed
  BY <1>1
  DEF Next, Idle, ClearCompare, ReadTime, SetCompare, EnableInterrupts, Trap,
      LoadCompare, StoreCompare, IncrementTick, softVars, Armed
<1> QED BY <1>1, <1>3, <1>4, <1>5, <1>6 DEF TypeOK

\* The steps of the start-up code, up to the write that arms the timer.
LEMMA StartStep ==
    ASSUME IInv, MaxLate < Period, pc \notin Armed,
           Idle \/ ClearCompare \/ ReadTime \/ SetCompare
    PROVE  IInv'
<1>1. TypeOK /\ TypeOK'
  BY StepTypes DEF IInv, Next
<1>2. mtimecmp = 0
  BY DEF IInv
<1>3. CASE Idle
  <2>1. TimerClock(None) /\ pc' = pc /\ reg' = reg /\ InTime
    BY <1>3 DEF Idle, softVars
  <2>2. mtimecmp' = 0 /\ mtime' # 0
    BY <1>1, <1>2, <2>1, QuietClock DEF InTime
  <2>3. pc' \notin Armed /\ (pc = "read" => Until(reg, mtime)' <= MaxLate)
    BY <2>1 DEF InTime, Armed
  <2> QED BY <1>1, <2>1, <2>2, <2>3 DEF IInv, Armed
<1>4. CASE ClearCompare
  <2>1. TimerClock(0) /\ pc' = "cleared"
    BY <1>4 DEF ClearCompare
  <2>2. mtimecmp' = 0
    BY <1>1, <2>1, Sizes, WritingClock
  <2> QED BY <1>1, <2>1, <2>2 DEF IInv, Armed
<1>5. CASE ReadTime
  <2>1. TimerClock(None) /\ pc' = "read" /\ reg' = mtime /\ InTime
    BY <1>5 DEF ReadTime
  <2>2. mtimecmp' = 0 /\ mtime' # 0 /\ mtime' = Plus(mtime, 1)
    BY <1>1, <1>2, <2>1, QuietClock DEF InTime
  <2>3. Until(mtime, Plus(mtime, 1)) = 1
    BY <1>1, Types, WordAssumption, TickAssumption DEF Until, Plus, Words
  <2>4. Until(reg, mtime)' <= MaxLate
    BY <2>1, <2>2, <2>3, TickAssumption
  <2> QED BY <1>1, <2>1, <2>2, <2>4 DEF IInv, Armed
<1>6. CASE SetCompare
  <2>1. TimerClock(Plus(reg, Period)) /\ pc = "read" /\ pc' = "armed"
    BY <1>6 DEF SetCompare
  <2>2. mtime # mtimecmp /\ Until(reg, mtime) <= MaxLate
    BY <1>2, <2>1 DEF IInv
  <2>3. interrupt' = FALSE /\ Until(mtime, mtimecmp)' <= Period
    BY <2>1, <2>2, ArmingWrite
  <2> QED BY <1>1, <2>1, <2>3 DEF IInv, Armed
<1> QED BY <1>3, <1>4, <1>5, <1>6

\* The steps of an armed timer that leave the compare register alone.
LEMMA QuietStep ==
    ASSUME IInv, MaxLate < Period, pc \in Armed,
           Idle \/ EnableInterrupts \/ Trap \/ LoadCompare \/ IncrementTick
    PROVE  IInv'
<1>1. TypeOK /\ TypeOK'
  BY StepTypes DEF IInv, Next
<1>2. TimerClock(None) /\ InTime
  BY DEF Idle, EnableInterrupts, Trap, LoadCompare, IncrementTick
<1>3. pc' \in Armed
  BY DEF Idle, EnableInterrupts, Trap, LoadCompare, IncrementTick, softVars, Armed
<1>4. Lateness <= MaxLate => Lateness' <= MaxLate
  <2>1. Lateness <= MaxLate => Lateness' + StepsLeft' <= MaxLate
    BY <1>2 DEF InTime
  <2>2. StepsLeft' \in 0 .. 3
    BY DEF StepsLeft
  <2>3. Lateness' \in Words
    BY <1>1, WordsClosed DEF TypeOK, Lateness
  <2>4. \A late \in Words, steps \in 0 .. 3 : late + steps <= MaxLate => late <= MaxLate
    BY WordAssumption, TickAssumption DEF Words
  <2> QED BY <2>1, <2>2, <2>3, <2>4
<1>5. /\ interrupt' => Lateness' \in 1 .. MaxLate
      /\ ~interrupt' => Until(mtime, mtimecmp)' <= Period
      /\ interrupt => interrupt'
  BY <1>2, <1>4, ArmedClock
<1>6. pc' \in {"isr", "loaded"} => interrupt
  BY DEF Idle, EnableInterrupts, Trap, LoadCompare, IncrementTick, softVars, IInv
<1>7. pc' = "loaded" => reg' = mtimecmp'
  <2>1. mtimecmp' = mtimecmp
    BY <1>1, <1>2, QuietClock
  <2> QED
    BY <2>1 DEF Idle, EnableInterrupts, Trap, LoadCompare, IncrementTick, softVars,
                Loaded, IInv
<1>8. pc' \in {"isr", "loaded"} => interrupt'
  BY <1>5, <1>6
<1>9. pc' # "read"
  BY <1>3 DEF Armed
<1> QED BY <1>1, <1>3, <1>5, <1>7, <1>8, <1>9 DEF IInv

\* The handler's write of the compare register.
LEMMA StoreStep ==
    ASSUME IInv, MaxLate < Period, StoreCompare
    PROVE  IInv'
<1>1. TypeOK /\ TypeOK'
  BY StepTypes DEF IInv, Next
<1>2. TimerClock(Plus(reg, Period)) /\ pc = "loaded" /\ pc' = "stored"
  BY DEF StoreCompare
<1>3. reg = mtimecmp /\ Lateness \in 1 .. MaxLate
  BY <1>2 DEF IInv, Armed
<1>4. mtime # mtimecmp
  BY <1>1, <1>3, Types DEF Lateness, Until, Words
<1>5. Until(reg, mtime) <= MaxLate
  BY <1>3, TickAssumption DEF Lateness
<1>6. interrupt' = FALSE /\ Until(mtime, mtimecmp)' <= Period
  BY <1>2, <1>4, <1>5, ArmingWrite
<1> QED BY <1>1, <1>2, <1>6 DEF IInv, Armed

\* The invariant is kept by every step of the clock.
LEMMA NextIInv ==
    ASSUME IInv, MaxLate < Period, [Next]_vars
    PROVE  IInv'
<1>1. CASE UNCHANGED vars
  BY <1>1 DEF vars, timerVars, softVars, IInv, TypeOK, Lateness
<1>2. CASE Idle
  BY <1>2, StartStep, QuietStep
<1>3. CASE ClearCompare \/ ReadTime \/ SetCompare
  <2>1. pc \notin Armed
    BY <1>3 DEF ClearCompare, ReadTime, SetCompare, Armed
  <2> QED BY <1>3, <2>1, StartStep
<1>4. CASE EnableInterrupts \/ Trap \/ LoadCompare \/ IncrementTick
  <2>1. pc \in Armed
    BY <1>4 DEF EnableInterrupts, Trap, LoadCompare, IncrementTick, Armed
  <2> QED BY <1>4, <2>1, QuietStep
<1>5. CASE StoreCompare
  BY <1>5, StoreStep
<1> QED BY <1>1, <1>2, <1>3, <1>4, <1>5 DEF Next

-------------------------------------------------------------------------------
(* The theorems.                                                             *)

\* The inductive invariant holds whenever the software answers the timer within
\* less than a period (freertos_risc_v_mtimer_interrupt_handler).
THEOREM TickInvariant ==
    ASSUME MaxLate < Period
    PROVE  Spec => []IInv
<1>1. IInv /\ [Next]_vars => IInv'
  BY NextIInv
<1> QED BY InitIInv, <1>1, PTL DEF Spec

\* Type correctness: the registers and the tick count stay words.
THEOREM TickTypeCorrect ==
    ASSUME MaxLate < Period
    PROVE  Spec => []TypeOK
<1>1. IInv => TypeOK
  BY DEF IInv
<1> QED BY TickInvariant, <1>1, PTL

\* mtimecmp is never written into the past: an armed timer fires within a period.
THEOREM TickIsDue ==
    ASSUME MaxLate < Period
    PROVE  Spec => []DueWithinPeriod
<1>1. IInv => DueWithinPeriod
  BY DEF IInv, DueWithinPeriod
<1> QED BY TickInvariant, <1>1, PTL

\* The interrupt line of mtime32 is up only for a compare value that was reached,
\* and the handler always finds it so.
THEOREM TickIsNotSpurious ==
    ASSUME MaxLate < Period
    PROVE  Spec => []NoSpuriousTick
<1>1. IInv => NoSpuriousTick
  <2> SUFFICES ASSUME IInv, (pc \in Armed /\ interrupt) \/ pc \in {"isr", "loaded"}
               PROVE  Lateness <= MaxLate
    BY DEF NoSpuriousTick
  <2>1. pc \in Armed /\ interrupt
    BY DEF IInv, Armed
  <2> QED BY <2>1, TickAssumption DEF IInv
<1> QED BY TickInvariant, <1>1, PTL
-------------------------------------------------------------------------------
(* No drift.                                                                 *)

\* The compare value is the start plus a number of periods, up to whole laps: one
\* period more than the ticks counted, and one more between the handler's write and
\* its count.
OnBeat(n) == \E laps \in Int : mtimecmp + laps * Word = started + n * Period

BeatInv ==
    /\ pc \notin Armed => ticks = 0
    /\ pc \in Armed \ {"stored"} => OnBeat(ticks + 1)
    /\ pc = "stored" => OnBeat(ticks + 2)

\* The word that is some laps short of a number is its remainder.
LEMMA Remainder ==
    ASSUME NEW r \in Words, NEW laps \in Nat
    PROVE  (laps * Word + r) % Word = r
BY WordAssumption DEF Words

\* A period later is one period more, up to a lap.
LEMMA NextBeat ==
    ASSUME NEW a \in Words, NEW laps \in Int, NEW n \in Nat, NEW s \in Words,
           a + laps * Word = s + n * Period
    PROVE  \E l \in Int : Plus(a, Period) + l * Word = s + (n + 1) * Period
<1> USE WordAssumption, TickAssumption
<1>1. n * Period \in Nat /\ (n + 1) * Period = n * Period + Period
  OBVIOUS
<1>2. laps * Word \in Int /\ (laps + 1) * Word = laps * Word + Word
  OBVIOUS
<1>3. CASE a + Period < Word
  <2>1. Plus(a, Period) = a + Period
    BY <1>3 DEF Plus
  <2>2. Plus(a, Period) + laps * Word = s + (n + 1) * Period
    BY <1>1, <1>2, <2>1 DEF Words
  <2> QED BY <2>2
<1>4. CASE ~ (a + Period < Word)
  <2>1. Plus(a, Period) = a + Period - Word
    BY <1>4 DEF Plus
  <2>2. Plus(a, Period) + (laps + 1) * Word = s + (n + 1) * Period
    BY <1>1, <1>2, <2>1 DEF Words
  <2>3. laps + 1 \in Int
    OBVIOUS
  <2> QED BY <2>2, <2>3
<1> QED BY <1>3, <1>4

\* The kernel's count wraps with the clock: a lap of the count is Period laps of mtime.
LEMMA CountWraps ==
    ASSUME NEW t \in Words, NEW laps \in Int, mtimecmp \in Words, started \in Words,
           mtimecmp + laps * Word = started + (t + 2) * Period
    PROVE  OnBeat(Plus(t, 1) + 1)
<1> USE WordAssumption, TickAssumption
<1>1. CASE t + 1 < Word
  <2>1. Plus(t, 1) + 1 = t + 2
    BY <1>1 DEF Plus, Words
  <2> QED BY <2>1 DEF OnBeat
<1>2. CASE ~ (t + 1 < Word)
  <2>1. t = Word - 1 /\ Plus(t, 1) + 1 = 1
    BY <1>2 DEF Plus, Words
  <2>2. (t + 2) * Period = Period * Word + Period
    BY <2>1
  <2>3. laps * Word \in Int /\ Period * Word \in Int /\ (laps - Period) * Word = laps * Word - Period * Word
    OBVIOUS
  <2>4. mtimecmp + (laps - Period) * Word = started + 1 * Period
    BY <2>2, <2>3 DEF Words
  <2>5. laps - Period \in Int
    OBVIOUS
  <2> QED BY <2>1, <2>4, <2>5 DEF OnBeat
<1> QED BY <1>1, <1>2

\* Every step keeps the compare value on the beat.
LEMMA BeatStep ==
    ASSUME IInv, BeatInv, [Next]_vars
    PROVE  BeatInv'
<1>0. TypeOK
  BY DEF IInv
<1>1. CASE UNCHANGED vars
  BY <1>1 DEF vars, timerVars, softVars, BeatInv, OnBeat
<1>2. CASE Idle \/ EnableInterrupts \/ Trap \/ LoadCompare
  <2>1. mtimecmp' = mtimecmp /\ started' = started /\ ticks' = ticks
    BY <1>0, <1>2, QuietClock DEF Idle, EnableInterrupts, Trap, LoadCompare, softVars
  <2>2. (pc' \in Armed <=> pc \in Armed) /\ (pc' = "stored" <=> pc = "stored")
    BY <1>2 DEF Idle, EnableInterrupts, Trap, LoadCompare, softVars, Armed
  <2>3. \A n : OnBeat(n)' <=> OnBeat(n)
    BY <2>1 DEF OnBeat
  <2> QED BY <2>1, <2>2, <2>3 DEF BeatInv, OnBeat
<1>3. CASE ClearCompare \/ ReadTime
  BY <1>3 DEF ClearCompare, ReadTime, BeatInv, Armed
<1>4. CASE SetCompare
  <2>1. pc = "read" /\ pc' = "armed" /\ started' = reg /\ ticks' = ticks
    BY <1>4 DEF SetCompare
  <2>2. ticks' = 0
    BY <2>1 DEF BeatInv, Armed
  <2>3. reg \in Words /\ mtimecmp' = Plus(reg, Period)
    BY <1>0, <1>4, Types, Sizes, WordsClosed, WritingClock DEF SetCompare
  <2>4. reg + 0 * Word = reg + 0 * Period
    BY WordAssumption, TickAssumption
  <2>5. \E l \in Int : Plus(reg, Period) + l * Word = reg + (0 + 1) * Period
    BY <2>3, <2>4, NextBeat
  <2>6. \E l \in Int : mtimecmp' + l * Word = started' + (ticks' + 1) * Period
    BY <2>1, <2>2, <2>3, <2>5
  <2> QED BY <2>1, <2>6 DEF BeatInv, OnBeat, Armed
<1>5. CASE StoreCompare
  <2>1. /\ pc = "loaded" /\ pc' = "stored" /\ started' = started /\ ticks' = ticks
        /\ reg = mtimecmp
    BY <1>5 DEF StoreCompare, IInv
  <2>2. /\ mtimecmp \in Words /\ started \in Words /\ ticks \in Words
        /\ mtimecmp' = Plus(mtimecmp, Period)
    BY <1>0, <1>5, <2>1, Types, Sizes, WordsClosed, WritingClock DEF StoreCompare
  <2>3. PICK laps \in Int : mtimecmp + laps * Word = started + (ticks + 1) * Period
    BY <2>1 DEF BeatInv, OnBeat, Armed
  <2>4. ticks + 1 \in Nat /\ (ticks + 1) + 1 = ticks + 2
    BY <2>2, WordAssumption DEF Words
  <2>5. \E l \in Int : Plus(mtimecmp, Period) + l * Word = started + ((ticks + 1) + 1) * Period
    BY <2>2, <2>3, <2>4, NextBeat
  <2>6. \E l \in Int : mtimecmp' + l * Word = started' + (ticks' + 2) * Period
    BY <2>1, <2>2, <2>4, <2>5
  <2> QED BY <2>1, <2>6 DEF BeatInv, OnBeat, Armed
<1>6. CASE IncrementTick
  <2>1. /\ pc = "stored" /\ pc' = "run" /\ started' = started /\ ticks' = Plus(ticks, 1)
        /\ mtimecmp' = mtimecmp
    BY <1>0, <1>6, QuietClock DEF IncrementTick
  <2>2. mtimecmp \in Words /\ started \in Words /\ ticks \in Words
    BY <1>0, Types
  <2>3. PICK laps \in Int : mtimecmp + laps * Word = started + (ticks + 2) * Period
    BY <2>1 DEF BeatInv, OnBeat
  <2>4. OnBeat(Plus(ticks, 1) + 1)
    BY <2>2, <2>3, CountWraps
  <2>5. \E l \in Int : mtimecmp' + l * Word = started' + (ticks' + 1) * Period
    BY <2>1, <2>4 DEF OnBeat
  <2> QED BY <2>1, <2>5 DEF BeatInv, OnBeat, Armed
<1> QED BY <1>1, <1>2, <1>3, <1>4, <1>5, <1>6 DEF Next

\* On the beat is where NoDrift wants the compare value.
LEMMA BeatIsNoDrift ==
    ASSUME TypeOK, BeatInv
    PROVE  NoDrift
<1> USE WordAssumption, TickAssumption
<1> SUFFICES ASSUME pc \in {"armed", "run", "isr", "loaded"}
             PROVE  mtimecmp = (started + (ticks + 1) * Period) % Word
  BY DEF NoDrift
<1>1. PICK laps \in Int : mtimecmp + laps * Word = started + (ticks + 1) * Period
  BY DEF BeatInv, OnBeat, Armed
<1>2. mtimecmp \in Words /\ started \in Words /\ ticks \in Words
  BY Types
<1>3. (ticks + 1) * Period \in Nat
  BY <1>2 DEF Words
<1>4. laps * Word \in Int /\ laps * Word > 0 - Word
  BY <1>1, <1>2, <1>3 DEF Words
<1>5. laps \in Nat
  <2>1. SUFFICES ASSUME laps <= 0 - 1 PROVE FALSE
    OBVIOUS
  <2>2. laps * Word <= 0 - Word
    BY <2>1
  <2> QED BY <1>4, <2>2
<1>6. (laps * Word + mtimecmp) % Word = mtimecmp
  BY <1>2, <1>5, Remainder
<1>7. laps * Word + mtimecmp = started + (ticks + 1) * Period
  BY <1>1, <1>2, <1>4 DEF Words
<1> QED BY <1>6, <1>7

\* However late the handlers run, each tick is due one period after the tick before it,
\* also when the clock or the count wraps.
THEOREM TickDoesNotDrift ==
    ASSUME MaxLate < Period
    PROVE  Spec => []NoDrift
<1>1. Init => BeatInv
  BY DEF Init, BeatInv, Armed
<1>2. IInv /\ BeatInv /\ [Next]_vars => BeatInv'
  BY BeatStep
<1>3. IInv /\ BeatInv => NoDrift
  BY BeatIsNoDrift DEF IInv
<1> QED BY <1>1, <1>2, <1>3, TickInvariant, PTL DEF Spec
==============================================================================
