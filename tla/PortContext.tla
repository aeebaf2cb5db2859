---------------------------- MODULE PortContext ----------------------------
(***************************************************************************)
(* The context switch of the FreeRTOS port (portContext.h, portASM.S and   *)
(* the critical sections of portmacro.h; the FPU and the VPU are off in    *)
(* every FreeRTOSConfig.h).  A trap saves the registers of the running     *)
(* task in a frame on its stack and the top of that stack in its TCB; the  *)
(* kernel may choose another task; the restore takes the frame off the     *)
(* stack the TCB names and ends in mret.  The restore and                  *)
(* xPortStartFirstTask are modelled in steps, since it is mstatus that     *)
(* keeps interrupts out of the one and lets them into the other.           *)
(***************************************************************************)
EXTENDS TaskCode

VARIABLES cur,      \* pxCurrentTCB
          reg,      \* the integer registers but sp, gp and tp
          sp,       \* frames on the running task's stack, or IsrStack
          pc,       \* the instruction the processor is at
          mie,      \* mstatus.MIE
          mpie,     \* mstatus.MPIE
          mepc,
          nesting,  \* xCriticalNesting
          stack,    \* the frames of every task's stack, the oldest first
          top       \* pxTopOfStack of every task, as a number of frames
vars == <<cur, reg, sp, pc, mie, mpie, mepc, nesting, stack, top>>

CONSTANT NoTcb
ASSUME NoTcbAssumption == NoTcb \notin Tasks

IsrStack == 99
MaxFrames == 3      \* the frames a modelled stack has room for

\* The 31 words of a frame (portCONTEXT_SIZE): mepc and mstatus in words 0 and
\* 1, x1 in word 2, x5 to x31 in words 3 to 29, and the nesting count in 30.
SavedIn(r) == IF r = 1 THEN 2 ELSE r - 2
RegisterOf(w) == IF w = 2 THEN 1 ELSE w + 2
Words == 2 .. 29
LoadedFrom(f) == [r \in Registers |-> f.word[SavedIn(r)]]

Temporaries == {1} \cup (5 .. 7) \cup (10 .. 17) \cup (28 .. 31)
Clobbered(old, set) == [r \in Registers |-> IF r \in set THEN "junk" ELSE old[r]]

Boot == At("boot", 0)
StartLabels == {"load", "nesting", "pop", "ret"}
TrapLabels == {"exception", "interrupt", "restore", "loading", "mret"}
Created == {t \in Tasks : top[t] > 0}
InTask == pc.at \in {"run", "count", "leave"}

M_NewFrame == [pc |-> Entry, mie |-> mie, mpie |-> TRUE, nest |-> 0,     \* no andi
               word |-> [w \in Words |-> NewRegisters[RegisterOf(w)]]]
\* pxPortInitialiseStack: mstatus is the creator's, with MIE cleared and MPIE set.
NewFrame == [pc |-> Entry, mie |-> FALSE, mpie |-> TRUE, nest |-> 0,
             word |-> [w \in Words |-> NewRegisters[RegisterOf(w)]]]

EmptyFrame == [pc |-> Boot, mie |-> FALSE, mpie |-> FALSE, nest |-> 0,
               word |-> [w \in Words |-> "fill"]]

pxPortInitialiseStack(t) ==
  /\ pc = Boot \/ pc.at = "run"
  /\ top[t] = 0
  /\ stack' = [stack EXCEPT ![t][1] = NewFrame]
  /\ top' = [top EXCEPT ![t] = 1]
  /\ UNCHANGED <<cur, reg, sp, pc, mie, mpie, mepc, nesting>>

-----------------------------------------------------------------------------
(* xPortStartFirstTask, entered from xPortStartScheduler with interrupts off *)

Top == stack[cur][sp]

StartStatus(t) ==
  /\ pc = Boot
  /\ t \in Created
  /\ cur' = t
  /\ sp' = top[t]
  /\ LET f == stack[t][top[t]]
     IN  /\ reg' = [reg EXCEPT ![1] = IF f.pc = Entry THEN "code" ELSE "junk", ![5] = "junk"]
         /\ mie' = ~f.mie    \* addi 8 to a word whose MIE is clear
         /\ mpie' = f.mpie
  /\ pc' = At("load", 0)
  /\ UNCHANGED <<mepc, nesting, stack, top>>

StartLoad ==
  /\ pc.at = "load"
  /\ reg' = [r \in Registers |-> IF r \in {1, 5, 6} THEN reg[r] ELSE LoadedFrom(Top)[r]]
  /\ pc' = At("nesting", 0)
  /\ UNCHANGED <<cur, sp, mie, mpie, mepc, nesting, stack, top>>

StartNesting ==
  /\ pc.at = "nesting"
  /\ nesting' = Top.nest
  /\ reg' = [r \in Registers |-> IF r \in {5, 6} THEN LoadedFrom(Top)[r] ELSE reg[r]]
  /\ pc' = At("pop", 0)
  /\ UNCHANGED <<cur, sp, mie, mpie, mepc, stack, top>>

StartPop ==
  /\ pc.at = "pop"
  /\ sp' = sp - 1
  /\ pc' = At("ret", 0)
  /\ UNCHANGED <<cur, reg, mie, mpie, mepc, nesting, stack, top>>

StartReturn ==
  /\ pc.at = "ret"
  /\ pc' = IF reg[1] = "code" THEN Entry ELSE At("lost", 0)
  /\ UNCHANGED <<cur, reg, sp, mie, mpie, mepc, nesting, stack, top>>

-----------------------------------------------------------------------------
(* The trap handlers                                                       *)

\* What the hardware does on a trap, then portcontextSAVE_CONTEXT_INTERNAL,
\* the return address in word 0 and the switch to the interrupt stack.
\* Interrupts are off from the first of these instructions to the last.
Frame(return) ==
  [pc |-> return, mie |-> FALSE, mpie |-> mie, nest |-> nesting,
   word |-> [w \in Words |-> reg[RegisterOf(w)]]]

Trap(return, handler) ==
  /\ stack' = [stack EXCEPT ![cur][sp + 1] = Frame(return)]
  /\ top' = [top EXCEPT ![cur] = sp + 1]
  /\ mepc' = pc
  /\ mpie' = mie
  /\ mie' = FALSE
  /\ reg' = Clobbered(reg, {5, 10, 11})
  /\ sp' = IsrStack
  /\ pc' = At(handler, 0)
  /\ UNCHANGED <<cur, nesting>>

\* portYIELD: an exception returns behind the instruction that raised it.
portYIELD == pc.at = "run" /\ Trap(Advance(pc), "exception")

\* An interrupt may come before any instruction executed with MIE set.
Interrupt == mie /\ pc # Boot /\ sp < MaxFrames /\ Trap(pc, "interrupt")

\* An environment call switches; an interrupt switches if the tick or the
\* application's handler made another task ready, and the kernel says which.
\* The C functions called keep the saved registers and lose the temporaries.
vTaskSwitchContext ==
  /\ pc.at \in {"exception", "interrupt"}
  /\ cur' \in Created
  /\ reg' = Clobbered(reg, Temporaries)
  /\ pc' = At("restore", 0)
  /\ UNCHANGED <<sp, mie, mpie, mepc, nesting, stack, top>>

\* portcontextRESTORE_CONTEXT, up to its write of mstatus ...
RestoreStatus ==
  /\ pc.at = "restore"
  /\ sp' = top[cur]
  /\ LET f == stack[cur][top[cur]]
     IN  mepc' = f.pc /\ mie' = f.mie /\ mpie' = f.mpie
  /\ reg' = Clobbered(reg, {5, 6, 28})
  /\ pc' = At("loading", 0)
  /\ UNCHANGED <<cur, nesting, stack, top>>

\* ... from there to the release of the frame ...
M_RestoreRegisters ==       \* xCriticalNesting left as it was
  /\ pc.at = "loading"
  /\ reg' = LoadedFrom(Top)
  /\ sp' = sp - 1
  /\ pc' = At("mret", 0)
  /\ UNCHANGED <<cur, mie, mpie, mepc, nesting, stack, top>>
RestoreRegisters ==
  /\ pc.at = "loading"
  /\ nesting' = Top.nest
  /\ reg' = LoadedFrom(Top)
  /\ sp' = sp - 1
  /\ pc' = At("mret", 0)
  /\ UNCHANGED <<cur, mie, mpie, mepc, stack, top>>

\* ... and the return from the trap.
Mret ==
  /\ pc.at = "mret"
  /\ pc' = mepc
  /\ mie' = mpie
  /\ mpie' = TRUE
  /\ UNCHANGED <<cur, reg, sp, mepc, nesting, stack, top>>

-----------------------------------------------------------------------------
(* The instructions of the running task                                    *)

Live == [reg |-> reg, pc |-> pc, nest |-> nesting]

Executes(c, enable) ==
  /\ reg' = c.reg /\ pc' = c.pc /\ nesting' = c.nest
  /\ mie' = enable
  /\ UNCHANGED <<cur, sp, mpie, mepc, stack, top>>

TaskCompute ==
  /\ CanCompute(Live)
  /\ \E r \in Touched, v \in Values : Executes(Compute(Live, r, v), mie)

\* portENTER_CRITICAL: interrupts are off before the depth is counted.
EnterMask == CanMask(Live) /\ Executes(Mask(Live), FALSE)
EnterCount == CanCount(Live) /\ Executes(Count(Live), mie)

\* portEXIT_CRITICAL: interrupts come back with the outermost section alone.
ExitCount == CanUncount(Live) /\ Executes(Uncount(Live), mie)
M_ExitUnmask == CanLeave(Live) /\ Executes(Leave(Live), TRUE)
ExitUnmask == CanLeave(Live) /\ Executes(Leave(Live), IF nesting = 0 THEN TRUE ELSE mie)

-----------------------------------------------------------------------------
\* Before the scheduler starts xCriticalNesting is not zero; any value stands
\* for 0xaaaaaaaa, and NestMax is one the tasks have.
Init ==
  /\ cur = NoTcb
  /\ reg = [r \in Registers |-> "junk"]
  /\ sp = IsrStack
  /\ pc = Boot
  /\ mie = FALSE
  /\ mpie = FALSE
  /\ mepc = Boot
  /\ nesting = NestMax
  /\ stack = [t \in Tasks |-> [d \in 1 .. MaxFrames |-> EmptyFrame]]
  /\ top = [t \in Tasks |-> 0]

Start == (\E t \in Tasks : StartStatus(t)) \/ StartLoad \/ StartNesting \/ StartPop \/ StartReturn
Handle == vTaskSwitchContext \/ RestoreStatus \/ RestoreRegisters \/ Mret
Task == TaskCompute \/ EnterMask \/ EnterCount \/ ExitCount \/ ExitUnmask \/ portYIELD

Next ==
  \/ \E t \in Tasks : pxPortInitialiseStack(t)
  \/ Start
  \/ Interrupt
  \/ Handle
  \/ Task

Spec == Init /\ [][Next]_vars

-----------------------------------------------------------------------------
(* What a task owns, seen from outside: the processor while it runs, the   *)
(* frame its TCB points at otherwise; and, until xPortStartFirstTask has   *)
(* left it, the frame the first task was created with.                     *)

SavedAt(t, d) ==
  LET f == stack[t][d]
  IN  [reg |-> LoadedFrom(f), pc |-> f.pc, nest |-> f.nest]

Running(t) == t = cur /\ pc.at \notin TrapLabels
Context(t) == IF Running(t) THEN Live ELSE SavedAt(t, top[t])

EarlyLabels == {"load", "nesting", "pop"}
Early(t) == Context(t).pc.at \in EarlyLabels

ContextOf(t) ==
  IF Early(t) THEN SavedAt(t, 1)
  ELSE IF Context(t).pc.at = "ret" THEN [Context(t) EXCEPT !.pc = Entry]
  ELSE Context(t)

None == [pc |-> At("none", 0)]
Views == [t \in Tasks |-> IF t \in Created THEN ContextOf(t) ELSE None]
Entered == pc # Boot /\ \A t \in Created : ~Early(t)

View == INSTANCE TaskView WITH view <- Views, started <- Entered

\* Every task has a processor of its own: a task's registers, place and nesting
\* depth change by its own instructions alone, through any sequence of traps,
\* switches and nested interrupts of xPortStartFirstTask (portContext.h).
TaskSpec == View!Spec

Labels == StartLabels \cup TrapLabels \cup {"boot", "run", "count", "leave"}
Pcs == [at : Labels, n : 0 .. Length - 1]
Frames == [pc : Pcs, mie : BOOLEAN, mpie : BOOLEAN, nest : 0 .. NestMax, word : [Words -> Data]]

\* The state stays within its types; no return goes to a place that is not code.
TypeOK ==
  /\ cur \in Tasks \cup {NoTcb}
  /\ reg \in [Registers -> Data]
  /\ sp \in 0 .. MaxFrames \cup {IsrStack}
  /\ pc \in Pcs /\ mepc \in Pcs
  /\ mie \in BOOLEAN /\ mpie \in BOOLEAN
  /\ nesting \in 0 .. NestMax
  /\ stack \in [Tasks -> [1 .. MaxFrames -> Frames]]
  /\ top \in [Tasks -> 0 .. MaxFrames]

\* Interrupts are off exactly where the task that runs, or the handler, wants
\* them off: a task that another one preempted inside nothing, or that yielded
\* inside a critical section, finds them as it left them (MPIE, mret), and the
\* outermost exit alone lets them back in.
MaskedExactly ==
  /\ pc.at = "run" => (mie <=> nesting = 0)
  /\ pc.at \in {"count", "leave"} \cup TrapLabels => ~mie

\* A task's stack holds one frame, so what a task needs for the port is 31
\* words; the first task alone may need two, when an interrupt comes while
\* xPortStartFirstTask still reads its first frame with MIE set already.
OneFrame ==
  \A t \in Tasks : top[t] > 1 => top[t] = 2 /\ stack[t][2].pc.at \in EarlyLabels
=============================================================================
