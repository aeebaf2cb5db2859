------------------------- MODULE PortContextProofs -------------------------
(***************************************************************************)
(* The context switch, for any tasks, registers' values, length of a loop  *)
(* and depth of critical sections: the state stays within its types,       *)
(* interrupts are masked exactly where they should be, a stack holds one   *)
(* frame, and every task has a processor of its own.                       *)
(***************************************************************************)
EXTENDS PortContext, TLAPS

Resumable == {"run"} \cup StartLabels

\* How many frames a task has on its stack, itself among them, when it stops here.
DepthOf(p) == IF p.at \in EarlyLabels THEN 2 ELSE 1

\* What holds of a context and of the interrupts it runs with.
Sane(c, enabled) ==
  /\ c.pc.at \in StartLabels => enabled /\ c.reg[1] = "code"
  /\ c.pc.at \in {"nesting", "pop", "ret"} =>
       \A r \in Registers \ {1, 5, 6} : c.reg[r] = NewRegisters[r]
  /\ c.pc.at \in {"pop", "ret"} =>
       c.nest = 0 /\ c.reg[5] = NewRegisters[5] /\ c.reg[6] = NewRegisters[6]
  /\ c.pc.at = "run" => (enabled <=> c.nest = 0)
  /\ c.pc.at \in {"count", "leave"} => ~enabled
  /\ c.pc.at = "count" => c.nest < NestMax

\* A task that waits: its last frame is one it can be resumed from.
Waits(t) ==
  LET f == stack[t][top[t]]
  IN  /\ top[t] = DepthOf(f.pc)
      /\ f.pc.at \in Resumable /\ ~f.mie
      /\ Sane(SavedAt(t, top[t]), f.mpie)
      /\ top[t] = 2 => stack[t][1] = NewFrame

\* The task that runs: no frame of its own but the one it was created with.
Runs ==
  /\ cur \in Created
  /\ sp = DepthOf(pc) - 1
  /\ Sane(Live, mie)
  /\ top[cur] = 2 => stack[cur][2].pc.at \in EarlyLabels
  /\ pc.at \in EarlyLabels => stack[cur][1] = NewFrame

\* The handler, which restores the context of the task that runs next.
Handles ==
  /\ cur \in Created
  /\ ~mie
  /\ LET f == stack[cur][top[cur]]
     IN  /\ pc.at = "loading" => sp = top[cur] /\ mepc = f.pc /\ mpie = f.mpie
         /\ pc.at = "mret" =>
              /\ sp = top[cur] - 1 /\ mepc = f.pc /\ mpie = f.mpie
              /\ reg = LoadedFrom(f) /\ nesting = f.nest

Boots ==
  /\ cur = NoTcb
  /\ \A t \in Created : top[t] = 1 /\ stack[t][1] = NewFrame

OneEarly == \A t, u \in Created : Early(t) /\ Early(u) => t = u

IInv ==
  /\ TypeOK
  /\ \A t \in Tasks : top[t] \in 0 .. 2
  /\ pc.at = "boot" => pc = Boot /\ Boots
  /\ pc.at \in TrapLabels => Handles
  /\ pc.at \notin TrapLabels \cup {"boot"} => Runs
  /\ \A t \in Created : Running(t) \/ Waits(t)
  /\ OneEarly

-----------------------------------------------------------------------------
(* The frames                                                              *)

\* The words of a frame stand for the registers, one for one.
LEMMA WordsAreRegisters ==
  /\ \A r \in Registers : SavedIn(r) \in Words /\ RegisterOf(SavedIn(r)) = r
  /\ \A w \in Words : RegisterOf(w) \in Registers
BY DEF Registers, SavedIn, Words, RegisterOf

\* What is loaded from a frame is what was saved in it.
LEMMA LoadsWhatWasSaved ==
  ASSUME NEW old, old \in [Registers -> Data], NEW f,
         f.word = [w \in Words |-> old[RegisterOf(w)]]
  PROVE  LoadedFrom(f) = old
BY WordsAreRegisters DEF LoadedFrom

LEMMA LoadedType ==
  ASSUME NEW f \in Frames
  PROVE  LoadedFrom(f) \in [Registers -> Data]
BY WordsAreRegisters DEF LoadedFrom, Frames

LEMMA PcTypes ==
  /\ Boot \in Pcs /\ Entry \in Pcs
  /\ \A label \in Labels : At(label, 0) \in Pcs
  /\ \A p \in Pcs : Advance(p) \in Pcs /\ Advance(p).at = "run"
  /\ \A p \in Pcs, label \in Labels : At(label, p.n) \in Pcs
  /\ \A p : At(p, 0).at = p
<1>1. 0 \in 0 .. Length - 1
  BY CodeAssumption
<1>2. \A n \in 0 .. Length - 1 : (n + 1) % Length \in 0 .. Length - 1
  BY CodeAssumption
<1> QED
  BY <1>1, <1>2 DEF Boot, Entry, Pcs, Labels, StartLabels, TrapLabels, At, Advance

LEMMA NewRegistersType ==
  /\ NewRegisters \in [Registers -> Data]
  /\ NewRegisters[1] = "return"
BY DEF NewRegisters, Registers, Data

\* The frame of a new task is one, and holds the context of a new task.
LEMMA NewFrameIsNew ==
  /\ NewFrame \in Frames
  /\ NewFrame.pc = Entry /\ ~NewFrame.mie /\ NewFrame.mpie /\ NewFrame.nest = 0
  /\ LoadedFrom(NewFrame) = NewRegisters
<1>1. NewFrame \in Frames
  BY WordsAreRegisters, NewRegistersType, PcTypes, CodeAssumption DEF NewFrame, Frames
<1>2. LoadedFrom(NewFrame) = NewRegisters
  BY NewRegistersType, LoadsWhatWasSaved DEF NewFrame
<1> QED
  BY <1>1, <1>2 DEF NewFrame

LEMMA EmptyFrameType == EmptyFrame \in Frames
BY PcTypes, CodeAssumption DEF EmptyFrame, Frames, Data

LEMMA ClobberedType ==
  ASSUME NEW old \in [Registers -> Data], NEW set
  PROVE  Clobbered(old, set) \in [Registers -> Data]
BY DEF Clobbered, Data

-----------------------------------------------------------------------------
(* Type correctness.                                                       *)

USE CodeAssumption, NoTcbAssumption DEF MaxFrames, IsrStack

LEMMA FrameType ==
  ASSUME TypeOK, NEW p \in Pcs
  PROVE  Frame(p) \in Frames /\ LoadedFrom(Frame(p)) = reg
<1>1. Frame(p) \in Frames
  BY WordsAreRegisters DEF Frame, Frames, TypeOK
<1>2. LoadedFrom(Frame(p)) = reg
  BY LoadsWhatWasSaved DEF Frame, TypeOK
<1> QED
  BY <1>1, <1>2

LEMMA FrameAt ==
  ASSUME TypeOK, NEW t \in Tasks, NEW d \in 1 .. MaxFrames
  PROVE  /\ stack[t][d] \in Frames
         /\ LoadedFrom(stack[t][d]) \in [Registers -> Data]
BY LoadedType DEF TypeOK

\* What a trap does, wherever the processor is in its task.
LEMMA TrapTypes ==
  ASSUME TypeOK, cur \in Tasks, sp \in 0 .. 1, NEW p \in Pcs,
         NEW handler \in {"exception", "interrupt"}, Trap(p, handler)
  PROVE  TypeOK'
<1>1. /\ stack' = [stack EXCEPT ![cur][sp + 1] = Frame(p)]
      /\ top' = [top EXCEPT ![cur] = sp + 1]
      /\ mepc' = pc /\ mpie' = mie /\ mie' = FALSE
      /\ reg' = Clobbered(reg, {5, 10, 11})
      /\ sp' = IsrStack
      /\ pc' = At(handler, 0)
      /\ cur' = cur /\ nesting' = nesting
  BY DEF Trap
<1>2. stack' \in [Tasks -> [1 .. MaxFrames -> Frames]]
  BY <1>1, FrameType DEF TypeOK
<1>3. reg' \in [Registers -> Data]
  BY <1>1, ClobberedType DEF TypeOK
<1>4. pc' \in Pcs
  BY <1>1, PcTypes DEF Labels, TrapLabels
<1>5. top' \in [Tasks -> 0 .. MaxFrames]
  BY <1>1 DEF TypeOK
<1> QED
  BY <1>1, <1>2, <1>3, <1>4, <1>5 DEF TypeOK

-----------------------------------------------------------------------------
(* The inductive invariant.                                                *)

\* A step of the running task leaves the stacks alone, so of the others it
\* disturbs nothing.
LEMMA LiveStep ==
  ASSUME IInv, TypeOK', UNCHANGED <<cur, stack, top>>,
         pc.at \notin TrapLabels \cup {"boot"}, pc'.at \notin TrapLabels \cup {"boot"},
         pc'.at \in EarlyLabels => pc.at \in EarlyLabels,
         sp' = DepthOf(pc') - 1,
         Sane(Live, mie)'
  PROVE  IInv'
<1>1. Runs /\ Created' = Created
  BY DEF IInv, Created
<1>2. Runs'
  BY <1>1 DEF Runs
<1>3. \A t \in Created : Running(t)' <=> Running(t)
  BY DEF Running
<1>4. \A t \in Created : Waits(t)' <=> Waits(t)
  BY DEF Waits, SavedAt
<1>5. \A t \in Created : Early(t)' => Early(t)
  BY DEF Early, Context, Running, Live, SavedAt
<1> QED
  BY <1>1, <1>2, <1>3, <1>4, <1>5 DEF IInv, OneEarly

LEMMA InitIInv == Init => IInv
<1> SUFFICES ASSUME Init PROVE IInv
  OBVIOUS
<1>1. TypeOK
  <2>1. reg \in [Registers -> Data]
    BY DEF Init, Data
  <2>2. stack \in [Tasks -> [1 .. MaxFrames -> Frames]]
    BY EmptyFrameType DEF Init
  <2>3. top \in [Tasks -> 0 .. MaxFrames]
    BY DEF Init
  <2> QED
    <3>1. cur \in Tasks \cup {NoTcb} /\ sp \in 0 .. MaxFrames \cup {IsrStack}
      BY DEF Init
    <3>2. pc \in Pcs /\ mepc \in Pcs /\ nesting \in 0 .. NestMax
      BY PcTypes DEF Init
    <3>3. mie \in BOOLEAN /\ mpie \in BOOLEAN
      BY DEF Init
    <3> QED
      BY <2>1, <2>2, <2>3, <3>1, <3>2, <3>3 DEF TypeOK
<1>2. Created = {} /\ pc = Boot /\ pc.at = "boot"
  BY DEF Init, Created, Boot, At
<1>3. Boots
  BY <1>2 DEF Boots, Init
<1> QED
  BY <1>1, <1>2, <1>3 DEF IInv, Init, OneEarly, TrapLabels

LEMMA CreateStep ==
  ASSUME IInv, NEW t \in Tasks, pxPortInitialiseStack(t)
  PROVE  IInv'
<1>1. /\ stack' = [stack EXCEPT ![t][1] = NewFrame]
      /\ top' = [top EXCEPT ![t] = 1]
      /\ top[t] = 0
      /\ UNCHANGED <<cur, reg, sp, pc, mie, mpie, mepc, nesting>>
  BY DEF pxPortInitialiseStack
<1>2. TypeOK'
  BY <1>1, NewFrameIsNew DEF IInv, TypeOK
<1>3. /\ stack'[t][1] = NewFrame /\ top'[t] = 1
      /\ \A u \in Tasks \ {t} : stack'[u] = stack[u] /\ top'[u] = top[u]
      /\ t \notin Created /\ Created' = Created \cup {t}
  BY <1>1 DEF IInv, TypeOK, Created
<1>4. pc.at \in {"boot", "run"}
  BY DEF pxPortInitialiseStack, Boot, At
<1>5. pc.at = "boot" => Boots'
  BY <1>1, <1>3 DEF IInv, Boots
<1>6. pc.at = "run" => Runs'
  BY <1>1, <1>3 DEF IInv, Runs, TrapLabels, Live, EarlyLabels
<1>7. Entry.at = "run"
  BY PcTypes DEF Entry
<1>8. Waits(t)'
  <2>1. SavedAt(t, 1)' = [reg |-> NewRegisters, pc |-> Entry, nest |-> 0]
    BY <1>3, NewFrameIsNew DEF SavedAt
  <2> QED
    BY <2>1, <1>3, <1>7, NewFrameIsNew DEF Waits, DepthOf, EarlyLabels, Resumable, Sane, StartLabels
<1>9. \A u \in Created : Running(u) \/ Waits(u)'
  BY <1>3 DEF IInv, Waits, SavedAt, Created
<1>10. \A u \in Created : Running(u)' <=> Running(u)
  BY <1>1 DEF Running
<1>11. \A u \in Created : Early(u)' => Early(u)
  BY <1>1, <1>3 DEF Early, Context, Running, Live, SavedAt, Created
<1>12. ~Early(t)'
  BY <1>1, <1>3, <1>4, <1>7, NewFrameIsNew DEF Early, Context, Running, Live, SavedAt, EarlyLabels
<1> QED
  BY <1>1, <1>2, <1>3, <1>4, <1>5, <1>6, <1>8, <1>9, <1>10, <1>11, <1>12
     DEF IInv, OneEarly, TrapLabels

LEMMA StartStatusStep ==
  ASSUME IInv, NEW t \in Tasks, StartStatus(t)
  PROVE  IInv'
<1>1. /\ pc = Boot /\ pc.at = "boot" /\ Boots
      /\ t \in Created
      /\ UNCHANGED <<stack, top, mepc, nesting>>
  BY DEF StartStatus, Boot, At, IInv
<1>2. top[t] = 1 /\ stack[t][1] = NewFrame
  BY <1>1 DEF Boots
<1>3. /\ cur' = t /\ sp' = 1 /\ mie' = TRUE /\ mpie' = TRUE
      /\ reg' = [reg EXCEPT ![1] = "code", ![5] = "junk"]
      /\ pc' = At("load", 0) /\ pc'.at = "load"
  BY <1>2, NewFrameIsNew, PcTypes DEF StartStatus
<1>4. TypeOK'
  <2>1. reg' \in [Registers -> Data] /\ pc' \in Pcs
    BY <1>3, PcTypes DEF IInv, TypeOK, Data, Labels, StartLabels
  <2> QED
    BY <1>1, <1>3, <2>1 DEF IInv, TypeOK
<1>5. Created' = Created
  BY <1>1 DEF Created
<1>6. Runs'
  <2>1. reg'[1] = "code"
    BY <1>3 DEF IInv, TypeOK, Registers
  <2> QED
    BY <1>1, <1>2, <1>3, <1>5, <2>1 DEF Runs, Sane, Live, DepthOf, EarlyLabels
<1>7. \A u \in Created : Waits(u)
  BY <1>1 DEF IInv, Running, Boots, Created
<1>8. \A u \in Created : Waits(u)'
  BY <1>7, <1>1 DEF Waits, SavedAt
<1>9. \A u \in Created : u # t => ~Early(u)'
  <2> SUFFICES ASSUME NEW u \in Created, u # t PROVE ~Early(u)'
    OBVIOUS
  <2>1. stack[u][top[u]].pc.at = "run"
    BY <1>1, NewFrameIsNew, PcTypes DEF Boots, Entry
  <2> QED
    BY <2>1, <1>1, <1>3 DEF Early, Context, Running, SavedAt, EarlyLabels
<1> QED
  BY <1>1, <1>3, <1>4, <1>5, <1>6, <1>8, <1>9 DEF IInv, OneEarly, TrapLabels

\* The steps of xPortStartFirstTask after the one that lets interrupts in.
LEMMA StartSteps ==
  ASSUME IInv, StartLoad \/ StartNesting \/ StartPop \/ StartReturn
  PROVE  IInv'
<1>1. /\ pc.at \in StartLabels /\ pc.at \notin TrapLabels \cup {"boot"}
      /\ Runs /\ TypeOK /\ mie
      /\ UNCHANGED <<cur, stack, top, mie, mpie, mepc>>
  BY DEF StartLoad, StartNesting, StartPop, StartReturn, StartLabels, TrapLabels, IInv, Runs, Sane, Live
<1>2. cur \in Tasks /\ reg \in [Registers -> Data] /\ reg[1] = "code"
  BY <1>1 DEF Runs, Created, Sane, Live, TypeOK
<1>3. CASE pc.at \in EarlyLabels
  <2>1. sp = 1 /\ Top = NewFrame /\ LoadedFrom(Top) = NewRegisters /\ Top.nest = 0
    BY <1>1, <1>3, NewFrameIsNew DEF Runs, DepthOf, Top
  <2>2. CASE StartLoad
    <3>1. /\ pc' = At("nesting", 0) /\ pc'.at = "nesting" /\ sp' = sp /\ nesting' = nesting
          /\ reg' = [r \in Registers |-> IF r \in {1, 5, 6} THEN reg[r] ELSE NewRegisters[r]]
      BY <2>2, <2>1, PcTypes DEF StartLoad
    <3>2. TypeOK'
      BY <1>1, <1>2, <3>1, NewRegistersType, PcTypes DEF TypeOK, Labels, StartLabels
    <3>3. Sane(Live, mie)'
      BY <1>1, <1>2, <3>1 DEF Sane, Live, StartLabels, Registers
    <3> QED
      BY <1>1, <1>3, <2>1, <3>1, <3>2, <3>3, LiveStep DEF TrapLabels, DepthOf, EarlyLabels
  <2>3. CASE StartNesting
    <3>1. /\ pc' = At("pop", 0) /\ pc'.at = "pop" /\ sp' = sp /\ nesting' = 0 /\ pc.at = "nesting"
          /\ reg' = [r \in Registers |-> IF r \in {5, 6} THEN NewRegisters[r] ELSE reg[r]]
      BY <2>3, <2>1, PcTypes DEF StartNesting
    <3>2. TypeOK'
      BY <1>1, <1>2, <3>1, NewRegistersType, PcTypes DEF TypeOK, Labels, StartLabels
    <3>3. Sane(Live, mie)'
      BY <1>1, <1>2, <3>1 DEF Runs, Sane, Live, StartLabels, Registers
    <3> QED
      BY <1>1, <1>3, <2>1, <3>1, <3>2, <3>3, LiveStep DEF TrapLabels, DepthOf, EarlyLabels
  <2>4. CASE StartPop
    <3>1. /\ pc' = At("ret", 0) /\ pc'.at = "ret" /\ sp' = 0 /\ pc.at = "pop"
          /\ UNCHANGED <<reg, nesting>>
      BY <2>4, <2>1, PcTypes DEF StartPop
    <3>2. TypeOK'
      BY <1>1, <1>2, <3>1, PcTypes DEF TypeOK, Labels, StartLabels
    <3>3. Sane(Live, mie)'
      BY <1>1, <1>2, <3>1 DEF Runs, Sane, Live, StartLabels, Registers
    <3> QED
      BY <1>1, <3>1, <3>2, <3>3, LiveStep DEF TrapLabels, DepthOf, EarlyLabels
  <2>5. ~StartReturn
    BY <1>3 DEF StartReturn, EarlyLabels
  <2> QED
    BY <2>2, <2>3, <2>4, <2>5
<1>4. CASE pc.at = "ret"
  <2>1. /\ pc' = Entry /\ pc'.at = "run"
        /\ UNCHANGED <<reg, sp, nesting>>
    BY <1>2, <1>4, PcTypes DEF StartReturn, StartLoad, StartNesting, StartPop, Entry
  <2>2. TypeOK'
    BY <1>1, <2>1, PcTypes DEF TypeOK
  <2>3. nesting = 0 /\ sp = 0
    BY <1>1, <1>4 DEF Runs, Sane, Live, DepthOf, EarlyLabels
  <2>4. Sane(Live, mie)'
    BY <1>1, <2>1, <2>3 DEF Sane, Live, StartLabels
  <2> QED
    BY <1>1, <2>1, <2>2, <2>3, <2>4, LiveStep DEF TrapLabels, DepthOf, EarlyLabels
<1> QED
  BY <1>1, <1>3, <1>4 DEF StartLabels, EarlyLabels

\* The instructions of a task that is past its start.
LEMMA TaskSteps ==
  ASSUME IInv, TaskCompute \/ EnterMask \/ EnterCount \/ ExitCount \/ ExitUnmask
  PROVE  IInv'
<1>1. /\ pc.at \in {"run", "count", "leave"}
      /\ pc.at \notin TrapLabels \cup {"boot"} /\ pc.at \notin EarlyLabels
      /\ UNCHANGED <<cur, sp, mpie, mepc, stack, top>>
  BY DEF TaskCompute, EnterMask, EnterCount, ExitCount, ExitUnmask, Executes, Live, TrapLabels,
         EarlyLabels, CanCompute, CanMask, CanCount, CanUncount, CanLeave
<1>2. /\ TypeOK /\ Runs /\ sp = 0
      /\ pc.at = "run" => (mie <=> nesting = 0)
      /\ pc.at \in {"count", "leave"} => ~mie
      /\ pc.at = "count" => nesting < NestMax
  BY <1>1 DEF IInv, Runs, Sane, Live, DepthOf
<1> DEFINE Ready(c, enabled) ==
      /\ c.reg \in [Registers -> Data] /\ c.pc \in Pcs /\ c.nest \in 0 .. NestMax
      /\ c.pc.at \in {"run", "count", "leave"}
      /\ c.pc.at = "run" => (enabled <=> c.nest = 0)
      /\ c.pc.at \in {"count", "leave"} => ~enabled
      /\ c.pc.at = "count" => c.nest < NestMax
<1>3. ASSUME NEW c, NEW enabled \in BOOLEAN, Executes(c, enabled), Ready(c, enabled)
      PROVE  IInv'
  <2>1. reg' = c.reg /\ pc' = c.pc /\ nesting' = c.nest /\ mie' = enabled
    BY <1>3 DEF Executes
  <2>2. TypeOK'
    BY <1>1, <1>2, <1>3, <2>1 DEF TypeOK
  <2>3. Sane(Live, mie)'
    BY <1>3, <2>1 DEF Sane, Live, StartLabels
  <2>4. /\ pc'.at \notin TrapLabels \cup {"boot"} /\ pc'.at \notin EarlyLabels
        /\ sp' = DepthOf(pc') - 1
    BY <1>1, <1>2, <1>3, <2>1 DEF TrapLabels, EarlyLabels, DepthOf
  <2> QED
    BY <1>1, <2>2, <2>3, <2>4, LiveStep
<1>4. mie \in BOOLEAN /\ nesting \in 0 .. NestMax /\ pc \in Pcs /\ reg \in [Registers -> Data]
  BY <1>2 DEF TypeOK
<1>5. CASE TaskCompute
  <2>1. PICK r \in Touched, v \in Values : Executes(Compute(Live, r, v), mie)
    BY <1>5 DEF TaskCompute
  <2>2. /\ Compute(Live, r, v).reg = [reg EXCEPT ![r] = v]
       /\ Compute(Live, r, v).pc = Advance(pc)
       /\ Compute(Live, r, v).nest = nesting
    BY DEF Compute, Live
  <2>3. [reg EXCEPT ![r] = v] \in [Registers -> Data]
    BY <1>4 DEF Data
  <2>4. pc.at = "run"
    BY <1>5 DEF TaskCompute, CanCompute, Live
  <2>5. Advance(pc) \in Pcs /\ Advance(pc).at = "run"
    BY <1>4, PcTypes
  <2>6. Ready(Compute(Live, r, v), mie)
    BY <1>2, <1>4, <2>2, <2>3, <2>4, <2>5
  <2> QED
    BY <1>3, <1>4, <2>1, <2>6
<1>6. CASE EnterMask
  <2>1. Mask(Live) = [reg |-> reg, pc |-> At("count", pc.n), nest |-> nesting]
    BY DEF Mask, Live
  <2>2. At("count", pc.n) \in Pcs /\ At("count", pc.n).at = "count"
    BY <1>4, PcTypes DEF Labels, At
  <2>3. nesting < NestMax
    BY <1>6 DEF EnterMask, CanMask, Live
  <2>4. Ready(Mask(Live), FALSE)
    BY <1>4, <2>1, <2>2, <2>3
  <2> QED
    BY <1>3, <1>6, <2>4 DEF EnterMask
<1>7. CASE EnterCount
  <2>1. /\ Count(Live).reg = reg
       /\ Count(Live).pc = Advance(pc)
       /\ Count(Live).nest = nesting + 1
    BY DEF Count, Live
  <2>2. pc.at = "count"
    BY <1>7 DEF EnterCount, CanCount, Live
  <2>3. Advance(pc) \in Pcs /\ Advance(pc).at = "run"
    BY <1>4, PcTypes
  <2>4. nesting + 1 \in 0 .. NestMax /\ nesting + 1 # 0 /\ ~mie
    BY <1>2, <1>4, <2>2
  <2>5. Ready(Count(Live), mie)
    BY <1>4, <2>1, <2>3, <2>4
  <2> QED
    BY <1>3, <1>4, <1>7, <2>5 DEF EnterCount
<1>8. CASE ExitCount
  <2>1. /\ Uncount(Live).reg = reg
       /\ Uncount(Live).pc = At("leave", pc.n)
       /\ Uncount(Live).nest = nesting - 1
    BY DEF Uncount, Live
  <2>2. At("leave", pc.n) \in Pcs /\ At("leave", pc.n).at = "leave"
    BY <1>4, PcTypes DEF Labels, At
  <2>3. nesting > 0 /\ pc.at = "run"
    BY <1>8 DEF ExitCount, CanUncount, Live
  <2>4. nesting - 1 \in 0 .. NestMax /\ ~mie
    BY <1>2, <1>4, <2>3
  <2>5. Ready(Uncount(Live), mie)
    BY <1>4, <2>1, <2>2, <2>4
  <2> QED
    BY <1>3, <1>4, <1>8, <2>5 DEF ExitCount
<1>9. CASE ExitUnmask
  <2>1. Leave(Live) = [reg |-> reg, pc |-> Advance(pc), nest |-> nesting]
    BY DEF Leave, Live
  <2>2. pc.at = "leave"
    BY <1>9 DEF ExitUnmask, CanLeave, Live
  <2>3. Advance(pc) \in Pcs /\ Advance(pc).at = "run"
    BY <1>4, PcTypes
  <2> DEFINE enable == IF nesting = 0 THEN TRUE ELSE mie
  <2>4. enable \in BOOLEAN /\ (enable <=> nesting = 0)
    BY <1>2, <1>4, <2>2
  <2>5. Ready(Leave(Live), enable)
    BY <1>4, <2>1, <2>3, <2>4
  <2>6. Executes(Leave(Live), enable)
    BY <1>9 DEF ExitUnmask
  <2> QED
    BY <1>3, <2>4, <2>5, <2>6
<1> QED
  BY <1>5, <1>6, <1>7, <1>8, <1>9

\* A trap, wherever the running task allows one.
LEMMA TrapStep ==
  ASSUME IInv, NEW p \in Pcs, NEW handler \in {"exception", "interrupt"}, Trap(p, handler),
         pc.at \notin TrapLabels \cup {"boot"},
         p.at \in Resumable, DepthOf(p) = DepthOf(pc),
         Sane([reg |-> reg, pc |-> p, nest |-> nesting], mie),
         p.at \in EarlyLabels => p = pc
  PROVE  IInv'
<1>1. /\ TypeOK /\ Runs /\ cur \in Tasks /\ cur \in Created
      /\ sp + 1 = DepthOf(p) /\ sp \in 0 .. 1
      /\ pc.at \in EarlyLabels => stack[cur][1] = NewFrame
  BY DEF IInv, Runs, Created, DepthOf
<1>2. TypeOK'
  BY <1>1, TrapTypes
<1>3. /\ stack' = [stack EXCEPT ![cur][sp + 1] = Frame(p)]
      /\ top' = [top EXCEPT ![cur] = sp + 1]
      /\ ~mie' /\ cur' = cur /\ pc' = At(handler, 0) /\ pc'.at = handler
  BY PcTypes DEF Trap
<1>4. /\ top'[cur] = sp + 1 /\ stack'[cur][sp + 1] = Frame(p)
      /\ sp = 1 => stack'[cur][1] = stack[cur][1]
      /\ \A u \in Tasks \ {cur} : stack'[u] = stack[u] /\ top'[u] = top[u]
  BY <1>1, <1>3 DEF TypeOK
<1>5. Created' = Created
  BY <1>1, <1>4 DEF Created
<1>6. Waits(cur)'
  <2>1. Frame(p).pc = p /\ ~Frame(p).mie /\ Frame(p).mpie = mie /\ Frame(p).nest = nesting
    BY DEF Frame
  <2>2. LoadedFrom(stack'[cur][sp + 1]) = reg
    BY <1>1, <1>4, FrameType
  <2>3. top'[cur] = 2 => stack'[cur][1] = NewFrame
    BY <1>1, <1>4 DEF DepthOf
  <2> QED
    BY <1>1, <1>3, <1>4, <2>1, <2>2, <2>3 DEF Waits, SavedAt
<1>7. \A u \in Created \ {cur} : Waits(u)'
  BY <1>4 DEF IInv, Waits, SavedAt, Created, Running
<1>8. \A u \in Created : Early(u)' => Early(u)
  <2>1. \A u \in Created : Early(u)' => stack'[u][top'[u]].pc.at \in EarlyLabels
    BY <1>3 DEF Early, Context, Running, SavedAt, TrapLabels
  <2>2. Early(cur)' => Early(cur)
    <3>1. stack'[cur'][top'[cur']].pc = p
      BY <1>3, <1>4 DEF Frame
    <3>2. Running(cur) /\ (p.at \in EarlyLabels => pc.at \in EarlyLabels)
      BY DEF Running
    <3> QED
      BY <1>3, <1>1, <2>1, <3>1, <3>2 DEF Early, Context, Live
  <2>3. \A u \in Created \ {cur} : Early(u)' => Early(u)
    BY <1>4, <2>1 DEF Early, Context, Running, SavedAt, Created
  <2> QED
    BY <1>3, <2>2, <2>3
<1>9. Handles'
  BY <1>1, <1>3, <1>5 DEF Handles
<1>10. \A u \in Tasks : top'[u] \in 0 .. 2
  BY <1>1, <1>4 DEF IInv
<1> QED
  BY <1>2, <1>3, <1>5, <1>6, <1>7, <1>8, <1>9, <1>10 DEF IInv, OneEarly, TrapLabels

LEMMA TrapSteps ==
  ASSUME IInv, portYIELD \/ Interrupt
  PROVE  IInv'
<1>1. pc \in Pcs
  BY DEF IInv, TypeOK
<1>2. CASE portYIELD
  <2>1. pc.at = "run" /\ Trap(Advance(pc), "exception")
    BY <1>2 DEF portYIELD
  <2>2. Advance(pc) \in Pcs /\ Advance(pc).at = "run"
    BY <1>1, PcTypes
  <2>3. mie <=> nesting = 0
    BY <2>1 DEF IInv, Runs, Sane, Live, TrapLabels
  <2>4. Sane([reg |-> reg, pc |-> Advance(pc), nest |-> nesting], mie)
    BY <2>2, <2>3 DEF Sane, StartLabels
  <2> QED
    BY <2>1, <2>2, <2>4, TrapStep DEF TrapLabels, Resumable, DepthOf, EarlyLabels
<1>3. CASE Interrupt
  <2>1. mie /\ pc # Boot /\ Trap(pc, "interrupt")
    BY <1>3 DEF Interrupt
  <2>2. pc.at \notin TrapLabels \cup {"boot"}
    BY <2>1 DEF IInv, Handles
  <2>3. Sane(Live, mie)
    BY <2>2 DEF IInv, Runs
  <2>4. pc.at \in Resumable
    BY <1>1, <2>1, <2>2, <2>3 DEF Sane, Live, Pcs, Labels, Resumable
  <2> QED
    BY <1>1, <2>1, <2>2, <2>3, <2>4, TrapStep DEF Live
<1> QED
  BY <1>2, <1>3

\* The handler, from the trap to the last of the restore: the tasks all wait.
LEMMA HandleSteps ==
  ASSUME IInv, vTaskSwitchContext \/ RestoreStatus \/ RestoreRegisters
  PROVE  IInv'
<1>1. /\ pc.at \in TrapLabels \ {"mret"}
      /\ UNCHANGED <<stack, top>>
      /\ Created' = Created
  BY DEF vTaskSwitchContext, RestoreStatus, RestoreRegisters, TrapLabels, Created
<1>2. TypeOK /\ Handles /\ \A t \in Created : Waits(t) /\ ~Running(t)
  BY <1>1 DEF IInv, Running
<1>3. ASSUME TypeOK', Handles', pc'.at \in TrapLabels
      PROVE  IInv'
  <2>1. \A t \in Created : Waits(t)'
    BY <1>1, <1>2 DEF Waits, SavedAt
  <2>2. \A t \in Created : Early(t)' <=> Early(t)
    BY <1>1, <1>2, <1>3 DEF Early, Context, Running, SavedAt
  <2> QED
    BY <1>1, <1>3, <2>1, <2>2 DEF IInv, OneEarly, TrapLabels
<1>4. cur \in Tasks /\ top[cur] \in 1 .. 2 /\ ~mie /\ ~stack[cur][top[cur]].mie
  BY <1>2 DEF Handles, Created, Waits, IInv
<1>5. CASE vTaskSwitchContext
  <2>1. /\ cur' \in Created /\ pc' = At("restore", 0) /\ pc'.at = "restore"
        /\ reg' = Clobbered(reg, Temporaries)
        /\ UNCHANGED <<sp, mie, mpie, mepc, nesting>>
    BY <1>5, PcTypes DEF vTaskSwitchContext
  <2>2. reg' \in [Registers -> Data] /\ pc' \in Pcs
    BY <1>2, <2>1, PcTypes, ClobberedType DEF TypeOK, Labels, TrapLabels
  <2>3. TypeOK'
    BY <1>1, <1>2, <2>1, <2>2 DEF TypeOK, Created
  <2>4. Handles'
    BY <1>1, <1>4, <2>1 DEF Handles
  <2> QED
    BY <1>3, <2>1, <2>3, <2>4 DEF TrapLabels
<1>6. CASE RestoreStatus
  <2> DEFINE f == stack[cur][top[cur]]
  <2>1. /\ pc' = At("loading", 0) /\ pc'.at = "loading" /\ sp' = top[cur]
        /\ mepc' = f.pc /\ mie' = f.mie /\ mpie' = f.mpie
        /\ reg' = Clobbered(reg, {5, 6, 28})
        /\ UNCHANGED <<cur, nesting>>
    BY <1>6, PcTypes DEF RestoreStatus
  <2>2. f \in Frames
    BY <1>2, <1>4, FrameAt
  <2>3. reg' \in [Registers -> Data] /\ pc' \in Pcs
    BY <1>2, <2>1, PcTypes, ClobberedType DEF TypeOK, Labels, TrapLabels
  <2>4. f.pc \in Pcs /\ f.mie \in BOOLEAN /\ f.mpie \in BOOLEAN
    BY <2>2 DEF Frames
  <2>5. TypeOK'
    BY <1>1, <1>2, <1>4, <2>1, <2>3, <2>4 DEF TypeOK
  <2>6. Handles'
    BY <1>1, <1>2, <1>4, <2>1 DEF Handles
  <2> QED
    BY <1>3, <2>1, <2>5, <2>6 DEF TrapLabels
<1>7. CASE RestoreRegisters
  <2> DEFINE f == stack[cur][top[cur]]
  <2>1. pc.at = "loading" /\ sp = top[cur] /\ mepc = f.pc /\ mpie = f.mpie
    BY <1>2, <1>7 DEF RestoreRegisters, Handles
  <2>2. /\ pc' = At("mret", 0) /\ pc'.at = "mret" /\ sp' = top[cur] - 1
        /\ nesting' = f.nest /\ reg' = LoadedFrom(f)
        /\ UNCHANGED <<cur, mie, mpie, mepc>>
    BY <1>7, <2>1, PcTypes DEF RestoreRegisters, Top
  <2>3. f \in Frames /\ reg' \in [Registers -> Data]
    BY <1>2, <1>4, <2>2, FrameAt
  <2>4. f.nest \in 0 .. NestMax /\ pc' \in Pcs
    BY <2>2, <2>3, PcTypes DEF Frames, Labels, TrapLabels
  <2>5. TypeOK'
    BY <1>1, <1>2, <1>4, <2>2, <2>3, <2>4 DEF TypeOK
  <2>6. Handles'
    BY <1>1, <1>2, <1>4, <2>1, <2>2 DEF Handles
  <2> QED
    BY <1>3, <2>2, <2>5, <2>6 DEF TrapLabels
<1> QED
  BY <1>5, <1>6, <1>7

\* mret leaves the processor with exactly the context the frame held.
LEMMA MretContext ==
  ASSUME IInv, Mret
  PROVE  /\ UNCHANGED <<cur, stack, top>>
         /\ cur \in Created /\ ~Running(cur)
         /\ Live' = SavedAt(cur, top[cur])
         /\ mie' = stack[cur][top[cur]].mpie
         /\ sp' = top[cur] - 1
         /\ pc' = stack[cur][top[cur]].pc
         /\ Waits(cur) /\ pc'.at \in Resumable
<1>1. pc.at = "mret" /\ Handles
  BY DEF Mret, IInv, TrapLabels
<1>2. ~Running(cur) /\ Waits(cur) /\ cur \in Created
  BY <1>1 DEF IInv, Running, TrapLabels, Handles
<1>3. /\ pc' = mepc /\ mie' = mpie /\ UNCHANGED <<cur, reg, sp, nesting, stack, top>>
  BY DEF Mret
<1> QED
  BY <1>1, <1>2, <1>3 DEF Handles, Live, SavedAt, Waits

LEMMA MretStep ==
  ASSUME IInv, Mret
  PROVE  IInv'
<1>1. /\ UNCHANGED <<cur, stack, top>>
      /\ cur \in Created /\ ~Running(cur) /\ Waits(cur)
      /\ Live' = SavedAt(cur, top[cur])
      /\ mie' = stack[cur][top[cur]].mpie
      /\ sp' = top[cur] - 1
      /\ pc' = stack[cur][top[cur]].pc /\ pc'.at \in Resumable
  BY MretContext
<1>2. TypeOK /\ Created' = Created
  BY <1>1 DEF IInv, Created
<1>3. TypeOK'
  <2>1. mepc \in Pcs /\ mpie \in BOOLEAN
    BY <1>2 DEF TypeOK
  <2> QED
    BY <1>2, <2>1 DEF Mret, TypeOK
<1>4. pc'.at \notin TrapLabels \cup {"boot"}
  BY <1>1 DEF Resumable, StartLabels, TrapLabels
<1>5. Runs'
  <2>1. top[cur] = DepthOf(pc') /\ Sane(SavedAt(cur, top[cur]), mie')
    BY <1>1 DEF Waits
  <2>2. Sane(Live, mie)'
    BY <1>1, <2>1 DEF Sane
  <2>3. pc'.at \in EarlyLabels => top[cur] = 2 /\ stack[cur][1] = NewFrame
    BY <1>1, <2>1 DEF DepthOf, Waits
  <2>4. top[cur] = 2 => pc'.at \in EarlyLabels
    BY <2>1 DEF DepthOf
  <2> QED
    BY <1>1, <1>2, <2>1, <2>2, <2>3, <2>4 DEF Runs
<1>6. \A t \in Created : Running(t)' \/ Waits(t)'
  <2>1. Running(cur)'
    BY <1>1, <1>4 DEF Running
  <2>2. \A t \in Created \ {cur} : Waits(t)
    BY DEF IInv, Running
  <2>3. \A t \in Created : Waits(t) => Waits(t)'
    BY <1>1 DEF Waits, SavedAt
  <2> QED
    BY <1>1, <2>1, <2>2, <2>3
<1>7. \A t \in Created : Early(t)' => Early(t)
  <2>1. Early(cur)' => Early(cur)
    BY <1>1 DEF Early, Context, Running, Live, SavedAt
  <2>2. \A t \in Created \ {cur} : Early(t)' => Early(t)
    BY <1>1 DEF Early, Context, Running, SavedAt
  <2> QED
    BY <1>1, <2>1, <2>2
<1> QED
  BY <1>1, <1>2, <1>3, <1>4, <1>5, <1>6, <1>7 DEF IInv, OneEarly

-----------------------------------------------------------------------------
(* The theorems about the state.                                           *)

LEMMA NextIInv == IInv /\ [Next]_vars => IInv'
<1> SUFFICES ASSUME IInv, [Next]_vars PROVE IInv'
  OBVIOUS
<1>1. ASSUME NEW t \in Tasks, pxPortInitialiseStack(t) PROVE IInv'
  BY <1>1, CreateStep
<1>2. CASE Start
  BY <1>2, StartStatusStep, StartSteps DEF Start
<1>3. CASE Interrupt
  BY <1>3, TrapSteps
<1>4. CASE Handle
  BY <1>4, HandleSteps, MretStep DEF Handle
<1>5. CASE Task
  BY <1>5, TaskSteps, TrapSteps DEF Task
<1>6. CASE UNCHANGED vars
  BY <1>6 DEF vars, IInv, TypeOK, Boots, Handles, Runs, Waits, OneEarly, Early, Context, Running,
              Created, Live, SavedAt, Sane
<1> QED
  BY <1>1, <1>2, <1>3, <1>4, <1>5, <1>6 DEF Next

\* The invariant behind the theorems below: a task that waits has a frame it can be
\* resumed from, and the one that runs, or is being restored, is as that frame left it.
THEOREM ContextInvariant == Spec => []IInv
BY InitIInv, NextIInv, PTL DEF Spec

\* Every return of a handler goes to code of a task, and a stack has room for the
\* frames pushed on it.
THEOREM ContextTypeCorrect == Spec => []TypeOK
<1>1. IInv => TypeOK
  BY DEF IInv
<1> QED
  BY <1>1, ContextInvariant, PTL

\* Interrupts are off exactly where the task that runs, or the handler, wants them
\* off, through every trap, switch and nesting of critical sections.
THEOREM ContextMasksExactly == Spec => []MaskedExactly
<1>1. IInv => MaskedExactly
  BY DEF IInv, MaskedExactly, Runs, Handles, Sane, Live, TrapLabels
<1> QED
  BY <1>1, ContextInvariant, PTL

\* A task needs room for one frame, the first task for two.
THEOREM ContextOneFrame == Spec => []OneFrame
<1>1. IInv => OneFrame
  <2> SUFFICES ASSUME IInv, NEW t \in Tasks, top[t] > 1
               PROVE  top[t] = 2 /\ stack[t][2].pc.at \in EarlyLabels
    BY DEF OneFrame
  <2>1. top[t] = 2 /\ t \in Created
    BY DEF IInv, Created
  <2>2. CASE Waits(t)
    BY <2>1, <2>2 DEF Waits, DepthOf
  <2>3. CASE Running(t)
    <3>1. pc.at # "boot"
      BY <2>1 DEF IInv, Boots
    <3> QED
      BY <2>1, <2>3, <3>1 DEF IInv, Running, Runs
  <2> QED
    BY <2>1, <2>2, <2>3 DEF IInv
<1> QED
  BY <1>1, ContextInvariant, PTL

-----------------------------------------------------------------------------
(* The refinement: what each task sees of the processor.                   *)

\* An instruction of a task, field by field.
LEMMA InstructionRecords ==
  /\ \A r, v : Compute(Live, r, v) = [reg |-> [reg EXCEPT ![r] = v], pc |-> Advance(pc), nest |-> nesting]
  /\ Mask(Live) = [reg |-> reg, pc |-> At("count", pc.n), nest |-> nesting]
  /\ Count(Live) = [reg |-> reg, pc |-> Advance(pc), nest |-> nesting + 1]
  /\ Uncount(Live) = [reg |-> reg, pc |-> At("leave", pc.n), nest |-> nesting - 1]
  /\ Leave(Live) = [reg |-> reg, pc |-> Advance(pc), nest |-> nesting]
  /\ Yield(Live) = [reg |-> reg, pc |-> Advance(pc), nest |-> nesting]
<1>1. Live.pc = pc /\ Live.nest = nesting
  BY DEF Live
<1>2. \A p : [Live EXCEPT !.pc = p] = [reg |-> reg, pc |-> p, nest |-> nesting]
  BY DEF Live
<1>3. ASSUME NEW r, NEW v
      PROVE  Compute(Live, r, v) = [reg |-> [reg EXCEPT ![r] = v], pc |-> Advance(pc), nest |-> nesting]
  <2>1. Compute(Live, r, v) = [[Live EXCEPT !.reg[r] = v] EXCEPT !.pc = Advance(Live.pc)]
    BY DEF Compute
  <2>2. [Live EXCEPT !.reg[r] = v] = [reg |-> [reg EXCEPT ![r] = v], pc |-> pc, nest |-> nesting]
    BY DEF Live
  <2> QED
    BY <1>1, <2>1, <2>2
<1>4. Count(Live) = [reg |-> reg, pc |-> Advance(pc), nest |-> nesting + 1]
  <2>1. Count(Live) = [[Live EXCEPT !.pc = Advance(Live.pc)] EXCEPT !.nest = Live.nest + 1]
    BY DEF Count
  <2> QED
    BY <1>1, <1>2, <2>1
<1>5. Uncount(Live) = [reg |-> reg, pc |-> At("leave", pc.n), nest |-> nesting - 1]
  <2>1. Uncount(Live) = [[Live EXCEPT !.pc = At("leave", Live.pc.n)] EXCEPT !.nest = Live.nest - 1]
    BY DEF Uncount
  <2> QED
    BY <1>1, <1>2, <2>1
<1>6. /\ Mask(Live) = [reg |-> reg, pc |-> At("count", pc.n), nest |-> nesting]
      /\ Leave(Live) = [reg |-> reg, pc |-> Advance(pc), nest |-> nesting]
      /\ Yield(Live) = [reg |-> reg, pc |-> Advance(pc), nest |-> nesting]
  BY <1>1, <1>2 DEF Mask, Leave, Yield
<1> QED
  BY <1>3, <1>4, <1>5, <1>6

\* What a step may be to the views: a birth, the first entry, or an instruction.
LEMMA BirthView ==
  ASSUME NEW t \in Tasks, Views[t] = None, Views' = [Views EXCEPT ![t] = NewContext],
         Entered' = Entered
  PROVE  View!Next
<1>1. View!NewContext = NewContext /\ View!NoTask = None
  BY DEF View!NewContext, NewContext, View!NewRegisters, NewRegisters, View!Registers, Registers,
         View!Entry, Entry, View!At, At, View!NoTask, None
<1>2. View!Born(t)
  BY <1>1 DEF View!Born, View!Becomes
<1> QED
  BY <1>2 DEF View!Next

LEMMA FirstView ==
  ASSUME NEW t \in Tasks, ~Entered, Entered', Views[t] = NewContext,
         Views' = [Views EXCEPT ![t].reg[1] = "code"]
  PROVE  View!Next
<1>1. View!NewContext = NewContext
  BY DEF View!NewContext, NewContext, View!NewRegisters, NewRegisters, View!Registers, Registers,
         View!Entry, Entry, View!At, At
<1>2. View!First(t)
  BY <1>1 DEF View!First
<1> QED
  BY <1>2 DEF View!Next

LEMMA StepView ==
  ASSUME NEW t \in Tasks, NEW c, NEW d, Views[t] = c, c # None,
         Views' = [Views EXCEPT ![t] = d], Entered' = Entered,
         \/ CanCompute(c) /\ \E r \in Touched, v \in Values : d = Compute(c, r, v)
         \/ CanMask(c) /\ d = Mask(c)
         \/ CanCount(c) /\ d = Count(c)
         \/ CanUncount(c) /\ d = Uncount(c)
         \/ CanLeave(c) /\ d = Leave(c)
         \/ CanYield(c) /\ d = Yield(c)
  PROVE  View!Next
<1> DEFINE own == Views[t]
<1>1. own = c /\ own # View!NoTask
  BY DEF View!NoTask, None, View!At, At
<1>2. CASE CanMask(c) /\ d = Mask(c)
  <2>1. View!CanMask(own)
    BY <1>1, <1>2 DEF View!CanMask, CanMask
  <2>2. d = View!Mask(own)
    BY <1>1, <1>2 DEF View!Mask, View!Advance, View!At, Mask, Advance, At
  <2>3. View!Becomes(t, View!Mask(own))
    BY <2>2 DEF View!Becomes
  <2>4. View!Step(t)
    BY <1>1, <2>1, <2>3 DEF View!Step
  <2> QED
    BY <2>4 DEF View!Next
<1>3. CASE CanCount(c) /\ d = Count(c)
  <2>1. View!CanCount(own)
    BY <1>1, <1>3 DEF View!CanCount, CanCount
  <2>2. d = View!Count(own)
    BY <1>1, <1>3 DEF View!Count, View!Advance, View!At, Count, Advance, At
  <2>3. View!Becomes(t, View!Count(own))
    BY <2>2 DEF View!Becomes
  <2>4. View!Step(t)
    BY <1>1, <2>1, <2>3 DEF View!Step
  <2> QED
    BY <2>4 DEF View!Next
<1>4. CASE CanUncount(c) /\ d = Uncount(c)
  <2>1. View!CanUncount(own)
    BY <1>1, <1>4 DEF View!CanUncount, CanUncount
  <2>2. d = View!Uncount(own)
    BY <1>1, <1>4 DEF View!Uncount, View!Advance, View!At, Uncount, Advance, At
  <2>3. View!Becomes(t, View!Uncount(own))
    BY <2>2 DEF View!Becomes
  <2>4. View!Step(t)
    BY <1>1, <2>1, <2>3 DEF View!Step
  <2> QED
    BY <2>4 DEF View!Next
<1>5. CASE CanLeave(c) /\ d = Leave(c)
  <2>1. View!CanLeave(own)
    BY <1>1, <1>5 DEF View!CanLeave, CanLeave
  <2>2. d = View!Leave(own)
    BY <1>1, <1>5 DEF View!Leave, View!Advance, View!At, Leave, Advance, At
  <2>3. View!Becomes(t, View!Leave(own))
    BY <2>2 DEF View!Becomes
  <2>4. View!Step(t)
    BY <1>1, <2>1, <2>3 DEF View!Step
  <2> QED
    BY <2>4 DEF View!Next
<1>6. CASE CanYield(c) /\ d = Yield(c)
  <2>1. View!CanYield(own)
    BY <1>1, <1>6 DEF View!CanYield, CanYield
  <2>2. d = View!Yield(own)
    BY <1>1, <1>6 DEF View!Yield, View!Advance, View!At, Yield, Advance, At
  <2>3. View!Becomes(t, View!Yield(own))
    BY <2>2 DEF View!Becomes
  <2>4. View!Step(t)
    BY <1>1, <2>1, <2>3 DEF View!Step
  <2> QED
    BY <2>4 DEF View!Next
<1>7. CASE CanCompute(c) /\ \E r \in Touched, v \in Values : d = Compute(c, r, v)
  <2>1. View!CanCompute(own)
    BY <1>1, <1>7 DEF View!CanCompute, CanCompute
  <2>2. PICK r \in Touched, v \in Values : d = Compute(c, r, v)
    BY <1>7
  <2>3. d = View!Compute(own, r, v)
    BY <1>1, <2>2 DEF View!Compute, View!Advance, View!At, Compute, Advance, At
  <2>4. View!Becomes(t, View!Compute(own, r, v))
    BY <2>3 DEF View!Becomes
  <2>5. View!Step(t)
    BY <1>1, <2>1, <2>4 DEF View!Step
  <2> QED
    BY <2>5 DEF View!Next
<1> QED
  BY <1>2, <1>3, <1>4, <1>5, <1>6, <1>7

\* The context of a task that waits is that of its last frame, or, while
\* xPortStartFirstTask has not left the first one, of the one it was created with.
LEMMA NewSaved ==
  ASSUME NEW t, stack[t][1] = NewFrame
  PROVE  SavedAt(t, 1) = NewContext
BY NewFrameIsNew DEF SavedAt, NewContext

LEMMA ContextIsNone ==
  ASSUME NEW a, NEW b, NEW n
  PROVE  [reg |-> a, pc |-> b, nest |-> n] # None
BY DEF None

\* A step that leaves the stacks and the running task alone changes the view of the
\* running task alone.
LEMMA OthersView ==
  ASSUME UNCHANGED <<cur, stack, top>>, cur \in Created
  PROVE  /\ Created' = Created
         /\ \A u \in Created \ {cur} : ContextOf(u)' = ContextOf(u) /\ (Early(u)' <=> Early(u))
         /\ Views' = [Views EXCEPT ![cur] = ContextOf(cur)']
<1>1. Created' = Created
  BY DEF Created
<1>2. \A u \in Created \ {cur} : ~Running(u) /\ ~Running(u)'
  BY DEF Running
<1>3. \A u \in Created \ {cur} : Context(u)' = Context(u) /\ SavedAt(u, 1)' = SavedAt(u, 1)
  BY <1>2 DEF Context, SavedAt
<1>4. \A u \in Created \ {cur} : ContextOf(u)' = ContextOf(u) /\ (Early(u)' <=> Early(u))
  BY <1>3 DEF ContextOf, Early
<1> QED
  BY <1>1, <1>4 DEF Views, Created

LEMMA SameView ==
  ASSUME UNCHANGED <<cur, stack, top>>, cur \in Created, ContextOf(cur)' = ContextOf(cur),
         Early(cur)' <=> Early(cur), pc # Boot, pc' # Boot
  PROVE  Views' = Views /\ Entered' = Entered
<1>1. /\ Created' = Created
      /\ \A u \in Created \ {cur} : Early(u)' <=> Early(u)
      /\ Views' = [Views EXCEPT ![cur] = ContextOf(cur)']
  BY OthersView
<1>2. Views' = Views
  BY <1>1 DEF Views, Created
<1>3. \A u \in Created : Early(u)' <=> Early(u)
  BY <1>1
<1> QED
  BY <1>1, <1>2, <1>3 DEF Entered

LEMMA CreateView ==
  ASSUME IInv, IInv', NEW t \in Tasks, pxPortInitialiseStack(t)
  PROVE  View!Next
<1>1. /\ stack' = [stack EXCEPT ![t][1] = NewFrame]
      /\ top' = [top EXCEPT ![t] = 1]
      /\ top[t] = 0
      /\ UNCHANGED <<cur, reg, sp, pc, mie, mpie, mepc, nesting>>
      /\ pc = Boot \/ pc.at = "run"
  BY DEF pxPortInitialiseStack
<1>2. /\ stack'[t][1] = NewFrame /\ top'[t] = 1
      /\ \A u \in Tasks \ {t} : stack'[u] = stack[u] /\ top'[u] = top[u]
      /\ t \notin Created /\ Created' = Created \cup {t}
  BY <1>1 DEF IInv, TypeOK, Created
<1>3. \A u \in Created : ContextOf(u)' = ContextOf(u) /\ (Early(u)' <=> Early(u))
  <2>1. \A u \in Created : (Running(u)' <=> Running(u)) /\ Live' = Live
    BY <1>1 DEF Running, Live
  <2>2. \A u \in Created : Context(u)' = Context(u) /\ SavedAt(u, 1)' = SavedAt(u, 1)
    BY <1>2, <2>1 DEF Context, SavedAt, Created
  <2> QED
    BY <2>2 DEF ContextOf, Early
<1>4. t # cur
  <2>1. CASE pc = Boot
    BY <2>1 DEF IInv, Boots, Boot, At
  <2>2. CASE pc.at = "run"
    BY <1>2, <2>2 DEF IInv, Runs, TrapLabels
  <2> QED
    BY <1>1, <2>1, <2>2
<1>5. ContextOf(t)' = NewContext /\ ~Early(t)'
  <2>1. ~Running(t)'
    BY <1>1, <1>4 DEF Running
  <2>2. Context(t)' = NewContext
    BY <1>2, <2>1, NewFrameIsNew DEF Context, SavedAt, NewContext
  <2>3. NewContext.pc.at = "run"
    BY PcTypes DEF NewContext, Entry
  <2> QED
    BY <2>2, <2>3 DEF ContextOf, Early, EarlyLabels
<1>6. Views[t] = None
  BY <1>2 DEF Views
<1>7. Views' = [Views EXCEPT ![t] = NewContext]
  BY <1>2, <1>3, <1>5 DEF Views
<1>8. Entered' = Entered
  BY <1>1, <1>2, <1>3, <1>5 DEF Entered
<1> QED
  BY <1>6, <1>7, <1>8, BirthView

LEMMA StartStatusView ==
  ASSUME IInv, IInv', NEW t \in Tasks, StartStatus(t)
  PROVE  Views' = Views /\ Entered' = Entered
<1>1. /\ pc = Boot /\ pc.at = "boot" /\ Boots /\ t \in Created
      /\ UNCHANGED <<stack, top>> /\ cur' = t /\ pc' = At("load", 0) /\ pc'.at = "load"
  BY PcTypes DEF StartStatus, Boot, At, IInv
<1>2. Created' = Created /\ cur \notin Created
  BY <1>1 DEF Created, Boots
<1>3. \A u \in Created : stack[u][1] = NewFrame /\ top[u] = 1 /\ SavedAt(u, 1) = NewContext
  BY <1>1, NewSaved DEF Boots
<1>4. Entry.at = "run" /\ NewContext.pc = Entry
  BY PcTypes DEF Entry, NewContext
<1>5. \A u \in Created : ContextOf(u) = NewContext
  BY <1>2, <1>3, <1>4 DEF ContextOf, Context, Running, Early, EarlyLabels
<1>6. \A u \in Created : SavedAt(u, 1)' = NewContext
  BY <1>1, <1>3 DEF SavedAt
<1>7. Early(t)'
  BY <1>1 DEF Early, Context, Running, Live, TrapLabels, EarlyLabels
<1>8. \A u \in Created : ContextOf(u)' = NewContext
  <2>1. \A u \in Created \ {t} : ~Running(u)' /\ Context(u)' = NewContext
    BY <1>1, <1>3, <1>6 DEF Running, Context
  <2> QED
    BY <1>4, <1>6, <1>7, <2>1 DEF ContextOf, Early, EarlyLabels
<1> QED
  BY <1>1, <1>2, <1>5, <1>7, <1>8 DEF Views, Entered

LEMMA StartView ==
  ASSUME IInv, IInv', StartLoad \/ StartNesting \/ StartPop \/ StartReturn
  PROVE  [View!Next]_<<Views, Entered>>
<1>1. /\ pc.at \in StartLabels /\ pc.at \notin TrapLabels \cup {"boot"}
      /\ UNCHANGED <<cur, stack, top>>
      /\ Runs /\ cur \in Created /\ cur \in Tasks
  BY DEF StartLoad, StartNesting, StartPop, StartReturn, StartLabels, TrapLabels, IInv, Runs, Created
<1>2. Running(cur) /\ Context(cur) = Live /\ pc # Boot
  BY <1>1 DEF Running, Context, Boot, At
<1>3. CASE StartLoad \/ StartNesting
  <2>1. pc.at \in EarlyLabels /\ pc'.at \in EarlyLabels /\ pc' # Boot /\ pc'.at \notin TrapLabels
    BY <1>3, PcTypes DEF StartLoad, StartNesting, EarlyLabels, TrapLabels, Boot, At
  <2>2. Early(cur) /\ Early(cur)'
    BY <1>1, <1>2, <2>1 DEF Early, Context, Running, Live
  <2>3. ContextOf(cur)' = ContextOf(cur)
    BY <1>1, <2>2 DEF ContextOf, SavedAt
  <2> QED
    BY <1>1, <1>2, <2>1, <2>2, <2>3, SameView
<1>4. CASE StartReturn
  <2>1. pc.at = "ret" /\ pc' = Entry /\ UNCHANGED <<reg, nesting>>
    BY <1>1, <1>4 DEF StartReturn, Runs, Sane, Live, StartLabels
  <2>2. Entry.at = "run"
    BY PcTypes DEF Entry
  <2>3. Live' = [reg |-> reg, pc |-> Entry, nest |-> nesting] /\ [Live EXCEPT !.pc = Entry] = Live'
    BY <2>1 DEF Live
  <2>4. Context(cur)' = Live' /\ ~Early(cur) /\ ~Early(cur)' /\ Entry # Boot
    BY <1>1, <1>2, <2>1, <2>2, <2>3 DEF Early, Context, Running, Live, EarlyLabels, TrapLabels, Boot, At
  <2>5. ContextOf(cur) = [Live EXCEPT !.pc = Entry]
    BY <1>2, <2>1, <2>4 DEF ContextOf, Live
  <2>6. ContextOf(cur)' = Live'
    BY <2>2, <2>3, <2>4 DEF ContextOf
  <2> QED
    BY <1>1, <1>2, <2>1, <2>3, <2>4, <2>5, <2>6, SameView
<1>5. CASE StartPop
  <2>1. pc.at = "pop" /\ pc' = At("ret", 0) /\ pc'.at = "ret" /\ UNCHANGED <<reg, nesting>>
    BY <1>5, PcTypes DEF StartPop
  <2>2. /\ reg \in [Registers -> Data] /\ reg[1] = "code" /\ nesting = 0
        /\ \A r \in Registers \ {1} : reg[r] = NewRegisters[r]
    BY <1>1, <2>1 DEF IInv, TypeOK, Runs, Sane, Live, StartLabels
  <2>3. reg = [NewRegisters EXCEPT ![1] = "code"]
    BY <2>2, NewRegistersType DEF Registers
  <2>4. stack[cur][1] = NewFrame /\ Early(cur)
    BY <1>1, <1>2, <2>1 DEF Runs, Early, Live, EarlyLabels
  <2>5. ContextOf(cur) = NewContext
    BY <2>4, NewSaved DEF ContextOf
  <2>6. Context(cur)' = [reg |-> reg, pc |-> At("ret", 0), nest |-> 0] /\ ~Early(cur)'
    BY <1>1, <2>1, <2>2 DEF Early, Context, Running, Live, TrapLabels, EarlyLabels
  <2>7. ContextOf(cur)' = [reg |-> reg, pc |-> Entry, nest |-> 0]
    BY <2>1, <2>6 DEF ContextOf
  <2>8. ContextOf(cur)' = [NewContext EXCEPT !.reg[1] = "code"]
    BY <2>3, <2>7 DEF NewContext
  <2>9. Views' = [Views EXCEPT ![cur] = ContextOf(cur)']
    BY <1>1, OthersView
  <2>10. Views[cur] = NewContext
    BY <1>1, <2>5 DEF Views
  <2>11. ~Entered
    BY <1>1, <2>4 DEF Entered
  <2>12. Entered'
    <3>1. \A u \in Created \ {cur} : ~Early(u)
      BY <1>1, <2>4 DEF IInv, OneEarly
    <3>2. Created' = Created /\ \A u \in Created \ {cur} : ~Early(u)'
      BY <1>1, <3>1, OthersView
    <3>3. pc' # Boot
      BY <2>1 DEF Boot, At
    <3> QED
      BY <1>1, <2>6, <3>2, <3>3 DEF Entered
  <2>13. PICK t \in Tasks : t = cur
    BY <1>1
  <2>14. Views' = [Views EXCEPT ![t].reg[1] = "code"]
    BY <2>8, <2>9, <2>10, <2>13
  <2> QED
    BY <2>10, <2>11, <2>12, <2>13, <2>14, FirstView
<1> QED
  BY <1>3, <1>4, <1>5

LEMMA InstructionView ==
  ASSUME IInv, IInv', TaskCompute \/ EnterMask \/ EnterCount \/ ExitCount \/ ExitUnmask
  PROVE  View!Next
<1>1. /\ pc.at \in {"run", "count", "leave"}
      /\ UNCHANGED <<cur, stack, top>>
  BY DEF TaskCompute, EnterMask, EnterCount, ExitCount, ExitUnmask, Executes, Live,
         CanCompute, CanMask, CanCount, CanUncount, CanLeave
<1>2. /\ cur \in Created /\ cur \in Tasks /\ pc \in Pcs
      /\ Running(cur) /\ Context(cur) = Live /\ ~Early(cur)
  BY <1>1 DEF IInv, TypeOK, Runs, Created, Running, Context, Early, Live, TrapLabels, EarlyLabels
<1>3. ContextOf(cur) = Live /\ Views[cur] = Live
  BY <1>1, <1>2 DEF ContextOf, Live, Views
<1>4. ASSUME NEW d, NEW e, Executes(d, e), d = [reg |-> d.reg, pc |-> d.pc, nest |-> d.nest],
             d.pc.at \in {"run", "count", "leave"}
      PROVE  Views' = [Views EXCEPT ![cur] = d] /\ Entered' = Entered
  <2>1. Live' = d /\ pc' = d.pc
    BY <1>4 DEF Executes, Live
  <2>2. Context(cur)' = d /\ ~Early(cur)' /\ pc' # Boot /\ pc # Boot
    BY <1>1, <1>2, <1>4, <2>1 DEF Context, Running, Early, TrapLabels, EarlyLabels, Boot, At
  <2>3. ContextOf(cur)' = d
    BY <1>4, <2>2 DEF ContextOf
  <2>4. /\ Created' = Created
        /\ \A u \in Created \ {cur} : Early(u)' <=> Early(u)
        /\ Views' = [Views EXCEPT ![cur] = ContextOf(cur)']
    BY <1>1, <1>2, OthersView
  <2>5. \A u \in Created : Early(u)' <=> Early(u)
    BY <1>1, <1>2, <2>2, <2>4
  <2> QED
    BY <2>2, <2>3, <2>4, <2>5 DEF Entered
<1>5. PICK t \in Tasks : t = cur
  BY <1>2
<1>6. Live # None /\ Live = [reg |-> reg, pc |-> pc, nest |-> nesting]
  BY ContextIsNone DEF Live
<1>7. Advance(pc).at = "run" /\ At("count", pc.n).at = "count" /\ At("leave", pc.n).at = "leave"
  BY <1>2, PcTypes DEF At
<1>8. PICK d : /\ \E e : Executes(d, e)
               /\ d = [reg |-> d.reg, pc |-> d.pc, nest |-> d.nest]
               /\ d.pc.at \in {"run", "count", "leave"}
               /\ \/ CanCompute(Live) /\ \E r \in Touched, v \in Values : d = Compute(Live, r, v)
                  \/ CanMask(Live) /\ d = Mask(Live)
                  \/ CanCount(Live) /\ d = Count(Live)
                  \/ CanUncount(Live) /\ d = Uncount(Live)
                  \/ CanLeave(Live) /\ d = Leave(Live)
                  \/ CanYield(Live) /\ d = Yield(Live)
  <2>1. CASE TaskCompute
    <3>1. PICK r \in Touched, v \in Values : Executes(Compute(Live, r, v), mie)
      BY <2>1 DEF TaskCompute
    <3>2. Compute(Live, r, v) = [reg |-> [reg EXCEPT ![r] = v], pc |-> Advance(pc), nest |-> nesting]
      BY InstructionRecords
    <3> QED
      BY <1>7, <2>1, <3>1, <3>2 DEF TaskCompute
  <2>2. CASE EnterMask
    <3>1. Mask(Live) = [reg |-> reg, pc |-> At("count", pc.n), nest |-> nesting]
      BY InstructionRecords
    <3> QED
      BY <1>7, <2>2, <3>1 DEF EnterMask
  <2>3. CASE EnterCount
    <3>1. Count(Live) = [reg |-> reg, pc |-> Advance(pc), nest |-> nesting + 1]
      BY InstructionRecords
    <3> QED
      BY <1>7, <2>3, <3>1 DEF EnterCount
  <2>4. CASE ExitCount
    <3>1. Uncount(Live) = [reg |-> reg, pc |-> At("leave", pc.n), nest |-> nesting - 1]
      BY InstructionRecords
    <3> QED
      BY <1>7, <2>4, <3>1 DEF ExitCount
  <2>5. CASE ExitUnmask
    <3>1. Leave(Live) = [reg |-> reg, pc |-> Advance(pc), nest |-> nesting]
      BY InstructionRecords
    <3> QED
      BY <1>7, <2>5, <3>1 DEF ExitUnmask
  <2> QED
    BY <2>1, <2>2, <2>3, <2>4, <2>5
<1>9. Views' = [Views EXCEPT ![t] = d] /\ Entered' = Entered
  BY <1>4, <1>5, <1>8
<1>10. PICK c : c = Live
  OBVIOUS
<1> QED
  BY <1>3, <1>5, <1>6, <1>8, <1>9, <1>10, StepView

\* A trap puts the context of the running task, at the place it returns to, where
\* the task is seen from then on.
LEMMA TrapContext ==
  ASSUME IInv, NEW p \in Pcs, NEW handler \in {"exception", "interrupt"}, Trap(p, handler),
         pc.at \notin TrapLabels \cup {"boot"}, DepthOf(p) = DepthOf(pc)
  PROVE  /\ cur' = cur /\ cur \in Created /\ Created' = Created
         /\ \A u \in Created \ {cur} : ContextOf(u)' = ContextOf(u) /\ (Early(u)' <=> Early(u))
         /\ Context(cur)' = [reg |-> reg, pc |-> p, nest |-> nesting]
         /\ p.at \in EarlyLabels => SavedAt(cur, 1)' = SavedAt(cur, 1)
         /\ pc # Boot /\ pc' # Boot
<1>1. /\ TypeOK /\ Runs /\ cur \in Tasks /\ cur \in Created
      /\ sp + 1 = DepthOf(p) /\ sp \in 0 .. 1
  BY DEF IInv, Runs, Created, DepthOf
<1>2. /\ stack' = [stack EXCEPT ![cur][sp + 1] = Frame(p)]
      /\ top' = [top EXCEPT ![cur] = sp + 1]
      /\ cur' = cur /\ pc' = At(handler, 0) /\ pc'.at = handler
  BY PcTypes DEF Trap
<1>3. /\ top'[cur] = sp + 1 /\ stack'[cur][sp + 1] = Frame(p)
      /\ sp = 1 => stack'[cur][1] = stack[cur][1]
      /\ \A u \in Tasks \ {cur} : stack'[u] = stack[u] /\ top'[u] = top[u]
  BY <1>1, <1>2 DEF TypeOK
<1>4. Created' = Created
  BY <1>1, <1>3 DEF Created
<1>5. \A u \in Created \ {cur} : Context(u)' = Context(u) /\ SavedAt(u, 1)' = SavedAt(u, 1)
  BY <1>2, <1>3 DEF Context, Running, SavedAt, Created
<1>6. Context(cur)' = [reg |-> reg, pc |-> p, nest |-> nesting]
  <2>1. Frame(p).pc = p /\ Frame(p).nest = nesting /\ LoadedFrom(Frame(p)) = reg
    BY <1>1, FrameType DEF Frame
  <2>2. ~Running(cur)'
    BY <1>2 DEF Running, TrapLabels
  <2> QED
    BY <1>2, <1>3, <2>1, <2>2 DEF Context, SavedAt
<1>7. p.at \in EarlyLabels => SavedAt(cur, 1)' = SavedAt(cur, 1)
  BY <1>1, <1>2, <1>3 DEF SavedAt, DepthOf
<1> QED
  BY <1>1, <1>2, <1>4, <1>5, <1>6, <1>7 DEF ContextOf, Early, Boot, At

LEMMA YieldView ==
  ASSUME IInv, portYIELD
  PROVE  View!Next
<1>1. pc.at = "run" /\ Trap(Advance(pc), "exception") /\ pc \in Pcs
  BY DEF portYIELD, IInv, TypeOK
<1>2. Advance(pc) \in Pcs /\ Advance(pc).at = "run" /\ DepthOf(Advance(pc)) = DepthOf(pc)
  BY <1>1, PcTypes DEF DepthOf, EarlyLabels
<1>3. /\ cur' = cur /\ cur \in Created /\ Created' = Created
      /\ \A u \in Created \ {cur} : ContextOf(u)' = ContextOf(u) /\ (Early(u)' <=> Early(u))
      /\ Context(cur)' = [reg |-> reg, pc |-> Advance(pc), nest |-> nesting]
      /\ pc # Boot /\ pc' # Boot
  BY <1>1, <1>2, TrapContext DEF TrapLabels
<1>4. Context(cur)' = Yield(Live)
  BY <1>3, InstructionRecords
<1>5. ~Early(cur)' /\ ContextOf(cur)' = Yield(Live)
  BY <1>2, <1>3, <1>4 DEF Early, ContextOf, EarlyLabels
<1>6. Context(cur) = Live /\ ~Early(cur) /\ ContextOf(cur) = Live
  BY <1>1 DEF Context, Running, Early, ContextOf, Live, TrapLabels, EarlyLabels
<1>7. PICK t \in Tasks : t = cur
  BY <1>3 DEF Created
<1>8. Views' = [Views EXCEPT ![t] = Yield(Live)]
  BY <1>3, <1>5, <1>7 DEF Views, Created
<1>9. Entered' = Entered
  BY <1>3, <1>5, <1>6 DEF Entered
<1>10. Views[t] = Live /\ Live # None /\ CanYield(Live)
  BY <1>1, <1>3, <1>6, <1>7, ContextIsNone DEF Views, CanYield, Live
<1>11. PICK c, d : c = Live /\ d = Yield(Live) /\ d = Yield(c) /\ CanYield(c)
  BY <1>10
<1> QED
  BY <1>8, <1>9, <1>10, <1>11, StepView

LEMMA InterruptView ==
  ASSUME IInv, Interrupt
  PROVE  Views' = Views /\ Entered' = Entered
<1>1. mie /\ pc # Boot /\ Trap(pc, "interrupt") /\ pc \in Pcs
  BY DEF Interrupt, IInv, TypeOK
<1>2. pc.at \notin TrapLabels \cup {"boot"}
  BY <1>1 DEF IInv, Handles
<1>3. /\ cur' = cur /\ cur \in Created /\ Created' = Created
      /\ \A u \in Created \ {cur} : ContextOf(u)' = ContextOf(u) /\ (Early(u)' <=> Early(u))
      /\ Context(cur)' = Live
      /\ pc.at \in EarlyLabels => SavedAt(cur, 1)' = SavedAt(cur, 1)
      /\ pc # Boot /\ pc' # Boot
  BY <1>1, <1>2, TrapContext DEF Live
<1>4. Context(cur) = Live /\ Live.pc = pc
  BY <1>2 DEF Context, Running, Live
<1>5. Early(cur)' <=> Early(cur)
  BY <1>3, <1>4 DEF Early
<1>6. ContextOf(cur)' = ContextOf(cur)
  BY <1>3, <1>4, <1>5 DEF ContextOf, Early
<1> QED
  BY <1>3, <1>5, <1>6 DEF Views, Entered

LEMMA HandleView ==
  ASSUME IInv, vTaskSwitchContext \/ RestoreStatus \/ RestoreRegisters
  PROVE  Views' = Views /\ Entered' = Entered
<1>1. /\ pc.at \in TrapLabels /\ pc'.at \in TrapLabels /\ UNCHANGED <<stack, top>>
      /\ Created' = Created
  BY PcTypes DEF vTaskSwitchContext, RestoreStatus, RestoreRegisters, TrapLabels, Created
<1>2. \A u \in Created : Context(u)' = Context(u) /\ SavedAt(u, 1)' = SavedAt(u, 1)
  BY <1>1 DEF Context, Running, SavedAt
<1>3. \A u \in Created : ContextOf(u)' = ContextOf(u) /\ (Early(u)' <=> Early(u))
  BY <1>2 DEF ContextOf, Early
<1>4. pc # Boot /\ pc' # Boot
  BY <1>1 DEF TrapLabels, Boot, At
<1> QED
  BY <1>1, <1>3, <1>4 DEF Views, Entered

LEMMA MretView ==
  ASSUME IInv, Mret
  PROVE  Views' = Views /\ Entered' = Entered
<1>1. /\ UNCHANGED <<cur, stack, top>> /\ cur \in Created /\ ~Running(cur)
      /\ Live' = SavedAt(cur, top[cur]) /\ pc'.at \in Resumable
  BY MretContext
<1>2. Context(cur) = SavedAt(cur, top[cur]) /\ Context(cur)' = Context(cur)
  BY <1>1 DEF Context, Running, Resumable, StartLabels, TrapLabels
<1>3. SavedAt(cur, 1)' = SavedAt(cur, 1)
  BY <1>1 DEF SavedAt
<1>4. ContextOf(cur)' = ContextOf(cur) /\ (Early(cur)' <=> Early(cur))
  BY <1>2, <1>3 DEF ContextOf, Early
<1>5. pc # Boot /\ pc' # Boot
  BY <1>1 DEF Mret, Resumable, StartLabels, Boot, At
<1> QED
  BY <1>1, <1>4, <1>5, SameView

\* Every task has a processor of its own: its registers, its place and its critical
\* depth change by its own instructions alone.
THEOREM ContextImplementsView == Spec => TaskSpec
<1>1. Init => View!Init
  <2> SUFFICES ASSUME Init PROVE View!Init
    OBVIOUS
  <2>1. Created = {} /\ ~Entered
    BY DEF Init, Created, Entered
  <2>2. View!NoTask = None
    BY DEF View!NoTask, View!At, None, At
  <2> QED
    BY <2>1, <2>2 DEF View!Init, Views
<1>2. IInv /\ IInv' /\ [Next]_vars => [View!Next]_<<Views, Entered>>
  <2> SUFFICES ASSUME IInv, IInv', [Next]_vars PROVE [View!Next]_<<Views, Entered>>
    OBVIOUS
  <2>1. ASSUME NEW t \in Tasks, pxPortInitialiseStack(t) PROVE View!Next
    BY <2>1, CreateView
  <2>2. CASE Start
    BY <2>2, StartStatusView, StartView DEF Start
  <2>3. CASE Interrupt
    BY <2>3, InterruptView
  <2>4. CASE Handle
    BY <2>4, HandleView, MretView DEF Handle
  <2>5. CASE Task
    BY <2>5, InstructionView, YieldView DEF Task
  <2>6. CASE UNCHANGED vars
    <3>1. Created' = Created /\ \A u \in Created : Context(u)' = Context(u) /\ SavedAt(u, 1)' = SavedAt(u, 1)
      BY <2>6 DEF vars, Created, Context, Running, Live, SavedAt
    <3>2. \A u \in Created : ContextOf(u)' = ContextOf(u) /\ (Early(u)' <=> Early(u))
      BY <3>1 DEF ContextOf, Early
    <3> QED
      BY <2>6, <3>1, <3>2 DEF vars, Views, Entered
  <2> QED
    BY <2>1, <2>2, <2>3, <2>4, <2>5, <2>6 DEF Next
<1> QED
  BY <1>1, <1>2, ContextInvariant, PTL DEF Spec, TaskSpec, View!Spec
=============================================================================
