-------------------------- MODULE BareMetalProofs --------------------------
(***************************************************************************)
(* The bare-metal program under the simulator, for every image, number of  *)
(* waits and number of counters: the verdict is the program's, what runs   *)
(* is what was linked, the timer traps only while do_mtime waits, and the  *)
(* counters dumped are of one instant.                                     *)
(*                                                                         *)
(* A trap interrupts main at a place, the one it returns to, and what is   *)
(* known of the registers, the timer and the counters is known of that     *)
(* place, whether the software is there or in a handler.                   *)
(***************************************************************************)
EXTENDS BareMetal, SequenceTheorems, TLAPS

-----------------------------------------------------------------------------
(* The invariant.                                                          *)

Booting == {"start", "fpu", "mie_off", "mie_clear", "vector", "mei_on", "mti_on", "mie_on"}
SettingUp == {"pause", "clear", "select", "resume", "floats", "arm"}
Waiting == {"wfi", "asleep", "woken", "mask"}
Finishing == {"addr", "pause_dump", "fetch", "resume_dump", "exit", "halted"}
Handlers == {"mti", "mti_set", "return", "exception"}
Going == SettingUp \cup Waiting \cup Finishing

\* Where main is, or is interrupted.
Place == IF pc \in Handlers THEN mepc ELSE pc

TypeOK ==
  /\ phase \in {"options", "load", "reset", "run", "end"}
  /\ verdict \in {"none", "usage", "sigint", "error", "limit", "finished", "aborted"}
  /\ {limited, finish, error, sigint, timer, mtip} \subseteq BOOLEAN
  /\ pc \in Booting \cup Going \cup Handlers \cup {"gave_up"}
  /\ mepc \in {"start", "woken"} \cup InMain
  /\ csr \in [{"mstatus", "mie", "mtvec", "mcountinhibit"} -> SUBSET Nat]
  /\ k \in Nat /\ count \in [Counters -> Nat]
  /\ select \in [3 .. Hpm -> Nat] /\ data \in [Lines -> Nat]

\* How the host's main knows of the end.
VerdictInv ==
  /\ finish <=> pc \in {"halted", "gave_up"}
  /\ error <=> pc = "gave_up"
  /\ phase \in {"options", "load", "reset"} => pc = "start"
  /\ phase = "end" <=> verdict # "none"
  /\ VerdictTrue

\* What a linker makes: sections that are loaded or cleared do not overlap.
Sections == [name : STRING, alloc : BOOLEAN, type : STRING, addr : Nat, size : Nat]
Covers(s, a) == s.alloc /\ a \in s.addr .. s.addr + s.size - 1
Linked ==
  \A f \in Images :
    /\ f \in Seq(Sections)
    /\ \A m, n \in DOMAIN f, a \in Itcm \cup Dtcm : Covers(f[m], a) /\ Covers(f[n], a) => m = n

\* The loader has written the sections before image, and nothing else.
Loads(s, a) == Covers(s, a) /\ s.type = "progbits"
Written(j) ==
  \A a \in DOMAIN memory :
    /\ \A n \in 1 .. j : Loads(file[n], a) => memory[a] = Byte(file[n], a - file[n].addr)
    /\ (\A n \in 1 .. j : ~Loads(file[n], a)) => memory[a] = Zero
LoadInv ==
  /\ DOMAIN memory = Itcm \cup Dtcm
  /\ phase = "options" => \A a \in DOMAIN memory : memory[a] = Zero
  /\ phase \in {"load", "reset", "run"} =>
       /\ file \in Images /\ image \in Seq(Sections)
       /\ \E j \in 0 .. Len(file) :
            /\ Len(image) = Len(file) - j
            /\ \A i \in 1 .. Len(image) : image[i] = file[j + i]
            /\ Written(j)
            /\ phase # "load" => j = Len(file)

\* Which interrupts may be taken, by place.
TrapInv ==
  /\ pc \in Handlers => mepc \in InMain \cup {"woken"}
  /\ pc \in {"mti", "mti_set"} => mepc \in {"wfi", "woken", "mask"}
  /\ pc \in Booting \cup Handlers => 3 \notin csr["mstatus"]
  /\ pc \in Handlers => 7 \in csr["mstatus"]
  /\ pc \in Going => 3 \in csr["mstatus"]
  /\ Place \in (Booting \ {"start"}) \cup SettingUp => ~timer /\ ~mtip
  /\ Place \in Finishing => 7 \notin csr["mie"]
  /\ Place \in Going \cup {"mei_on", "mti_on", "mie_on"} => csr["mtvec"] = Table \cup {0}

\* What the counters are, by place.
Started == Booting \cup {"pause", "select", "resume", "floats", "arm", "mask", "addr", "pause_dump"}
Paused == {"clear", "select", "resume", "fetch", "resume_dump"}
Counting == {"floats", "arm", "addr", "pause_dump"} \cup Waiting
CounterInv ==
  /\ Place \in Started => k = 0
  /\ Place \in {"clear", "fetch"} => k \in Lines
  /\ Place \in Paused => csr["mcountinhibit"] = PauseBits
  /\ Place \in Counting => csr["mcountinhibit"] = {}
  /\ Place = "clear" => \A i \in Lines : i < k => count[FetchedFrom(i)] = 0
  /\ Place \in {"select", "resume"} => \A c \in Counters : count[c] = 0
  /\ Place \in {"resume"} \cup Counting \cup Finishing => select = [n \in 3 .. Hpm |-> EventOf(n)]
  /\ Place \in Counting \cup {"fetch"} => \A c \in Counters : count[c] <= count[mcycle]
  /\ Place = "fetch" => \A i \in Lines : i < k => data[i] = count[FetchedFrom(i)]
  /\ Place \in {"resume_dump", "exit", "halted"} => \A i \in Lines : data[i] <= data[0]

IInv == TypeOK /\ VerdictInv /\ TrapInv /\ CounterInv

-----------------------------------------------------------------------------
(* The masks of the three bits the traps look at.                          *)

LEMMA Masks == MIE = {3} /\ MPIE = {7} /\ MTI = {7} /\ BIT_MASK("mie", "MEI") = {11}
<1>1. MIE = {3} /\ MPIE = {7}
  <2>1. \A f \in mstatus : f.name = "MIE" => f.mask = {3}
    BY DEF mstatus, Field
  <2>2. \E f \in mstatus : f.name = "MIE"
    BY DEF mstatus, Field
  <2>3. \A f \in mstatus : f.name = "MPIE" => f.mask = {7}
    BY DEF mstatus, Field
  <2>4. \E f \in mstatus : f.name = "MPIE"
    BY DEF mstatus, Field
  <2>5. Fields["mstatus"] = mstatus
    BY DEF Fields
  <2> QED BY <2>1, <2>2, <2>3, <2>4, <2>5 DEF MIE, MPIE, BIT_MASK
<1>2. MTI = {7} /\ BIT_MASK("mie", "MEI") = {11}
  <2>1. \A f \in mie : f.name = "MTI" => f.mask = {7}
    BY DEF mie, Pending, Field, PlatformDefined, WideField
  <2>2. Field("MTI", 7, 1) \in mie
    BY DEF mie, Pending, Field, MLevel
  <2>3. \A f \in mie : f.name = "MEI" => f.mask = {11}
    BY DEF mie, Pending, Field, PlatformDefined, WideField
  <2>4. Field("MEI", 11, 1) \in mie
    BY DEF mie, Pending, Field, MLevel
  <2>5. Fields["mie"] = mie
    BY DEF Fields
  <2>6. Field("MTI", 7, 1).name = "MTI" /\ Field("MEI", 11, 1).name = "MEI"
    BY DEF Field
  <2> QED BY <2>1, <2>2, <2>3, <2>4, <2>5, <2>6 DEF MTI, BIT_MASK
<1> QED BY <1>1, <1>2

-----------------------------------------------------------------------------
(* The host's part: every step is the host's, the program's exit, or one   *)
(* the host sees nothing of.                                               *)

CoreStep == Core /\ Running /\ pc' \notin {"halted", "gave_up"}

LEMMA Kinds ==
    ASSUME VerdictInv, TypeOK, TrapInv, [Next]_vars
    PROVE  \/ (SimStep \/ Signal \/ UNCHANGED simVars) /\ UNCHANGED softVars
           \/ CoreStep \/ ExitMain \/ ExitException
<1> USE DEF CoreStep
<1>1. CASE UNCHANGED vars
  BY <1>1 DEF vars
<1>2. CASE (SimStep \/ Signal) /\ UNCHANGED softVars
  BY <1>2
<1>3. CASE TimerRaises \/ CountEvents
  BY <1>3 DEF TimerRaises, CountEvents, Running, VerdictInv
<1>4. CASE TimerInterrupt \/ Exception
  BY <1>4 DEF TimerInterrupt, Exception, Enters
<1>5. CASE Startup
  BY <1>5 DEF Startup, ClearCompare, EnableFpu, DisableInterrupts, ClearEnables, SetVector,
     EnableExternal, EnableTimer, EnableInterrupts, Boot, At, Goes
<1>6. CASE Main
  BY <1>6 DEF Main, riscv_hpm_pause, riscv_hpm_clear_counters, SelectEvents, riscv_hpm_resume,
     do_floats, ArmTimer, Sleep, NextWait, MaskTimer, do_addr, riscv_hpm_fetch_counters, At, Goes
<1>7. CASE Trap
  <2>1. CASE Mret
    <3>1. mepc \in InMain \cup {"woken"}
      BY <2>1 DEF Mret, TrapInv, Handlers
    <3> QED BY <2>1, <3>1 DEF Mret, InMain
  <2>2. CASE HandlerReads \/ HandlerWrites
    BY <2>2 DEF HandlerReads, HandlerWrites, At, Goes
  <2> QED BY <1>7, <2>1, <2>2 DEF Trap
<1> QED BY <1>1, <1>2, <1>3, <1>4, <1>5, <1>6, <1>7 DEF Next

\* The verdict is the program's.
LEMMA VerdictStep == ASSUME VerdictInv, TypeOK, TrapInv, [Next]_vars PROVE VerdictInv'
<1> USE DEF VerdictInv, VerdictTrue
<1>1. CASE UNCHANGED <<simVars, softVars>>
  BY <1>1 DEF simVars, softVars
<1>2. CASE SimStep /\ UNCHANGED softVars
  <2>1. CASE Usage \/ Options \/ CannotOpen \/ LoadSection \/ LoadDone \/ Reset
    BY <1>2, <2>1 DEF Usage, Options, CannotOpen, LoadSection, LoadDone, Reset, Ends, softVars
  <2>2. CASE Report
    BY <1>2, <2>2 DEF Report, Ends, Message, softVars
  <2> QED BY <1>2, <2>1, <2>2 DEF SimStep
<1>3. CASE Signal /\ UNCHANGED softVars
  BY <1>3 DEF Signal, softVars
<1>4. CASE CoreStep
  BY <1>4 DEF CoreStep, Core, Running, simVars
<1>5. CASE ExitMain
  BY <1>5 DEF ExitMain, SimCtrlExit, At, Goes, Running
<1>6. CASE ExitException
  BY <1>6 DEF ExitException, SimCtrlExit, At, Goes, Running, Ends
<1> QED BY Kinds, <1>1, <1>2, <1>3, <1>4, <1>5, <1>6

\* A section is written where no other was.
LEMMA LoadSectionStep == ASSUME Linked, LoadInv, LoadSection PROVE LoadInv'
<1>1. /\ file \in Images /\ image \in Seq(Sections) /\ image # <<>>
      /\ UNCHANGED <<phase, file>> /\ phase = "load"
      /\ image' = Tail(image) /\ memory' = Loaded(memory, Head(image))
  BY DEF LoadInv, LoadSection
<1>2. PICK j \in 0 .. Len(file) :
        /\ Len(image) = Len(file) - j
        /\ \A i \in 1 .. Len(image) : image[i] = file[j + i]
        /\ Written(j)
  BY <1>1 DEF LoadInv
<1>3. file \in Seq(Sections)
  BY <1>1 DEF Linked
<1>4. Len(file) \in Nat /\ Len(image) \in Nat /\ Len(image) > 0
  BY <1>1, <1>3, EmptySeq, LenProperties
<1>5. /\ image' \in Seq(Sections) /\ Len(image') = Len(image) - 1
      /\ \A i \in 1 .. Len(image') : image'[i] = image[i + 1]
      /\ Head(image) = image[1]
  BY <1>1, <1>4, HeadTailProperties
<1>6. j + 1 \in 1 .. Len(file) /\ Head(image) = file[j + 1] /\ j \in Nat
  BY <1>2, <1>4, <1>5
<1>7. \A i \in 1 .. Len(image') : image'[i] = file[j + 1 + i]
  <2> TAKE i \in 1 .. Len(image')
  <2>1. image'[i] = image[i + 1] /\ i + 1 \in 1 .. Len(image) /\ i \in Nat
    BY <1>4, <1>5
  <2>2. j + (i + 1) = j + 1 + i
    BY <1>6, <2>1
  <2> QED BY <1>2, <2>1, <2>2
<1>8. DOMAIN memory' = DOMAIN memory /\ DOMAIN memory = Itcm \cup Dtcm
  BY <1>1 DEF Loaded, LoadInv
<1>9. Written(j + 1)'
  <2> DEFINE s == file[j + 1]
  <2> SUFFICES ASSUME NEW a \in DOMAIN memory
               PROVE  /\ \A n \in 1 .. j + 1 :
                           Loads(file[n], a) => memory'[a] = Byte(file[n], a - file[n].addr)
                      /\ (\A n \in 1 .. j + 1 : ~Loads(file[n], a)) => memory'[a] = Zero
    BY <1>1, <1>8 DEF Written, Loads, Covers, Byte
  <2>1. memory'[a] = IF Loads(s, a) THEN Byte(s, a - s.addr) ELSE memory[a]
    BY <1>1, <1>6, <1>8 DEF Loaded, Loads, Covers, Accepts
  <2>2. /\ \A n \in 1 .. j : Loads(file[n], a) => memory[a] = Byte(file[n], a - file[n].addr)
        /\ (\A n \in 1 .. j : ~Loads(file[n], a)) => memory[a] = Zero
    BY <1>2 DEF Written
  <2>3. CASE Loads(s, a)
    <3>1. \A n \in 1 .. j + 1 : Loads(file[n], a) => n = j + 1
      <4> TAKE n \in 1 .. j + 1
      <4>1. n \in DOMAIN file /\ j + 1 \in DOMAIN file
        BY <1>3, <1>4, <1>6, LenProperties
      <4> QED BY <1>1, <1>8, <2>3, <4>1 DEF Linked, Loads, Covers
    <3>2. j + 1 \in 1 .. j + 1
      BY <1>6
    <3> QED BY <2>1, <2>3, <3>1, <3>2
  <2>4. CASE ~Loads(s, a)
    <3>1. \A n \in 1 .. j + 1 : n \in 1 .. j \/ n = j + 1
      BY <1>6
    <3>2. \A n \in 1 .. j : n \in 1 .. j + 1
      BY <1>6
    <3> QED BY <2>1, <2>2, <2>4, <3>1, <3>2
  <2> QED BY <2>3, <2>4
<1>10. j + 1 \in 0 .. Len(file) /\ Len(image') = Len(file) - (j + 1)
  BY <1>2, <1>4, <1>5, <1>6
<1> QED BY <1>1, <1>5, <1>7, <1>8, <1>9, <1>10 DEF LoadInv

\* The sections left are those not written yet.
LEMMA LoadStep == ASSUME Linked, VerdictInv, TypeOK, TrapInv, LoadInv, [Next]_vars PROVE LoadInv'
<1>1. ASSUME UNCHANGED <<phase, file, image, memory>> PROVE LoadInv'
  BY <1>1 DEF LoadInv, Written
<1>2. ASSUME phase' = "end", UNCHANGED memory PROVE LoadInv'
  BY <1>2 DEF LoadInv
<1>3. CASE UNCHANGED <<simVars, softVars>> \/ CoreStep \/ Signal
  BY <1>1, <1>3 DEF simVars, CoreStep, Core, Signal
<1>4. CASE ExitMain \/ ExitException
  BY <1>1, <1>2, <1>4 DEF ExitMain, ExitException, SimCtrlExit, Ends
<1>5. CASE Usage \/ CannotOpen \/ Report
  BY <1>2, <1>5 DEF Usage, CannotOpen, Report, Ends
<1>6. CASE Options
  <2>1. /\ file' \in Images /\ image' = file' /\ phase' = "load"
        /\ UNCHANGED memory /\ phase = "options"
    BY <1>6 DEF Options
  <2>2. file' \in Seq(Sections) /\ Len(file') \in Nat
    BY <2>1, LenProperties DEF Linked
  <2>3. Written(0)'
    BY <2>1 DEF Written, LoadInv
  <2>4. \A i \in 1 .. Len(image') : image'[i] = file'[0 + i]
    BY <2>1, <2>2
  <2> QED BY <2>1, <2>2, <2>3, <2>4 DEF LoadInv
<1>7. CASE LoadSection
  BY <1>7, LoadSectionStep
<1>8. CASE LoadDone
  <2>1. image = <<>> /\ UNCHANGED <<file, image, memory>> /\ phase = "load" /\ phase' = "reset"
    BY <1>8 DEF LoadDone
  <2>2. file \in Seq(Sections) /\ Len(file) \in Nat /\ Len(image) = 0
    BY <2>1, EmptySeq, LenProperties DEF Linked, LoadInv
  <2> QED BY <2>1, <2>2 DEF LoadInv, Written
<1>9. CASE Reset
  BY <1>9 DEF Reset, LoadInv, Written
<1> QED BY Kinds, <1>3, <1>4, <1>5, <1>6, <1>7, <1>8, <1>9 DEF SimStep

\* When the reset is released every section is written.
LEMMA LoadShows == ASSUME Linked, LoadInv PROVE ImageLoaded
<1> SUFFICES ASSUME phase \in {"reset", "run"}, NEW n \in DOMAIN file, file[n].alloc,
                    NEW a \in (file[n].addr .. file[n].addr + file[n].size - 1) \cap DOMAIN memory
             PROVE  memory[a] = IF file[n].type = "progbits" THEN Byte(file[n], a - file[n].addr)
                                ELSE Zero
  BY DEF ImageLoaded
<1>1. file \in Images /\ Written(Len(file)) /\ a \in Itcm \cup Dtcm
  BY DEF LoadInv
<1>2. DOMAIN file = 1 .. Len(file)
  BY <1>1, LenProperties DEF Linked
<1>3. CASE file[n].type = "progbits"
  BY <1>1, <1>2, <1>3 DEF Written, Loads, Covers
<1>4. CASE file[n].type # "progbits"
  <2>1. \A m \in 1 .. Len(file) : ~Loads(file[m], a)
    BY <1>1, <1>2, <1>4 DEF Linked, Loads, Covers
  <2> QED BY <1>1, <1>4, <2>1 DEF Written
<1> QED BY <1>3, <1>4

-----------------------------------------------------------------------------
(* The traps.                                                              *)

\* The start-up code: interrupts stay off until the compare register is written and
\* the vectors are set.
LEMMA StartupTraps == ASSUME TypeOK, TrapInv, Startup PROVE TrapInv'
<1> USE Masks DEF TypeOK, TrapInv, Place, Booting, SettingUp, Waiting, Finishing, Handlers, Going,
    At, Goes, csr_write, csr_set_bits, csr_clr_bits, Bits, Xlen, Table
<1>1. CASE ClearCompare
  BY <1>1 DEF ClearCompare, mtimecmp_set
<1>2. CASE EnableFpu
  BY <1>2 DEF EnableFpu, Boot, Quiet
<1>3. CASE DisableInterrupts
  BY <1>3 DEF DisableInterrupts, Boot, Quiet
<1>4. CASE ClearEnables
  BY <1>4 DEF ClearEnables, Boot, Quiet
<1>5. CASE SetVector
  BY <1>5 DEF SetVector, Boot, Quiet
<1>6. CASE EnableExternal
  BY <1>6 DEF EnableExternal, Boot, Quiet
<1>7. CASE EnableTimer
  BY <1>7 DEF EnableTimer, Boot, Quiet
<1>8. CASE EnableInterrupts
  BY <1>8 DEF EnableInterrupts, Boot, Quiet
<1> QED BY <1>1, <1>2, <1>3, <1>4, <1>5, <1>6, <1>7, <1>8 DEF Startup

\* main: the line is down until do_mtime arms the timer, and masked when it is done.
LEMMA MainTraps == ASSUME TypeOK, TrapInv, Main PROVE TrapInv'
<1> USE Masks DEF TypeOK, TrapInv, Place, Booting, SettingUp, Waiting, Finishing, Handlers, Going,
    At, Goes, csr_write, csr_clr_bits, Bits, Xlen, PauseBits
<1>1. CASE \/ riscv_hpm_pause("pause", "clear") \/ riscv_hpm_resume("resume", "floats")
           \/ riscv_hpm_pause("pause_dump", "fetch") \/ riscv_hpm_resume("resume_dump", "exit")
  BY <1>1 DEF riscv_hpm_pause, riscv_hpm_resume
<1>2. CASE riscv_hpm_clear_counters \/ SelectEvents \/ riscv_hpm_fetch_counters
  BY <1>2 DEF riscv_hpm_clear_counters, SelectEvents, riscv_hpm_fetch_counters
<1>3. CASE do_floats \/ Sleep \/ NextWait \/ do_addr \/ ExitMain
  BY <1>3 DEF do_floats, Sleep, NextWait, do_addr, ExitMain
<1>4. CASE ArmTimer
  BY <1>4 DEF ArmTimer, mtimecmp_set
<1>5. CASE MaskTimer
  BY <1>5 DEF MaskTimer
<1> QED BY <1>1, <1>2, <1>3, <1>4, <1>5 DEF Main

\* A trap runs with interrupts off, and goes back to its place with them on.
LEMMA TrapTraps == ASSUME TypeOK, TrapInv, Trap \/ Exception PROVE TrapInv'
<1> USE Masks DEF TypeOK, TrapInv, Place, Booting, SettingUp, Waiting, Finishing, Handlers, Going,
    At, Goes, InMain
<1>1. CASE HandlerReads \/ ExitException
  BY <1>1 DEF HandlerReads, ExitException
<1>2. CASE HandlerWrites
  BY <1>2 DEF HandlerWrites, mtimecmp_set
<1>3. CASE Mret
  BY <1>3 DEF Mret
<1>4. CASE Exception
  BY <1>4 DEF Exception, Enters, Enabled
<1> QED BY <1>1, <1>2, <1>3, <1>4 DEF Trap

\* The timer's interrupt finds main in do_mtime.
LEMMA TimerTraps == ASSUME VerdictInv, TypeOK, TrapInv, TimerRaises \/ TimerInterrupt PROVE TrapInv'
<1> USE DEF TypeOK, TrapInv, Place, Booting, SettingUp, Waiting, Finishing, Handlers, Going
<1>1. CASE TimerRaises
  BY <1>1 DEF TimerRaises
<1>2. CASE TimerInterrupt
  <2>1. 3 \in csr["mstatus"] /\ 7 \in csr["mie"] /\ mtip /\ ~finish
    BY <1>2, Masks DEF TimerInterrupt, Enabled, TimerPending, Running
  <2>2. pc \in Waiting
    BY <2>1 DEF VerdictInv
  <2> QED BY <1>2, <2>1, <2>2, Masks DEF TimerInterrupt, Enters, Enabled, InMain
<1> QED BY <1>1, <1>2

LEMMA TrapStep == ASSUME VerdictInv, TypeOK, TrapInv, [Next]_vars PROVE TrapInv'
<1>1. CASE UNCHANGED softVars
  BY <1>1 DEF softVars, TrapInv, Place
<1>2. CASE CountEvents
  BY <1>2 DEF CountEvents, TrapInv, Place
<1> QED BY <1>1, <1>2, StartupTraps, MainTraps, TrapTraps, TimerTraps DEF Next, vars

LEMMA TrapShows == ASSUME TypeOK, TrapInv PROVE TimerTrapsInWait
BY DEF TrapInv, TimerTrapsInWait, Place, Going, Waiting, Handlers

-----------------------------------------------------------------------------
(* The counters.                                                           *)

LEMMA Fetched ==
    /\ \A i \in Lines : FetchedFrom(i) \in Counters
    /\ \A c \in Counters : \E i \in Lines : FetchedFrom(i) = c
    /\ \A i, j \in Lines : FetchedFrom(i) = FetchedFrom(j) => i = j
    /\ mcycle \in Counters /\ 0 \in Lines /\ FetchedFrom(0) = mcycle
    /\ Lines \subseteq Nat /\ Counters \subseteq Bits
<1> USE BareMetalAssumption DEF Lines, Counters, FetchedFrom, mcycle, minstret, Bits, Xlen
<1>1. \A c \in Counters : \E i \in Lines : FetchedFrom(i) = c
  <2> TAKE c \in Counters
  <2>1. CASE c = 0
    BY <2>1
  <2>2. CASE c = 2
    <3>1. FetchedFrom(1) = 2
      OBVIOUS
    <3> QED BY <2>2, <3>1
  <2>3. CASE c \in 3 .. Hpm
    <3>1. c - 1 \in Lines /\ FetchedFrom(c - 1) = c
      BY <2>3
    <3> QED BY <3>1
  <2> QED BY <2>1, <2>2, <2>3
<1> QED BY <1>1

\* Steps that touch neither the counters nor what goes with them, and stay where
\* they count alike.
LEMMA CountersKept ==
    ASSUME TypeOK, CounterInv, UNCHANGED <<k, count, select, data>>,
           csr'["mcountinhibit"] = csr["mcountinhibit"],
           \/ Place' = Place
           \/ Place \in Counting /\ Place' \in Counting /\ (Place' \in Started => k = 0)
           \/ Place \in Booting /\ Place' \in Booting \cup {"pause"}
           \/ Place' = "gave_up"
           \/ Place = "exit" /\ Place' = "halted"
    PROVE  CounterInv'
BY DEF CounterInv, Started, Paused, Counting, Waiting, Booting, Finishing

\* Events count while the counters run, mcycle with every other one.
LEMMA EventsCount == ASSUME TypeOK, CounterInv, CountEvents PROVE CounterInv'
<1>1. PICK busy \in SUBSET (Counters \ {mcycle}) :
        LET steps == {c \in {mcycle} \cup busy : ~Inhibited(c)}
        IN  /\ \A c \in steps : count[c] < MaxCount
            /\ count' = [c \in Counters |-> IF c \in steps THEN count[c] + 1 ELSE count[c]]
  BY DEF CountEvents
<1>2. UNCHANGED <<k, select, data>> /\ csr' = csr /\ Place' = Place
  BY DEF CountEvents, Place
<1>4. ASSUME Place \in Paused PROVE count' = count
  <2>1. \A c \in Counters : Inhibited(c)
    BY <1>4, Fetched DEF CounterInv, Inhibited, PauseBits
  <2>2. count \in [Counters -> Nat]
    BY DEF TypeOK
  <2> QED BY <1>1, <2>1, <2>2, Fetched
<1>5. ASSUME Place \in Counting PROVE \A c \in Counters : count'[c] <= count'[mcycle]
  <2>1. ~Inhibited(mcycle)
    BY <1>5 DEF CounterInv, Inhibited
  <2>2. count'[mcycle] = count[mcycle] + 1
    BY <1>1, <2>1, Fetched
  <2>3. \A c \in Counters : count'[c] \in {count[c], count[c] + 1} /\ count[c] \in Nat
    BY <1>1 DEF TypeOK
  <2>4. \A c \in Counters : count[c] <= count[mcycle]
    BY <1>5 DEF CounterInv
  <2> QED BY <2>2, <2>3, <2>4, Fetched
<1>6. CASE Place \in Paused
  BY <1>2, <1>4, <1>6, CountersKept
<1>7. CASE Place \in Counting
  BY <1>2, <1>5, <1>7 DEF CounterInv, Counting, Waiting, Paused
<1>8. CASE Place \notin Paused \cup Counting
  BY <1>2, <1>8 DEF CounterInv, Counting, Waiting, Paused
<1> QED BY <1>6, <1>7, <1>8

\* riscv_hpm_clear_counters, line by line.
LEMMA ClearCounts ==
    ASSUME TypeOK, CounterInv, riscv_hpm_clear_counters
    PROVE  CounterInv'
<1>1. /\ pc = "clear" /\ pc' \in {"clear", "select"} /\ UNCHANGED <<csr, select, data>>
      /\ count' = [count EXCEPT ![FetchedFrom(k)] = 0]
      /\ IF k + 1 \in Lines THEN k' = k + 1 /\ pc' = "clear" ELSE k' = 0 /\ pc' = "select"
  BY DEF riscv_hpm_clear_counters, At, Goes
<1>2. Place = pc /\ Place' = pc'
  BY <1>1 DEF Place, Handlers
<1>3. k \in Lines /\ k \in Nat /\ FetchedFrom(k) \in Counters
  BY <1>1, <1>2, Fetched DEF CounterInv
<1>5. \A i \in Lines : i <= k => count'[FetchedFrom(i)] = 0
  <2> SUFFICES ASSUME NEW i \in Lines, i <= k PROVE count'[FetchedFrom(i)] = 0
    OBVIOUS
  <2>1. CASE i = k
    BY <1>1, <1>3, <2>1 DEF TypeOK
  <2>2. CASE i < k
    BY <1>1, <1>2, <1>3, <2>2, Fetched DEF CounterInv
  <2> QED BY <1>3, <2>1, <2>2, Fetched
<1>6. CASE pc' = "clear"
  <2>1. k' = k + 1 /\ k' \in Lines
    BY <1>1, <1>6
  <2>2. \A i \in Lines : i < k' => count'[FetchedFrom(i)] = 0
    BY <1>3, <1>5, <2>1, Fetched
  <2> QED BY <1>1, <1>2, <1>6, <2>1, <2>2
        DEF CounterInv, Started, Booting, Paused, Counting, Waiting, Finishing
<1>7. CASE pc' = "select"
  <2>1. k' = 0 /\ k + 1 \notin Lines
    BY <1>1, <1>7
  <2>2. \A i \in Lines : i <= k
    BY <1>3, <2>1, BareMetalAssumption DEF Lines
  <2>3. \A c \in Counters : count'[c] = 0
    BY <1>5, <2>2, Fetched
  <2> QED BY <1>1, <1>2, <1>7, <2>1, <2>3
        DEF CounterInv, Paused, Counting, Waiting, Finishing
<1> QED BY <1>1, <1>6, <1>7

\* riscv_hpm_fetch_counters, line by line, of counters that stand still.
LEMMA FetchCounts ==
    ASSUME TypeOK, CounterInv, riscv_hpm_fetch_counters
    PROVE  CounterInv'
<1>1. /\ pc = "fetch" /\ pc' \in {"fetch", "resume_dump"} /\ UNCHANGED <<csr, select, count>>
      /\ data' = [data EXCEPT ![k] = count[FetchedFrom(k)]]
      /\ IF k + 1 \in Lines THEN k' = k + 1 /\ pc' = "fetch" ELSE k' = 0 /\ pc' = "resume_dump"
  BY DEF riscv_hpm_fetch_counters, At, Goes
<1>2. Place = pc /\ Place' = pc'
  BY <1>1 DEF Place, Handlers
<1>3. k \in Lines /\ k \in Nat /\ FetchedFrom(k) \in Counters
  BY <1>1, <1>2, Fetched DEF CounterInv
<1>5. \A i \in Lines : i <= k => data'[i] = count[FetchedFrom(i)]
  <2> SUFFICES ASSUME NEW i \in Lines, i <= k PROVE data'[i] = count[FetchedFrom(i)]
    OBVIOUS
  <2>1. CASE i = k
    BY <1>1, <1>3, <2>1 DEF TypeOK
  <2>2. CASE i < k
    BY <1>1, <1>2, <1>3, <2>2, Fetched DEF CounterInv
  <2> QED BY <1>3, <2>1, <2>2, Fetched
<1>6. CASE pc' = "fetch"
  <2>1. k' = k + 1 /\ k' \in Lines
    BY <1>1, <1>6
  <2>2. \A i \in Lines : i < k' => data'[i] = count'[FetchedFrom(i)]
    BY <1>1, <1>3, <1>5, <2>1, Fetched
  <2> QED BY <1>1, <1>2, <1>6, <2>1, <2>2
        DEF CounterInv, Started, Booting, Paused, Counting, Waiting, Finishing
<1>7. CASE pc' = "resume_dump"
  <2>1. k' = 0 /\ k + 1 \notin Lines
    BY <1>1, <1>7
  <2>2. \A i \in Lines : i <= k
    BY <1>3, <2>1, BareMetalAssumption DEF Lines
  <2>3. \A i \in Lines : data'[i] = count[FetchedFrom(i)]
    BY <1>5, <2>2
  <2>4. \A i \in Lines : data'[i] <= data'[0]
    BY <1>1, <1>2, <2>3, Fetched DEF CounterInv
  <2> QED BY <1>1, <1>2, <1>7, <2>1, <2>4
        DEF CounterInv, Started, Booting, Paused, Counting, Waiting, Finishing
<1> QED BY <1>1, <1>6, <1>7

\* main, where it neither clears nor fetches: it pauses the counters around the
\* set-up and around the dump.
LEMMA MainCounts ==
    ASSUME TypeOK, TrapInv, CounterInv, Main
    PROVE  CounterInv'
<1> USE DEF At, Goes
<1>1. CASE riscv_hpm_clear_counters \/ riscv_hpm_fetch_counters
  BY <1>1, ClearCounts, FetchCounts
<1>2. CASE riscv_hpm_pause("pause", "clear") \/ riscv_hpm_pause("pause_dump", "fetch")
  <2>1. /\ <<Place, Place'>> \in {<<"pause", "clear">>, <<"pause_dump", "fetch">>}
        /\ csr'["mcountinhibit"] = PauseBits /\ UNCHANGED <<k, count, select, data>>
    BY <1>2 DEF riscv_hpm_pause, Place, Handlers, csr_write, TypeOK
  <2>2. k = 0 /\ \A i \in Lines : ~(i < 0)
    BY <2>1, Fetched DEF CounterInv, Started
  <2> QED BY <2>1, <2>2, Fetched
        DEF CounterInv, Started, Booting, Paused, Counting, Waiting, Finishing
<1>3. CASE riscv_hpm_resume("resume", "floats") \/ riscv_hpm_resume("resume_dump", "exit")
  <2>1. /\ <<Place, Place'>> \in {<<"resume", "floats">>, <<"resume_dump", "exit">>}
        /\ csr'["mcountinhibit"] = {} /\ UNCHANGED <<k, count, select, data>>
    BY <1>3 DEF riscv_hpm_resume, Place, Handlers, csr_write, TypeOK
  <2> QED BY <2>1, Fetched
        DEF CounterInv, Started, Booting, Paused, Counting, Waiting, Finishing
<1>4. CASE SelectEvents
  <2>1. /\ Place = "select" /\ Place' = "resume" /\ UNCHANGED <<csr, k, count, data>>
        /\ select' = [n \in 3 .. Hpm |-> EventOf(n)]
    BY <1>4 DEF SelectEvents, Place, Handlers
  <2> QED BY <2>1
        DEF CounterInv, Started, Booting, Paused, Counting, Waiting, Finishing
<1>5. CASE NextWait
  <2>1. /\ Place = "woken" /\ Place' \in {"wfi", "mask"} /\ k' \in Nat
        /\ Place' = "mask" => k' = 0
        /\ UNCHANGED <<csr, count, select, data>>
    BY <1>5 DEF NextWait, Place, Handlers, TypeOK
  <2> QED BY <2>1
        DEF CounterInv, Started, Booting, Paused, Counting, Waiting, Finishing
<1>6. CASE do_floats \/ ArmTimer \/ Sleep \/ MaskTimer \/ do_addr
  <2>1. /\ Place \in Counting /\ Place' \in Counting
        /\ Place' \in Started => Place \in Started
    BY <1>6 DEF do_floats, ArmTimer, Sleep, MaskTimer, do_addr, Place, Handlers, Started,
       Booting, Counting, Waiting
  <2>2. UNCHANGED <<k, count, select, data>> /\ csr'["mcountinhibit"] = csr["mcountinhibit"]
    BY <1>6 DEF do_floats, ArmTimer, Sleep, MaskTimer, do_addr, csr_clr_bits, TypeOK
  <2>3. Place' \in Started => k = 0
    BY <2>1 DEF CounterInv
  <2> QED BY <2>1, <2>2, <2>3, CountersKept
<1>7. CASE ExitMain
  <2>1. Place = "exit" /\ Place' = "halted"
    BY <1>7 DEF ExitMain, Place, Handlers
  <2> QED BY <1>7, <2>1, CountersKept DEF ExitMain
<1> QED BY <1>1, <1>2, <1>3, <1>4, <1>5, <1>6, <1>7 DEF Main

\* Everything else keeps the counters and their place.
LEMMA CounterStep ==
    ASSUME VerdictInv, TypeOK, TrapInv, CounterInv, [Next]_vars
    PROVE  CounterInv'
<1>1. CASE UNCHANGED softVars
  BY <1>1, CountersKept DEF softVars, Place
<1>2. CASE TimerRaises
  BY <1>2, CountersKept DEF TimerRaises, Place
<1>3. CASE Startup
  <2>1. UNCHANGED <<k, count, select, data>> /\ csr'["mcountinhibit"] = csr["mcountinhibit"]
    BY <1>3 DEF Startup, ClearCompare, EnableFpu, DisableInterrupts, ClearEnables, SetVector,
       EnableExternal, EnableTimer, EnableInterrupts, Boot, csr_write, csr_set_bits,
       csr_clr_bits, TypeOK
  <2>2. Place \in Booting /\ Place' \in Booting \cup {"pause"}
    BY <1>3 DEF Startup, ClearCompare, EnableFpu, DisableInterrupts, ClearEnables, SetVector,
       EnableExternal, EnableTimer, EnableInterrupts, Boot, At, Goes, Place, Handlers, Booting
  <2> QED BY <2>1, <2>2, CountersKept
<1>4. CASE TimerInterrupt \/ Exception
  <2>1. UNCHANGED <<k, count, select, data>> /\ csr'["mcountinhibit"] = csr["mcountinhibit"]
    BY <1>4 DEF TimerInterrupt, Exception, Enters, TypeOK
  <2>2. pc' \in Handlers /\ Place' = mepc' /\ mepc' = IF pc = "asleep" THEN "woken" ELSE pc
    BY <1>4 DEF TimerInterrupt, Exception, Enters, Place, Handlers, InMain
  <2>3. pc \notin Handlers
    <3>1. CASE Exception
      BY <3>1 DEF Exception, InMain, Handlers
    <3>2. CASE TimerInterrupt
      BY <3>2, Masks DEF TimerInterrupt, Enabled, TrapInv
    <3> QED BY <1>4, <3>1, <3>2
  <2>4. Place = pc
    BY <2>3 DEF Place
  <2>5. CASE pc = "asleep"
    BY <2>1, <2>2, <2>4, <2>5, CountersKept DEF Counting, Waiting, Started, Booting
  <2>6. CASE pc # "asleep"
    BY <2>1, <2>2, <2>4, <2>6, CountersKept
  <2> QED BY <2>5, <2>6
<1>5. CASE Trap
  <2>1. UNCHANGED <<k, count, select, data>> /\ csr'["mcountinhibit"] = csr["mcountinhibit"]
    BY <1>5 DEF Trap, HandlerReads, HandlerWrites, ExitException, Mret, TypeOK
  <2>2. Place' = Place \/ Place' = "gave_up"
    BY <1>5 DEF Trap, HandlerReads, HandlerWrites, ExitException, Mret, At, Goes, Place,
       Handlers, TrapInv, InMain
  <2> QED BY <2>1, <2>2, CountersKept
<1> QED BY <1>1, <1>2, <1>3, <1>4, <1>5, EventsCount, MainCounts DEF Next, vars

\* The registers, the loop's index and the counters keep their kind of value.
LEMMA TypeStep == ASSUME VerdictInv, TypeOK, TrapInv, CounterInv, [Next]_vars PROVE TypeOK'
<1> USE Masks DEF TypeOK
<1>1. CASE UNCHANGED softVars /\ (SimStep \/ Signal \/ UNCHANGED simVars)
  <2>1. CASE Usage \/ Options \/ CannotOpen \/ LoadSection \/ LoadDone \/ Reset
    BY <1>1, <2>1 DEF Usage, Options, CannotOpen, LoadSection, LoadDone, Reset, Ends, softVars
  <2>2. CASE Report
    BY <1>1, <2>2 DEF Report, Ends, Message, softVars
  <2>3. CASE Signal \/ UNCHANGED simVars
    BY <1>1, <2>3 DEF Signal, softVars, simVars
  <2> QED BY <1>1, <2>1, <2>2, <2>3 DEF SimStep
<1>2. CASE TimerRaises
  BY <1>2 DEF TimerRaises, Core, simVars
<1>3. CASE CountEvents
  BY <1>3 DEF CountEvents, Core, simVars
<1>4. CASE Startup
  <2> USE DEF Core, simVars, Startup, At, Goes, Booting, Going, SettingUp
  <2>1. CASE ClearCompare
    BY <2>1 DEF ClearCompare, mtimecmp_set
  <2>2. CASE ~ClearCompare
    BY <1>4, <2>2 DEF EnableFpu, DisableInterrupts, ClearEnables, SetVector, Table,
       EnableExternal, EnableTimer, EnableInterrupts, Boot, Quiet, csr_write, csr_set_bits,
       csr_clr_bits
  <2> QED BY <2>1, <2>2
<1>5. CASE Main
  <2> USE DEF Core, simVars, At, Goes, Going, SettingUp, Waiting, Finishing
  <2>1. CASE riscv_hpm_clear_counters
    <3>1. FetchedFrom(k) \in Counters /\ k \in Nat
      BY <2>1, Fetched DEF riscv_hpm_clear_counters, CounterInv, Place, Handlers
    <3> QED BY <2>1, <3>1 DEF riscv_hpm_clear_counters
  <2>2. CASE riscv_hpm_fetch_counters
    <3>1. k \in Lines /\ FetchedFrom(k) \in Counters
      BY <2>2, Fetched DEF riscv_hpm_fetch_counters, CounterInv, Place, Handlers
    <3> QED BY <2>2, <3>1 DEF riscv_hpm_fetch_counters
  <2>3. CASE SelectEvents
    <3>1. \A n \in 3 .. Hpm : EventOf(n) \in Nat
      BY BareMetalAssumption DEF EventOf
    <3> QED BY <2>3, <3>1 DEF SelectEvents
  <2>4. CASE \/ riscv_hpm_pause("pause", "clear") \/ riscv_hpm_resume("resume", "floats")
             \/ riscv_hpm_pause("pause_dump", "fetch") \/ riscv_hpm_resume("resume_dump", "exit")
             \/ MaskTimer
    <3>1. /\ pc' \in {"clear", "floats", "fetch", "exit", "addr"}
          /\ UNCHANGED <<mepc, timer, mtip, k, count, select, data>> /\ Core
      BY <2>4 DEF riscv_hpm_pause, riscv_hpm_resume, MaskTimer
    <3>2. csr' \in [{"mstatus", "mie", "mtvec", "mcountinhibit"} -> SUBSET Nat]
      <4>1. PauseBits \in SUBSET Nat
        BY DEF PauseBits, Bits, Xlen
      <4>2. \/ \E v \in SUBSET Nat : csr' = [csr EXCEPT !["mcountinhibit"] = v]
            \/ csr' = [csr EXCEPT !["mie"] = @ \ {7}]
        BY <2>4, <4>1 DEF riscv_hpm_pause, riscv_hpm_resume, MaskTimer, csr_write, csr_clr_bits
      <4> QED BY <4>2
    <3> QED BY <3>1, <3>2
  <2>5. CASE do_floats \/ ArmTimer \/ Sleep \/ NextWait \/ do_addr
    <3>1. /\ pc' \in {"arm", "wfi", "asleep", "mask", "pause_dump"}
          /\ UNCHANGED <<mepc, csr, count, select, data>> /\ Core
      BY <2>5 DEF do_floats, ArmTimer, Sleep, NextWait, do_addr
    <3>2. k' \in Nat
      <4>1. k' \in {0, k, k + 1}
        BY <2>5 DEF do_floats, ArmTimer, Sleep, NextWait, do_addr
      <4> QED BY <4>1
    <3>3. {timer', mtip'} \subseteq BOOLEAN
      BY <2>5 DEF do_floats, ArmTimer, Sleep, NextWait, do_addr, mtimecmp_set
    <3> QED BY <3>1, <3>2, <3>3
  <2>6. CASE ExitMain
    BY <2>6 DEF ExitMain, SimCtrlExit
  <2> QED BY <1>5, <2>1, <2>2, <2>3, <2>4, <2>5, <2>6 DEF Main
<1>6. CASE Exception \/ TimerInterrupt
  <2>1. /\ csr' \in [{"mstatus", "mie", "mtvec", "mcountinhibit"} -> SUBSET Nat]
        /\ mepc' = IF pc = "asleep" THEN "woken" ELSE pc
        /\ pc' \in Handlers
        /\ UNCHANGED <<timer, mtip, k, count, select, data>> /\ Core
    BY <1>6 DEF Exception, TimerInterrupt, Enters, Handlers, InMain
  <2>2. mepc' \in InMain \cup {"woken"}
    <3>1. CASE Exception
      BY <2>1, <3>1 DEF Exception, InMain
    <3>2. CASE TimerInterrupt
      BY <2>1, <3>2, TimerTraps DEF TrapInv, TimerInterrupt, Enters, InMain
    <3> QED BY <1>6, <3>1, <3>2
  <2> QED BY <2>1, <2>2 DEF Core, simVars
<1>7. CASE Trap
  <2> USE DEF At, Goes, Handlers, Core, simVars
  <2>1. CASE Mret
    BY <2>1 DEF Mret, TrapInv, InMain, Going, SettingUp, Waiting, Finishing
  <2>2. CASE HandlerReads \/ HandlerWrites
    BY <2>2 DEF HandlerReads, HandlerWrites, mtimecmp_set
  <2>3. CASE ExitException
    BY <2>3 DEF ExitException, SimCtrlExit, Ends
  <2> QED BY <1>7, <2>1, <2>2, <2>3 DEF Trap
<1> QED BY <1>1, <1>2, <1>3, <1>4, <1>5, <1>6, <1>7 DEF Next, vars

\* After the dump the lines are of one instant, and each is named after its event.
LEMMA CounterShows == ASSUME CounterInv PROVE CountersAgree
<1> SUFFICES ASSUME pc \in {"resume_dump", "exit", "halted"}, NEW i \in Lines
             PROVE  data[i] <= data[0] /\ Counts(FetchedFrom(i)) = NamedAfter(i)
  BY DEF CountersAgree
<1>1. Place = pc
  BY DEF Place, Handlers
<1>2. data[i] <= data[0] /\ select = [n \in 3 .. Hpm |-> EventOf(n)]
  BY <1>1 DEF CounterInv, Finishing
<1>3. CASE i \in {0, 1}
  <2>1. FetchedFrom(i) \in {0, 2}
    BY <1>3 DEF FetchedFrom, mcycle, minstret
  <2>2. FetchedFrom(i) < 3 /\ i < 2
    BY <1>3, <2>1
  <2> QED BY <1>2, <2>2 DEF Counts, NamedAfter
<1>4. CASE i \notin {0, 1}
  <2>1. i \in Nat /\ i >= 2 /\ i + 1 \in 3 .. Hpm /\ ~(i + 1 < 3) /\ ~(i < 2)
    BY <1>4, BareMetalAssumption DEF Lines
  <2>2. FetchedFrom(i) = i + 1
    BY <1>4 DEF FetchedFrom
  <2>3. select[i + 1] = i
    BY <1>2, <2>1 DEF EventOf
  <2> QED BY <1>2, <2>1, <2>2, <2>3 DEF Counts, NamedAfter
<1> QED BY <1>2, <1>3, <1>4

-----------------------------------------------------------------------------
(* The theorems.                                                           *)

LEMMA InitStep == ASSUME Init PROVE IInv /\ LoadInv
<1> USE DEF Init, SimInit
<1>1. VerdictInv
  BY DEF VerdictInv, VerdictTrue
<1>2. LoadInv
  BY DEF LoadInv
<1>3. TrapInv
  BY Masks DEF TrapInv, Place, Booting, SettingUp, Waiting, Finishing, Handlers, Going
<1>4. TypeOK
  <2>1. count \in [Counters -> Nat]
    BY BareMetalAssumption
  <2>2. data \in [Lines -> Nat] /\ select \in [3 .. Hpm -> Nat] /\ csr \in [DOMAIN csr -> SUBSET Nat]
    OBVIOUS
  <2> QED BY <2>1, <2>2 DEF TypeOK, Booting
<1>5. CounterInv
  BY DEF CounterInv, Place, Started, Booting, Paused, Counting, Waiting, Finishing, Handlers
<1> QED BY <1>1, <1>2, <1>3, <1>4, <1>5 DEF IInv

\* The invariant of the program under the simulator.
THEOREM ProgramInvariant == Spec => []IInv
<1>1. Init => IInv
  BY InitStep
<1>2. IInv /\ [Next]_vars => IInv'
  BY TypeStep, VerdictStep, TrapStep, CounterStep DEF IInv
<1> QED BY <1>1, <1>2, PTL DEF Spec

\* Type correctness of the program, the core and the simulator's main.
THEOREM ProgramTypeCorrect == Spec => []TypeOK
<1>1. IInv => TypeOK
  BY DEF IInv
<1> QED BY <1>1, ProgramInvariant, PTL

\* The simulator's last message says how the program ended, whatever signal, limit
\* and error fall into one evaluation (sim_main.cpp).
THEOREM ProgramVerdictTrue == Spec => []VerdictTrue
<1>1. IInv => VerdictTrue
  BY DEF IInv, VerdictInv
<1> QED BY <1>1, ProgramInvariant, PTL

\* The timer traps in do_mtime's waits alone, through the table entry.c set, however
\* often it traps, and whatever exceptions main raises on the way.
THEOREM ProgramTimerTraps == Spec => []TimerTrapsInWait
<1>1. IInv => TimerTrapsInWait
  BY TrapShows DEF IInv
<1> QED BY <1>1, ProgramInvariant, PTL

\* The lines riscv_hpm_counters_dump prints are of one instant and named right, for
\* any number of counters.
THEOREM ProgramCountersAgree == Spec => []CountersAgree
<1>1. IInv => CountersAgree
  BY CounterShows DEF IInv
<1> QED BY <1>1, ProgramInvariant, PTL

\* What runs is what was linked: every image, of any sections that do not overlap.
THEOREM ProgramImageLoaded ==
    ASSUME Linked
    PROVE  Spec => []ImageLoaded
<1>1. Init => LoadInv
  BY InitStep
<1>2. IInv /\ LoadInv /\ [Next]_vars => LoadInv'
  BY LoadStep DEF IInv
<1>3. LoadInv => ImageLoaded
  BY LoadShows
<1> QED BY <1>1, <1>2, <1>3, ProgramInvariant, PTL DEF Spec
=============================================================================
