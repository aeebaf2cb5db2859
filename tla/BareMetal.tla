----------------------------- MODULE BareMetal -----------------------------
(***************************************************************************)
(* A bare-metal program under the simulator: the start-up code of entry.c, *)
(* its trap handlers, the demo's main with the timer and the performance   *)
(* counters (riscv_hpm.c, cv32e40p_hpm.c), and the end of the simulation   *)
(* in SimMain.  Every action of the core is part of an evaluation of the   *)
(* simulator's loop.  The timer is that of Mtime seen from the program: it *)
(* raises its line some time after it was armed, and a write of mtimecmp   *)
(* lowers it.                                                              *)
(***************************************************************************)
EXTENDS Csr, SimMain

CONSTANTS Waits,      \* the wfi of do_mtime: 10
          Hpm,        \* the last performance counter that is printed
          Causes,     \* the exceptions main may raise
          MaxCount    \* bound: a counter stays at it

ASSUME BareMetalAssumption ==
  /\ Waits \in Nat /\ Hpm \in Nat /\ Hpm >= 3 /\ Hpm < Xlen /\ MaxCount \in Nat
  /\ Causes \subseteq 0 .. 15

VARIABLES pc,       \* the step the software is at
          mepc,     \* where a trap returns to
          csr,      \* the machine's control registers
          timer,    \* mtimecmp is ahead of mtime
          mtip,     \* the timer's interrupt line
          k,        \* the index of the loop the software is in
          count,    \* the counters
          select,   \* mhpmevent: the event each counter counts
          data      \* what was fetched from the counters
softVars == <<pc, mepc, csr, timer, mtip, k, count, select, data>>
vars == <<softVars, simVars>>

-----------------------------------------------------------------------------
(* The counters, and the lines they are printed on                         *)

\* A counter goes by its bit of mcountinhibit.
mcycle == 0
minstret == 2
Counters == {mcycle, minstret} \cup (3 .. Hpm)
Inhibited(c) == c \in csr["mcountinhibit"]

\* riscv_hpm_init_counters selects event n - 1 for counter n; line i of the dump
\* is fetched from a counter and named after what it counts.
EventOf(n) == n - 1
Lines == 0 .. Hpm - 1
FetchedFrom(i) == CASE i = 0 -> mcycle [] i = 1 -> minstret [] OTHER -> i + 1
NamedAfter(i) == IF i < 2 THEN <<"counter", FetchedFrom(i)>> ELSE <<"event", i>>
Counts(c) == IF c < 3 THEN <<"counter", c>> ELSE <<"event", select[c]>>

-----------------------------------------------------------------------------
(* The hardware                                                            *)

Core == UNCHANGED simVars

\* mstatus.MIE is bit 3 and MPIE bit 7 (a field's mask has its bits).
MIE == BIT_MASK("mstatus", "MIE")
MPIE == BIT_MASK("mstatus", "MPIE")
MTI == BIT_MASK("mie", "MTI")
Table == {8}      \* riscv_mtvec_table, aligned to 256 bytes; bit 0 is the vectored mode
Enabled == MIE \subseteq csr["mstatus"]
TimerPending == mtip /\ MTI \subseteq csr["mie"]

Enters(handler, return) ==
  /\ pc' = handler
  /\ mepc' = return
  /\ csr' = [csr EXCEPT !["mstatus"] = (@ \ (MIE \cup MPIE)) \cup (IF Enabled THEN MPIE ELSE {})]

TimerRaises ==
  /\ Running /\ timer
  /\ timer' = FALSE /\ mtip' = TRUE
  /\ UNCHANGED <<pc, mepc, csr, k, count, select, data>> /\ Core

\* mcycle counts every clock, the other counters in some.
CountEvents ==
  /\ Running
  /\ \E busy \in SUBSET (Counters \ {mcycle}) :
       LET steps == {c \in {mcycle} \cup busy : ~Inhibited(c)}
       IN  /\ \A c \in steps : count[c] < MaxCount
           /\ count' = [c \in Counters |-> IF c \in steps THEN count[c] + 1 ELSE count[c]]
  /\ UNCHANGED <<pc, mepc, csr, timer, mtip, k, select, data>> /\ Core

\* Vectored by riscv_mtvec_table once mtvec holds it.
TimerInterrupt ==
  /\ Running /\ Enabled /\ TimerPending
  /\ Enters("mti", IF pc = "asleep" THEN "woken" ELSE pc)
  /\ UNCHANGED <<timer, mtip, k, count, select, data>> /\ Core

InMain == {"pause", "clear", "select", "resume", "floats", "arm", "wfi", "mask", "addr",
           "pause_dump", "fetch", "resume_dump"}

\* riscv_mtvec_exception calls exception_handlers[mcause & 0xF].
Exception ==
  /\ Running /\ pc \in InMain
  /\ \E cause \in Causes :
       Enters(IF cause \in {10, 14} THEN "return" ELSE "exception", pc)
  /\ UNCHANGED <<timer, mtip, k, count, select, data>> /\ Core

Mret ==
  /\ Running /\ pc = "return"
  /\ pc' = mepc
  /\ csr' = [csr EXCEPT !["mstatus"] = (@ \ MIE) \cup MPIE \cup
                                       (IF MPIE \subseteq @ THEN MIE ELSE {})]
  /\ UNCHANGED <<mepc, timer, mtip, k, count, select, data>> /\ Core

-----------------------------------------------------------------------------
(* The software                                                            *)

At(here) == Running /\ pc = here
Goes(there) == pc' = there /\ UNCHANGED mepc

mtimecmp_set(ahead) == timer' = ahead /\ mtip' = FALSE
Quiet == UNCHANGED <<timer, mtip>>

\* _entry, up to the call of main: one step for each access, in this order.
Boot(here, there, registers) ==
  /\ At(here) /\ Goes(there)
  /\ csr' = registers
  /\ Quiet
  /\ UNCHANGED <<k, count, select, data>> /\ Core

M_ClearCompare ==   \* the compare value left at the clock's
  /\ At("start") /\ Goes("fpu")
  /\ Quiet
  /\ UNCHANGED <<csr, k, count, select, data>> /\ Core
ClearCompare ==
  /\ At("start") /\ Goes("fpu")
  /\ mtimecmp_set(FALSE)
  /\ UNCHANGED <<csr, k, count, select, data>> /\ Core

EnableFpu == Boot("fpu", "mie_off", csr_set_bits(csr, "mstatus", {13}))
DisableInterrupts == Boot("mie_off", "mie_clear", csr_clr_bits(csr, "mstatus", MIE))
ClearEnables == Boot("mie_clear", "vector", csr_write(csr, "mie", {}))
SetVector == Boot("vector", "mei_on", csr_write(csr, "mtvec", Table \cup {0}))
EnableExternal == Boot("mei_on", "mti_on", csr_set_bits(csr, "mie", BIT_MASK("mie", "MEI")))
EnableTimer == Boot("mti_on", "mie_on", csr_set_bits(csr, "mie", MTI))
EnableInterrupts == Boot("mie_on", "pause", csr_set_bits(csr, "mstatus", MIE))

\* riscv_hpm_pause and riscv_hpm_resume, around the set-up and around the dump.
M_PauseBits == {}     \* the counters left counting
PauseBits == Bits
riscv_hpm_pause(here, there) ==
  /\ At(here) /\ Goes(there)
  /\ csr' = csr_write(csr, "mcountinhibit", PauseBits)
  /\ UNCHANGED <<timer, mtip, k, count, select, data>> /\ Core
riscv_hpm_resume(here, there) ==
  /\ At(here) /\ Goes(there)
  /\ csr' = csr_write(csr, "mcountinhibit", {})
  /\ UNCHANGED <<timer, mtip, k, count, select, data>> /\ Core

\* riscv_hpm_clear_counters, one csrw for each counter.
riscv_hpm_clear_counters ==
  /\ At("clear")
  /\ count' = [count EXCEPT ![FetchedFrom(k)] = 0]
  /\ IF k + 1 \in Lines THEN k' = k + 1 /\ Goes("clear") ELSE k' = 0 /\ Goes("select")
  /\ UNCHANGED <<csr, timer, mtip, select, data>> /\ Core

SelectEvents ==
  /\ At("select") /\ Goes("resume")
  /\ select' = [n \in 3 .. Hpm |-> EventOf(n)]
  /\ UNCHANGED <<csr, timer, mtip, k, count, data>> /\ Core

do_floats ==
  /\ At("floats") /\ Goes("arm")
  /\ UNCHANGED <<csr, timer, mtip, k, count, select, data>> /\ Core

\* do_mtime: the compare value is 2048 ahead of the time read before.
ArmTimer ==
  /\ At("arm") /\ Goes("wfi")
  /\ mtimecmp_set(TRUE)
  /\ UNCHANGED <<csr, k, count, select, data>> /\ Core

\* wfi ends with a pending interrupt, taken at the instruction behind it.
Sleep ==
  /\ At("wfi") /\ Goes("asleep")
  /\ UNCHANGED <<csr, timer, mtip, k, count, select, data>> /\ Core

NextWait ==
  /\ At("woken")
  /\ IF k + 1 < Waits THEN k' = k + 1 /\ Goes("wfi") ELSE k' = 0 /\ Goes("mask")
  /\ UNCHANGED <<csr, timer, mtip, count, select, data>> /\ Core

MaskTimer ==
  /\ At("mask") /\ Goes("addr")
  /\ csr' = csr_clr_bits(csr, "mie", MTI)
  /\ UNCHANGED <<timer, mtip, k, count, select, data>> /\ Core

do_addr ==
  /\ At("addr") /\ Goes("pause_dump")
  /\ UNCHANGED <<csr, timer, mtip, k, count, select, data>> /\ Core

\* riscv_hpm_fetch_counters, one csrr for each line.
riscv_hpm_fetch_counters ==
  /\ At("fetch")
  /\ data' = [data EXCEPT ![k] = count[FetchedFrom(k)]]
  /\ IF k + 1 \in Lines THEN k' = k + 1 /\ Goes("fetch") ELSE k' = 0 /\ Goes("resume_dump")
  /\ UNCHANGED <<csr, timer, mtip, count, select>> /\ Core

\* _entry after main: sim_exit(0).  A handler that gives up: sim_exit(0x80000000).
ExitMain ==
  /\ At("exit") /\ Goes("halted")
  /\ UNCHANGED <<csr, timer, mtip, k, count, select, data>>
  /\ SimCtrlExit(0)

ExitException ==
  /\ At("exception") /\ Goes("gave_up")
  /\ UNCHANGED <<csr, timer, mtip, k, count, select, data>>
  /\ SimCtrlExit(1)

\* riscv_mtvec_mti moves the compare value on by 2048, in time.
HandlerReads ==
  /\ At("mti") /\ Goes("mti_set")
  /\ UNCHANGED <<csr, timer, mtip, k, count, select, data>> /\ Core
M_HandlerWrites ==  \* a compare value the clock has passed
  /\ At("mti_set") /\ Goes("return")
  /\ mtimecmp_set(FALSE)
  /\ UNCHANGED <<csr, k, count, select, data>> /\ Core
HandlerWrites ==
  /\ At("mti_set") /\ Goes("return")
  /\ mtimecmp_set(TRUE)
  /\ UNCHANGED <<csr, k, count, select, data>> /\ Core

-----------------------------------------------------------------------------
\* After reset mtime and mtimecmp are both zero, which raises the line; the
\* counters hold anything.
Init ==
  /\ SimInit
  /\ pc = "start" /\ mepc = "start"
  /\ csr = [r \in {"mstatus", "mie", "mtvec", "mcountinhibit"} |-> {}]
  /\ timer = TRUE /\ mtip = FALSE
  /\ k = 0
  /\ count \in [Counters -> {0, MaxCount}]
  /\ select = [n \in 3 .. Hpm |-> 0]
  /\ data = [i \in Lines |-> 0]

Startup ==
  \/ ClearCompare \/ EnableFpu \/ DisableInterrupts \/ ClearEnables \/ SetVector
  \/ EnableExternal \/ EnableTimer \/ EnableInterrupts

Main ==
  \/ riscv_hpm_pause("pause", "clear") \/ riscv_hpm_clear_counters \/ SelectEvents
  \/ riscv_hpm_resume("resume", "floats")
  \/ do_floats
  \/ ArmTimer \/ Sleep \/ NextWait \/ MaskTimer
  \/ do_addr
  \/ riscv_hpm_pause("pause_dump", "fetch") \/ riscv_hpm_fetch_counters
  \/ riscv_hpm_resume("resume_dump", "exit")
  \/ ExitMain

Trap == HandlerReads \/ HandlerWrites \/ ExitException \/ Mret

Next ==
  \/ (SimStep \/ Signal) /\ UNCHANGED softVars
  \/ TimerRaises \/ CountEvents
  \/ TimerInterrupt \/ Exception
  \/ Startup \/ Main \/ Trap

\* The host runs, the clock ticks, and the core takes its steps.  The timer may
\* interrupt main at any step of do_mtime but not for ever: a period is longer
\* than a handler and a few instructions.
Spec ==
  /\ Init /\ [][Next]_vars
  /\ WF_vars(SimStep /\ UNCHANGED softVars)
  /\ WF_vars(Startup) /\ WF_vars(Trap) /\ SF_vars(Main)
  /\ WF_vars(TimerRaises) /\ WF_vars(TimerInterrupt)

-----------------------------------------------------------------------------
(* Properties                                                              *)

\* What runs is what was linked: when the reset is released, every byte of the
\* sections to load is in its memory, and .bss, which neither the loader nor the
\* start-up code clears, reads as zero.
ImageLoaded ==
  phase \in {"reset", "run"} =>
    \A n \in DOMAIN file : LET s == file[n] IN
      s.alloc => \A a \in (s.addr .. s.addr + s.size - 1) \cap DOMAIN memory :
        memory[a] = IF s.type = "progbits" THEN Byte(s, a - s.addr) ELSE Zero

\* The interrupt the timer raises out of reset, when both its registers are zero,
\* is gone before interrupts are let in, and mtvec is set by then: the handler
\* runs only for a compare value do_mtime or the handler wrote, and only until
\* do_mtime masks it.
TimerTrapsInWait ==
  pc \in {"mti", "mti_set"} =>
    /\ mepc \in {"wfi", "woken", "mask"}
    /\ csr["mtvec"] = Table \cup {0}

\* The lines of riscv_hpm_counters_dump are of one instant and correctly named:
\* no event is counted more often than the clocks since the counters were
\* cleared, and a line shows the event its name says.
CountersAgree ==
  pc \in {"resume_dump", "exit", "halted"} =>
    \A i \in Lines : data[i] <= data[0] /\ Counts(FetchedFrom(i)) = NamedAfter(i)

\* The message the simulator ends with says how the program ended: finished
\* only if main returned and no signal came, limit only for a program cut short,
\* and a handler that gave up never passes for either.
VerdictTrue ==
  /\ verdict = "finished" => pc = "halted" /\ ~sigint
  /\ verdict = "limit" => limited /\ pc \notin {"halted", "gave_up"}
  /\ phase = "end" /\ pc = "halted" => verdict \in {"finished", "sigint"}
  /\ phase = "end" /\ pc = "gave_up" => verdict \notin {"finished", "limit"}

\* The simulation ends: every wfi of do_mtime finds its interrupt.
RunEnds == <>(phase = "end")
=============================================================================
