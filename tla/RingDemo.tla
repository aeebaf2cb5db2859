------------------------------- MODULE RingDemo -------------------------------
(***************************************************************************)
(* The ring buffer demo as a whole: send_task puts into the transmit ring  *)
(* (Mm2sRing), whose stream the testbench loops back into the receive ring *)
(* (S2mmRing); the receive engine's level interrupt goes through the top   *)
(* level INTR_ACTIVE register, the interrupt handler and a binary          *)
(* semaphore to the task that drains the ring.  A second channel raises    *)
(* the same interrupt when it likes.                                       *)
(*                                                                         *)
(* External: a channel's LEVEL bit is set whenever its level is at the     *)
(* threshold, and a top level bit by the rise of its channel's.            *)
(***************************************************************************)
EXTENDS S2mmRing, RingMap

CONSTANTS
    Threshold,  \* LEVEL_THRESHOLD, 500
    Chunk, Lag  \* of send_task

ASSUME DemoAssumption ==
    /\ Threshold \in Nat \ {0}
    /\ Chunk \in 1 .. Capacity /\ Lag \in 0 .. Capacity

VARIABLES
    send_head, send_tail, SEND_HEAD, SEND_TAIL, send_buffer,    \* the transmit ring
    pattern, n_bytes, streamed, beat, sender,
    LEVEL, LEVEL_1,   \* INTR_ACTIVE.LEVEL of this channel and of the other
    spent_1,        \* the other has been at its threshold in this tick
    INTR_ACTIVE,    \* the top level register: the channels that interrupt
    isr,            \* the handler: idle, about to read or to write INTR_ACTIVE
    pending,        \* what it has read
    isr_sem,        \* the channel's semaphore
    task            \* s2mm_ringbuffer_task: blocked, looking, or draining

sendVars == <<send_head, send_tail, SEND_HEAD, SEND_TAIL, send_buffer,
              pattern, n_bytes, streamed, beat, sender>>
intrVars == <<LEVEL, LEVEL_1, spent_1, INTR_ACTIVE, isr, pending, isr_sem, task>>
demoVars == <<vars, sendVars, intrVars>>

Send == INSTANCE Mm2sRing WITH
    headptr <- send_head, tailptr <- send_tail, HEADPTR <- SEND_HEAD, TAILPTR <- SEND_TAIL,
    buffer <- send_buffer, pc <- sender

INTR_ENABLE == {S2MM_0, S2MM_1}     \* written by main
Runs == sender # "exit" /\ pc # "mismatch"      \* sim_exit ends it all

DemoInit ==
    /\ Init /\ Send!Init
    /\ LEVEL = FALSE /\ LEVEL_1 = FALSE /\ spent_1 = FALSE /\ INTR_ACTIVE = {}
    /\ isr = "idle" /\ pending = {}
    /\ isr_sem = FALSE /\ task = "blocked"

-------------------------------------------------------------------------------
(* The engines.                                                              *)

AtThreshold == Level(HEADPTR, TAILPTR) >= Threshold

Beat == Send!Stream /\ UNCHANGED <<vars, intrVars>>

Burst(n) ==
    /\ stored + n <= streamed
    /\ Store(n)
    /\ UNCHANGED <<sendVars, intrVars>>

RaiseLevel ==
    /\ AtThreshold /\ ~LEVEL
    /\ LEVEL' = TRUE
    /\ INTR_ACTIVE' = INTR_ACTIVE \cup {S2MM_0}
    /\ UNCHANGED <<vars, sendVars, LEVEL_1, spent_1, isr, pending, isr_sem, task>>

\* The other channel, whose task clears its level in its turn; a tick brings it
\* fewer bytes than its threshold.
RaiseOther ==
    /\ ~LEVEL_1 /\ ~spent_1
    /\ LEVEL_1' = TRUE /\ spent_1' = TRUE
    /\ INTR_ACTIVE' = INTR_ACTIVE \cup {S2MM_1}
    /\ UNCHANGED <<vars, sendVars, LEVEL, isr, pending, isr_sem, task>>

-------------------------------------------------------------------------------
(* freertos_risc_v_application_interrupt_handler.  No task runs meanwhile.   *)

HandlerRead ==
    /\ isr = "read" \/ (isr = "idle" /\ INTR_ACTIVE # {})
    /\ pending' = INTR_ACTIVE \cap INTR_ENABLE
    /\ isr' = "write"
    /\ UNCHANGED <<vars, sendVars, LEVEL, LEVEL_1, spent_1, INTR_ACTIVE, isr_sem, task>>

\* Only what was read is acknowledged, and each channel's semaphore given.
M_Acknowledged == INTR_ENABLE            \* all that is enabled
Acknowledged == pending
M_Given == S2MM_1 \in pending             \* the other channel's bit
Given == S2MM_0 \in pending

HandlerWrite ==
    /\ isr = "write"
    /\ INTR_ACTIVE' = INTR_ACTIVE \ Acknowledged
    /\ isr_sem' = (isr_sem \/ Given)
    /\ isr' = IF pending = {} THEN "idle" ELSE "read"
    /\ UNCHANGED <<vars, sendVars, LEVEL, LEVEL_1, spent_1, pending, task>>

-------------------------------------------------------------------------------
(* The tasks.  The receiver has the higher priority.                         *)

Receives(here) ==
    /\ isr = "idle" /\ task = here
    /\ UNCHANGED <<sendVars, LEVEL_1, spent_1, INTR_ACTIVE, isr, pending>>

Take ==
    /\ Receives("blocked")
    /\ isr_sem /\ isr_sem' = FALSE
    /\ task' = "look"
    /\ UNCHANGED <<vars, LEVEL>>

Look ==
    /\ Receives("look")
    /\ IF LEVEL
       THEN Wake /\ task' = "drain"
       ELSE UNCHANGED vars /\ task' = "blocked"
    /\ UNCHANGED <<LEVEL, isr_sem>>

Drain ==
    /\ Receives("drain")
    /\ Get \/ Commit \/ Check
    /\ UNCHANGED <<LEVEL, isr_sem, task>>

M_ClearLevel ==     \* the clear left out
    /\ Receives("drain")
    /\ pc = "drained"
    /\ task' = "look"
    /\ UNCHANGED <<vars, LEVEL, isr_sem>>
ClearLevel ==
    /\ Receives("drain")
    /\ pc = "drained"
    /\ LEVEL' = FALSE
    /\ task' = "look"
    /\ UNCHANGED <<vars, isr_sem>>

OtherTask ==
    /\ isr = "idle"
    /\ LEVEL_1 /\ LEVEL_1' = FALSE
    /\ UNCHANGED <<vars, sendVars, LEVEL, spent_1, INTR_ACTIVE, isr, pending, isr_sem, task>>

\* A tick is long: what can be done before it is done.
Settled ==
    /\ INTR_ACTIVE = {} /\ (AtThreshold => LEVEL)
    /\ \A n \in Grains : stored + n > streamed

SendTask ==
    /\ isr = "idle" /\ task = "blocked" /\ ~isr_sem
    /\ \/ Settled /\ Send!Put /\ spent_1' = FALSE
       \/ (Send!Commit \/ Send!Exit) /\ UNCHANGED spent_1
    /\ UNCHANGED <<vars, LEVEL, LEVEL_1, INTR_ACTIVE, isr, pending, isr_sem, task>>

Engines == Beat \/ (\E n \in Grains : Burst(n)) \/ RaiseLevel \/ RaiseOther
Handler == HandlerRead \/ HandlerWrite
Receiver == Take \/ Look \/ Drain \/ ClearLevel

DemoNext == Runs /\ (Engines \/ Handler \/ Receiver \/ OtherTask \/ SendTask)

\* The engines work, the processor serves interrupts, and the scheduler runs
\* the ready task of highest priority, tasks of equal priority in turn.
DemoSpec ==
    /\ DemoInit /\ [][DemoNext]_demoVars
    /\ WF_demoVars(Runs /\ Beat)
    /\ WF_demoVars(Runs /\ \E n \in Grains : Burst(n))
    /\ WF_demoVars(Runs /\ RaiseLevel)
    /\ WF_demoVars(Runs /\ Handler)
    /\ SF_demoVars(Runs /\ Receiver)
    /\ SF_demoVars(Runs /\ SendTask)

-------------------------------------------------------------------------------
(* Properties.                                                               *)

\* The testbench's assertion `assert(m00_axis.tdata == x00_counter)' (tb_top.sv).
StreamInOrder == Send!StreamInOrder

\* The transmit driver's pointers account for every byte put has taken.
RingHoldsTheRest == Send!RingHoldsTheRest

\* The remembered tail of the transmit ring errs towards a fuller ring.
StaleTailIsSafe == Send!StaleTailIsSafe

\* put leaves the head put_dumb would leave, or the word below zero.
PutIsPutDumb == Send!PutIsPutDumb

\* A ring at its threshold has a wake-up under way, though the task clears the
\* level interrupt after its last look at the ring (main.c:315), and the handler
\* acknowledges interrupts while others come in (main.c:134, 157).
WakeUnderWay ==
    LEVEL =>
        \/ S2MM_0 \in INTR_ACTIVE
        \/ isr = "write" /\ S2MM_0 \in pending
        \/ isr_sem
        \/ task # "blocked"

\* The demo never loses a byte: with the interrupt served between two ticks the
\* receive ring has room for every burst of what send_task has put.
NothingDropped == \A n \in Grains : stored + n <= streamed => n <= Room

\* send_task reaches its sim_exit: neither the handler's loop nor the receiver of
\* higher priority, which looks again after every clear, keeps the processor, and no
\* comparison of words ends the simulation first.
DemoEnds == <>(sender = "exit")
==============================================================================
