------------------------------- MODULE S2mmRing -------------------------------
(***************************************************************************)
(* The receive ring: the DMA engine (external) stores the stream into the  *)
(* ring, and the ringbuffer demo's s2mm task gets what is there and checks *)
(* it against the pattern.  When the ring is full the engine drops.        *)
(*                                                                         *)
(* A byte is its number among those stored.  The wake-up of the task is    *)
(* not modelled here: it may run at any time.                              *)
(***************************************************************************)
EXTENDS RingOps, Sequences

CONSTANTS
    Pointer,    \* modulus of the TAILPTR register (2^16)
    GetSize,    \* GET_BUFFER_SIZE: most bytes of each get
    WordBytes,  \* the task compares words of so many bytes (4)
    Grains,     \* by how many bytes the engine may move HEADPTR on
    Limit       \* bytes the engine stores

ASSUME S2mmAssumption ==
    /\ Pointer \in Nat /\ Pointer > BufferSize
    /\ GetSize \in Nat \ {0} /\ WordBytes \in Nat \ {0} /\ Grains \subseteq 1 .. Capacity
    /\ Limit \in Nat

VARIABLES
    headptr, tailptr,   \* the driver's pointers, headptr as last read
    HEADPTR, TAILPTR,   \* the device's registers
    buffer,             \* the ring's cells: numbers of bytes, 0 if never written
    stored,             \* bytes the engine has stored
    dropped,            \* the engine has met a full ring (OVERRUN, DROPCOUNT)
    taken,              \* history: bytes of the batches the task is done with
    expected,           \* pattern: the number of bytes compared
    got,                \* the bytes of the last get, in order
    pc                  \* the task: about to get, commit or check, drained, or stopped

driverVars == <<headptr, tailptr, TAILPTR>>
engineVars == <<HEADPTR, buffer, stored, dropped>>
taskVars   == <<taken, expected, got, pc>>
vars == <<driverVars, engineVars, taskVars>>

-------------------------------------------------------------------------------
Init ==
    /\ headptr = 0 /\ tailptr = 0 /\ HEADPTR = 0 /\ TAILPTR = 0
    /\ buffer = [c \in Cells |-> 0]
    /\ stored = 0 /\ dropped = FALSE
    /\ taken = 0 /\ expected = 0 /\ got = <<>>
    /\ pc = "drained"

-------------------------------------------------------------------------------
(* The engine.                                                               *)

Room == Capacity - Level(HEADPTR, TAILPTR)

Store(n) ==
    /\ stored < Limit
    /\ n <= Room
    /\ HEADPTR' = Stepped(HEADPTR, n)
    /\ buffer' = [c \in Cells |->
           IF \E i \in 1 .. n : CellOf(HEADPTR, i) = c
           THEN stored + CHOOSE i \in 1 .. n : CellOf(HEADPTR, i) = c
           ELSE buffer[c]]
    /\ stored' = stored + n
    /\ UNCHANGED <<driverVars, dropped, taskVars>>

Drop ==
    /\ stored < Limit
    /\ \E g \in Grains : g > Room
    /\ dropped' = TRUE
    /\ UNCHANGED <<driverVars, HEADPTR, buffer, stored, taskVars>>

-------------------------------------------------------------------------------
(* The task: get and commit until the ring is empty, checking each batch.    *)

M_GetCount == GetSize       \* whatever the level
GetCount == LET level == Level(HEADPTR, tailptr)
            IN  IF level < GetSize THEN level ELSE GetSize

Get ==
    /\ pc = "get"
    /\ headptr' = HEADPTR
    /\ got' = [i \in 1 .. GetCount |-> buffer[CellOf(tailptr, i)]]
    /\ tailptr' = IF GetCount = 0 THEN tailptr ELSE Copied(tailptr, GetCount)
    /\ pc' = "commit"
    /\ UNCHANGED <<TAILPTR, engineVars, taken, expected>>

Commit ==
    /\ pc = "commit"
    /\ TAILPTR' = tailptr % Pointer
    /\ pc' = "check"
    /\ UNCHANGED <<headptr, tailptr, engineVars, taken, expected, got>>

\* The words of a batch, rounded up: the last may end in what an earlier get left.
Compared == ((Len(got) + WordBytes - 1) \div WordBytes) * WordBytes
Partial == Compared # Len(got)
Matches == \A i \in 1 .. Len(got) : got[i] = expected + i

\* Word by word; a mismatch ends the simulation.  What is left over from an earlier get
\* may look like the pattern or not.
Check ==
    /\ pc = "check"
    /\ taken' = taken + Len(got)
    /\ expected' = expected + Compared
    /\ \/ got = <<>> /\ pc' = "drained"
       \/ got # <<>> /\ Matches /\ pc' = "get"
       \/ (~Matches \/ Partial) /\ pc' = "mismatch"
    /\ UNCHANGED <<driverVars, engineVars, got>>

\* The next interrupt.
Wake ==
    /\ pc = "drained"
    /\ pc' = "get"
    /\ UNCHANGED <<driverVars, engineVars, taken, expected, got>>

\* s2mm_ringbuffer_flush: give up what the ring holds.
Flush ==
    /\ pc = "drained"
    /\ TAILPTR' = HEADPTR /\ tailptr' = HEADPTR /\ headptr' = HEADPTR
    /\ taken' = stored
    /\ UNCHANGED <<engineVars, expected, got, pc>>

Next == (\E g \in Grains : Store(g)) \/ Drop \/ Get \/ Commit \/ Check \/ Wake \/ Flush

Spec == Init /\ [][Next]_vars

-------------------------------------------------------------------------------
(* Properties.                                                               *)

\* What the demo's check (`buffer mismatch', sim_exit(-1)) asks of the driver: what get
\* returns are the stored bytes in order, none missed, repeated or left over from an
\* earlier lap.
GetInOrder ==
    pc \in {"commit", "check"} => \A i \in 1 .. Len(got) : got[i] = taken + i

\* get need not be atomic: until the tail is committed the engine does not touch
\* the cells get copies, however long that takes and however full the ring is.
CopiedCellsStay ==
    pc = "commit" => \A i \in 1 .. Len(got) : buffer[CellOf(TAILPTR, i)] = got[i]

\* Between the device's tail and head lie exactly the bytes stored and not given
\* back, though the engine drops and the driver's pointers run ahead and behind.
RingHoldsUnread ==
    LET returned == taken + (IF pc = "check" THEN Len(got) ELSE 0)
    IN  /\ Level(HEADPTR, TAILPTR) = stored - returned
        /\ \A i \in 1 .. stored - returned :
               buffer[CellOf(TAILPTR, i)] = returned + i
==============================================================================
