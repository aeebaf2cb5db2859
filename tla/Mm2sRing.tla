------------------------------- MODULE Mm2sRing -------------------------------
(***************************************************************************)
(* The transmit ring: the mm2s driver, the ringbuffer demo's send_task     *)
(* that puts a chunk every tick, and the DMA engine (external) that reads  *)
(* the ring into the stream the testbench compares with a counter.         *)
(*                                                                         *)
(* A byte is its number in the stream.  put is one step: the DMA moves     *)
(* TAILPTR under it, which only makes room.                                *)
(***************************************************************************)
EXTENDS RingOps

CONSTANTS
    Pointer,    \* modulus of the HEADPTR register (2^16)
    Chunk,      \* n_bytes of send_task: bytes of each put
    Limit,      \* bytes after which send_task ends the simulation
    Lag         \* bytes the DMA may still have to stream when a tick comes

VARIABLES
    headptr, tailptr,   \* the driver's pointers, tailptr as last read
    HEADPTR, TAILPTR,   \* the device's registers
    buffer,             \* the ring's cells: numbers of bytes, 0 if never written
    pattern,            \* bytes send_task has made up
    n_bytes,            \* bytes put has taken
    streamed, beat,     \* bytes on the stream so far, and the last of them
    pc                  \* send_task: before its put, its commit, or at sim_exit

driverVars == <<headptr, tailptr, HEADPTR>>
taskVars   == <<pattern, n_bytes, pc>>
dmaVars    == <<TAILPTR, streamed, beat>>
vars == <<driverVars, taskVars, dmaVars, buffer>>

-------------------------------------------------------------------------------
\* _roomfor: what the last known tail leaves, and if that is too little what the
\* register leaves.  The buffer's size is counted as room, not its capacity.
Free(tail) == Unsigned(BufferSize - Level(headptr, tail))
RoomFor(cnt) ==
    IF Free(tailptr) >= cnt \/ Free(TAILPTR) >= cnt THEN cnt ELSE Free(TAILPTR)

M_TailSeen(cnt) == IF Free(tailptr) >= cnt THEN tailptr ELSE Advance(TAILPTR)  \* ahead of the DMA
TailSeen(cnt) == IF Free(tailptr) >= cnt THEN tailptr ELSE TAILPTR

-------------------------------------------------------------------------------
Init ==
    /\ headptr = 0 /\ tailptr = 0 /\ HEADPTR = 0 /\ TAILPTR = 0
    /\ buffer = [c \in Cells |-> 0]
    /\ pattern = 0 /\ n_bytes = 0
    /\ streamed = 0 /\ beat = 0
    /\ pc = "put"

\* A tick: send_task fills its buffer with the next Chunk bytes of the pattern,
\* puts them, and goes on with the next bytes whatever put has taken.  A tick is
\* long (1 ms at 100 MHz for 496 bytes): the ring is all but empty when it comes.
Put ==
    /\ pc = "put" /\ n_bytes < Limit
    /\ Level(headptr, TAILPTR) <= Lag
    /\ LET count == RoomFor(Chunk)
       IN  /\ tailptr' = TailSeen(Chunk)
           /\ pattern' = pattern + Chunk
           /\ n_bytes' = n_bytes + count
           /\ IF count = 0
              THEN UNCHANGED <<headptr, buffer>>
              ELSE /\ headptr' = Copied(headptr, count)
                   /\ buffer' = [c \in Cells |->
                        IF \E i \in 1 .. count : CellOf(headptr, i) = c
                        THEN pattern + CHOOSE i \in 1 .. count : CellOf(headptr, i) = c
                        ELSE buffer[c]]
    /\ pc' = "commit"
    /\ UNCHANGED <<HEADPTR, dmaVars>>

Commit ==
    /\ pc = "commit"
    /\ HEADPTR' = headptr % Pointer
    /\ pc' = "put"
    /\ UNCHANGED <<headptr, tailptr, pattern, n_bytes, dmaVars, buffer>>

\* The simulation ends, whatever the ring still holds.
Exit ==
    /\ pc = "put" /\ n_bytes >= Limit
    /\ pc' = "exit"
    /\ UNCHANGED <<driverVars, pattern, n_bytes, dmaVars, buffer>>

\* The DMA streams the next byte.
Stream ==
    /\ pc # "exit" /\ TAILPTR # HEADPTR
    /\ TAILPTR' = Advance(TAILPTR)
    /\ streamed' = streamed + 1
    /\ beat' = buffer[TAILPTR']
    /\ UNCHANGED <<driverVars, taskVars, buffer>>

Next == Put \/ Commit \/ Exit \/ Stream

Spec == Init /\ [][Next]_vars

-------------------------------------------------------------------------------
(* Properties.                                                               *)

\* The testbench's assertion `assert(m00_axis.tdata == x00_counter)': the bytes
\* appear on the stream in the order of the pattern, none missing or repeated.
StreamInOrder == streamed > 0 => beat = streamed

\* The driver's pointers account for every byte put has taken: what is not yet
\* streamed is in the ring, in order, from the device's tail to the driver's head.
RingHoldsTheRest ==
    /\ Level(headptr, TAILPTR) = n_bytes - streamed
    /\ \A i \in 1 .. n_bytes - streamed : buffer[CellOf(TAILPTR, i)] = streamed + i

\* The tail the driver remembers is stale, and only errs towards a fuller ring: put
\* never takes for room what the DMA has still to stream.
StaleTailIsSafe == Level(headptr, tailptr) >= Level(headptr, TAILPTR)

\* put leaves the head put_dumb would leave, or the word below zero for the last
\* cell, at every head the demo meets and for every number of bytes it could take.
PutIsPutDumb == \A n \in 1 .. Capacity : CopyIsSteps(headptr, n)
==============================================================================
