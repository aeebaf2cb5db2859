------------------------------- MODULE RingOps -------------------------------
(***************************************************************************)
(* The arithmetic both ring buffer drivers share.  A ring of BufferSize    *)
(* cells; a pointer names the last cell its side has finished with, so the *)
(* ring is empty when the pointers meet and holds at most Capacity bytes.  *)
(* Pointers are unsigned words and wrap at Word; the testbench's stream is *)
(* one byte wide, so the width of the drivers is 1.                        *)
(***************************************************************************)
EXTENDS Integers

CONSTANTS
    BufferSize, \* buffer_size
    Word        \* 2^32 in the code; TLC takes less, far above BufferSize

ASSUME RingAssumption ==
    /\ BufferSize \in Nat /\ BufferSize > 1
    /\ Word \in Nat /\ Word > 2 * BufferSize

Capacity == BufferSize - 1
Cells == 0 .. Capacity
Unsigned(n) == n % Word

Level(headptr, tailptr) ==
    IF headptr = tailptr THEN 0
    ELSE IF tailptr > headptr THEN Unsigned(headptr + (BufferSize - tailptr))
    ELSE headptr - tailptr

\* The next cell of the ring; the word below zero is before cell 0.
Advance(ptr) == LET nxt == Unsigned(ptr + 1) IN IF nxt <= Capacity THEN nxt ELSE 0

\* Where a copy of count cells after ptr leaves the pointer, when it is done with
\* one memcpy up to the end of the buffer and one from its start.
M_Copied(ptr, count) == Advance(ptr) + count - 1    \* never wraps
Copied(ptr, count) ==
    LET first == Advance(ptr)
    IN  IF count >= BufferSize - first
        THEN Unsigned(count - (BufferSize - first) - 1)
        ELSE first + count - 1

\* The same one cell at a time, as put_dumb and get_dumb do it.
Stepped(ptr, count) ==
    LET after[n \in 0 .. count] == IF n = 0 THEN ptr ELSE Advance(after[n - 1])
    IN  after[count]

\* The cell of the i-th byte of a copy (i from 1) after ptr.
M_CellOf(ptr, i) == (ptr + i - 1) % BufferSize      \* pointers one past the byte
CellOf(ptr, i) == (Advance(ptr) + i - 1) % BufferSize

\* The copies of put and get reach the cells and the pointer of their byte by
\* byte versions, but for one case: data that end in the last cell of the buffer
\* leave the word below zero for a pointer, not the last cell.
CopyIsSteps(ptr, count) ==
    \/ Copied(ptr, count) = Stepped(ptr, count)
    \/ Stepped(ptr, count) = Capacity /\ Copied(ptr, count) = Word - 1
==============================================================================
