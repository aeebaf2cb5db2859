------------------------------- MODULE TcpBuf -------------------------------
(***************************************************************************)
(* struct tcp_buf: the buffer that carries bytes between the socket thread *)
(* and the simulation.  One thread puts, the other gets, with no lock: the *)
(* only protocol is who stores which pointer, and one cell that stays      *)
(* empty.  A step is one access to shared memory.                          *)
(*                                                                         *)
(* The fields are not atomic: the order of the accesses within a call, and *)
(* whether a pointer is stored or loaded once or as often as it is written *)
(* (wptr is incremented, then reduced modulo BUFSIZE_BYTE; rptr compared,  *)
(* then subtracted), is the compiler's choice, the same for every call of  *)
(* a build.  gcc -Og, the build of src/tb/ibex/debug, moves wptr, stores   *)
(* the byte, then brings wptr back into the array.  There, as in most      *)
(* builds, a check can take a pointer in the middle of an update for one   *)
(* that is whole.  `torn' records that it has; what the buffer promises,   *)
(* it promises until then.                                                 *)
(***************************************************************************)
EXTENDS Integers, Sequences

CONSTANTS
    BUFSIZE_BYTE,   \* 1024
    StoreFirst,     \* put stores the byte before it increments wptr
    PutTwice,       \* put stores wptr twice
    Reread,         \* is_full loads rptr again to subtract
    LoadFirst,      \* get loads the byte before it increments rptr
    GetTwice,       \* get stores rptr twice
    MaxBytes        \* bound of a run: bytes put, and bytes counted by the reader

ASSUME BufAssumption ==
    /\ BUFSIZE_BYTE \in Nat /\ BUFSIZE_BYTE > 1
    /\ {StoreFirst, PutTwice, Reread, LoadFirst, GetTwice} \subseteq BOOLEAN
    /\ MaxBytes \in Nat

VARIABLES
    wptr, rptr, buf,    \* the struct; a byte is its number, 0 if never written
    wpc, wat, puts,     \* the writer: its next access, its cell, bytes published
    seen,               \* the rptr it compared wptr with
    rpc, rat, dat, gets,\* the reader: its next access, its cell, *dat, bytes taken
    torn                \* history: a check fell in the middle of an update

writerVars == <<wptr, wpc, wat, puts, seen>>
readerVars == <<rptr, rpc, rat, dat, gets>>
bufVars == <<writerVars, readerVars, buf, torn>>

Cells == 0 .. BUFSIZE_BYTE - 1
Wrapped(ptr) == IF ptr < BUFSIZE_BYTE THEN ptr ELSE ptr - BUFSIZE_BYTE
Bumped(ptr, twice) == IF twice THEN ptr + 1 ELSE Wrapped(ptr + 1)

M_FullAt(r) == IF wpc = "ahead" THEN wptr - r = BUFSIZE_BYTE ELSE r - wptr = 0   \* no spare cell
FullAt(r) == IF wpc = "ahead" THEN wptr - r = BUFSIZE_BYTE - 1 ELSE r - wptr = 1
M_Empty == Wrapped(wptr + 1) = rptr
Empty == wptr = rptr

BufInit ==
    /\ wptr = 0 /\ rptr = 0 /\ buf = [c \in Cells |-> 0]
    /\ wpc = "check" /\ wat = 0 /\ puts = 0 /\ seen = 0
    /\ rpc = "check" /\ rat = 0 /\ dat = 0 /\ gets = 0
    /\ torn = FALSE

\* The rptr compared was one past the end of the buffer, the one subtracted is not.
LapBetween(r) == seen = BUFSIZE_BYTE /\ r # BUFSIZE_BYTE

\* What the reader goes for is the byte of a put that has moved wptr and not stored
\* it yet, or nothing but wptr one past the end of the buffer.
HalfPut ==
    \/ wpc = "store" /\ ~StoreFirst /\ rptr = wat
    \/ wptr = BUFSIZE_BYTE /\ rptr = 0

-------------------------------------------------------------------------------
(* tcp_buffer_put_byte                                                       *)

PutCompare ==
    /\ wpc = "check" /\ puts < MaxBytes
    /\ seen' = rptr
    /\ wpc' = IF wptr >= rptr THEN "ahead" ELSE "behind"
    /\ UNCHANGED <<wptr, wat, puts, readerVars, buf, torn>>

\* The loop goes round as long as the buffer is full.
PutSubtract ==
    LET r == IF Reread THEN rptr ELSE seen IN
    /\ wpc \in {"ahead", "behind"}
    /\ IF FullAt(r) THEN wpc' = "check" /\ UNCHANGED <<wat, torn>>
       ELSE /\ wpc' = IF StoreFirst THEN "store" ELSE "bump"
            /\ wat' = wptr
            /\ torn' = (torn \/ LapBetween(r))
    /\ UNCHANGED <<wptr, puts, seen, readerVars, buf>>

PutStore ==
    /\ wpc = "store"
    /\ buf' = [buf EXCEPT ![wat] = IF StoreFirst THEN puts + 1 ELSE puts]
    /\ wpc' = IF StoreFirst THEN "bump" ELSE "wrap"
    /\ UNCHANGED <<wptr, wat, puts, seen, readerVars, torn>>

PutBump ==
    /\ wpc = "bump"
    /\ wptr' = Bumped(wptr, PutTwice)
    /\ puts' = puts + 1
    /\ wpc' = IF StoreFirst THEN "wrap" ELSE "store"
    /\ UNCHANGED <<wat, seen, readerVars, buf, torn>>

PutWrap ==
    /\ wpc = "wrap"
    /\ wptr' = Wrapped(wptr)
    /\ wpc' = "check"
    /\ UNCHANGED <<wat, puts, seen, readerVars, buf, torn>>

-------------------------------------------------------------------------------
(* tcp_buffer_get_byte                                                       *)

GetCheck ==
    /\ rpc = "check"
    /\ ~Empty
    /\ torn' = (torn \/ HalfPut)
    /\ rat' = rptr
    /\ rpc' = IF LoadFirst THEN "load" ELSE "bump"
    /\ UNCHANGED <<writerVars, rptr, dat, gets, buf>>

GetLoad ==
    /\ rpc = "load"
    /\ dat' = buf[rat]
    /\ rpc' = IF LoadFirst THEN "bump" ELSE "wrap"
    /\ UNCHANGED <<writerVars, rptr, rat, gets, buf, torn>>

GetBump ==
    /\ rpc = "bump"
    /\ rptr' = Bumped(rptr, GetTwice)
    /\ gets' = IF gets < MaxBytes THEN gets + 1 ELSE gets
    /\ rpc' = IF LoadFirst THEN "wrap" ELSE "load"
    /\ UNCHANGED <<writerVars, rat, dat, buf, torn>>

GetWrap ==
    /\ rpc = "wrap"
    /\ rptr' = Wrapped(rptr)
    /\ rpc' = "check"
    /\ UNCHANGED <<writerVars, rat, dat, gets, buf, torn>>

Writer == PutCompare \/ PutSubtract \/ PutStore \/ PutBump \/ PutWrap
Reader == GetCheck \/ GetLoad \/ GetBump \/ GetWrap
BufNext == Writer \/ Reader

\* Both threads run, and the reader calls get again and again.
BufSpec == BufInit /\ [][BufNext]_bufVars /\ WF_bufVars(Writer) /\ WF_bufVars(Reader)

-------------------------------------------------------------------------------
(* Properties.                                                               *)

\* The pointers a check looks at are within the array, whatever the build.
BufTypeOK ==
    /\ wptr \in 0 .. BUFSIZE_BYTE /\ rptr \in 0 .. BUFSIZE_BYTE
    /\ buf \in [Cells -> Nat] /\ torn \in BOOLEAN
    /\ wpc \in {"check", "ahead", "behind", "store", "bump", "wrap"}
    /\ wat \in Cells /\ puts \in Nat /\ seen \in 0 .. BUFSIZE_BYTE
    /\ rpc \in {"check", "load", "bump", "wrap"} /\ rat \in Cells
    /\ dat \in Nat /\ gets \in Nat
    /\ wptr = BUFSIZE_BYTE => wpc = "wrap" \/ (wpc = "store" /\ ~StoreFirst)
    /\ rptr = BUFSIZE_BYTE => rpc = "wrap" \/ (rpc = "load" /\ ~LoadFirst)

\* The bytes get returns are those put was given, in their order: the reader never
\* sees a cell before its byte is in it nor after the writer is back at it, unless
\* it goes for a byte in the middle of its put, or the writer compares one value of
\* rptr and subtracts the other across the end of the buffer.
BytesInOrder == ~torn => (rpc \in {"check", "wrap"} => dat = gets)

\* The writer never stores into a cell whose byte the reader is still to load, even
\* when the reader has already moved rptr past it: the spare cell is there for that.
NoOverwrite == ~torn => (wpc = "store" /\ rpc = "load" => wat # rat)

\* The buffer is a queue of BUFSIZE_BYTE - 1 bytes: a put takes effect when wptr
\* moves, a get when rptr does, whichever comes first, the byte or the pointer.
Used == LET w == Wrapped(wptr) r == Wrapped(rptr)
        IN  IF w >= r THEN w - r ELSE w - r + BUFSIZE_BYTE
Byte(c) == IF wpc = "store" /\ ~StoreFirst /\ c = wat THEN puts ELSE buf[c]
Queue == INSTANCE ByteQueue WITH
    Capacity <- BUFSIZE_BYTE - 1,
    queue <- [i \in 1 .. Used |-> Byte(Wrapped(Wrapped(rptr) + i - 1))],
    put <- puts,
    hand <- CASE rpc = "load" /\ ~LoadFirst -> buf[rat]
              [] rpc = "bump" /\ LoadFirst -> gets
              [] OTHER -> dat
QueueSpec == Queue!Init /\ [][torn' \/ Queue!Step]_bufVars

\* A put that finds the buffer full goes on, once the reader has made room; in every
\* build, torn or not.
PutReturns == wpc \in {"ahead", "behind"} ~> wpc \in {"store", "bump"}

-------------------------------------------------------------------------------
(* Why the bytes come in order: every cell between the pointers holds the byte *)
(* of its place, but for the one a put has yet to store.                       *)

Seat == Wrapped(rptr)       \* the cell of the oldest byte
Free == Wrapped(wptr)       \* the cell of the next put

PointersAgree ==
    /\ puts <= MaxBytes
    /\ Free >= Seat => puts = gets + (Free - Seat)
    /\ Free < Seat => puts = gets + (Free - Seat) + BUFSIZE_BYTE

BytesStored == \A c \in Cells :
    /\ c >= Seat /\ (c < Free \/ Free < Seat) => Byte(c) = gets + 1 + (c - Seat)
    /\ c < Free /\ Free < Seat => Byte(c) = gets + 1 + (c - Seat) + BUFSIZE_BYTE

\* The cell after c is not the oldest byte's.
RoomAt(c) == c + 1 # Seat /\ ~(c = BUFSIZE_BYTE - 1 /\ Seat = 0)

\* rptr has gone on since the writer saw it, and not past wptr.
SeenBefore ==
    /\ wpc = "ahead" => seen <= rptr /\ rptr <= wptr
    /\ wpc = "behind" => seen > wptr /\ (rptr > wptr => seen <= rptr)

\* Past its check the writer has room at wptr until it bumps; the byte it stores
\* after that is the newest, and the reader is not there yet.
WriterHasRoom ==
    /\ SeenBefore
    /\ wpc \in {"ahead", "behind"} => puts < MaxBytes
    /\ (wpc = "store" /\ StoreFirst) \/ wpc = "bump" =>
         wat = wptr /\ RoomAt(wptr) /\ puts < MaxBytes
    /\ wpc = "bump" /\ StoreFirst => buf[wptr] = puts + 1
    /\ wpc = "store" /\ ~StoreFirst => Free = Wrapped(wat + 1) /\ Free # Seat

\* Before it moves rptr the reader has a whole byte at rptr; after, the byte is behind
\* it; and between two of its calls it has the last one.
ReaderHasByte ==
    /\ rpc = "bump" \/ (rpc = "load" /\ LoadFirst) =>
         rat = rptr /\ rptr # Free /\ ~(wpc = "store" /\ ~StoreFirst /\ rptr = wat)
    /\ rpc = "load" /\ ~LoadFirst =>
         buf[rat] = gets /\ (rat + 1 = Seat \/ (rat = BUFSIZE_BYTE - 1 /\ Seat = 0))
    /\ rpc = "bump" /\ LoadFirst => dat = gets + 1
    /\ rpc # (IF LoadFirst THEN "bump" ELSE "load") => dat = gets

Whole == PointersAgree /\ BytesStored /\ WriterHasRoom /\ ReaderHasByte

IInv == BufTypeOK /\ (~torn => Whole)
==============================================================================
