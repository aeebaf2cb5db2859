-------------------------------- MODULE Sfifo --------------------------------
(***************************************************************************)
(* The synchronous FIFO `sfifo' every OBI block instantiates.  Its source  *)
(* is not part of the repository; it is modelled from how the blocks use   *)
(* it (LGFLEN, OPT_WRITE_ON_FULL = 0 and both settings of                  *)
(* OPT_READ_ON_EMPTY).  A FIFO is the sequence of its entries.  What one   *)
(* clock writes is a sequence of at most one datum, so that `no write' is  *)
(* the empty sequence.                                                     *)
(***************************************************************************)
EXTENDS Naturals, Sequences

\* One write (or none) into a FIFO of `depth' entries: a write into a full
\* FIFO is dropped, even if the same clock also reads (OPT_WRITE_ON_FULL = 0).
Pushed(q, depth, in) == IF Len(q) < depth THEN q \o in ELSE q

\* One read (or none): a read of an empty FIFO does nothing.
Popped(q, rd) == IF rd /\ q # <<>> THEN Tail(q) ELSE q

\* One clock of a FIFO whose reader sees the stored entries only
\* (OPT_READ_ON_EMPTY = 0).
AfterClock(q, depth, in, rd) ==
    Popped(q, rd) \o (IF Len(q) < depth THEN in ELSE <<>>)

\* A sequence of at most one element: x if c holds, nothing otherwise.
When(c, x) == IF c THEN <<x>> ELSE <<>>
==============================================================================
