---------------------------- MODULE RingDemoProofs ----------------------------
(***************************************************************************)
(* The ring buffer demo, for any size of the rings: the arithmetic of the  *)
(* drivers' pointers, the receive ring, the transmit ring, and what their  *)
(* composition adds, the wake-ups and the room for what is on its way.     *)
(***************************************************************************)
EXTENDS RingDemo, QueueLemmas

-------------------------------------------------------------------------------
(* The pointers' arithmetic.                                                 *)

\* The cell n places on from cell p, for n up to a lap.
Ahead(p, n) == IF p + n < BufferSize THEN p + n ELSE p + n - BufferSize

LEMMA AheadType ==
    ASSUME NEW p \in Cells, NEW n \in 0 .. BufferSize
    PROVE  Ahead(p, n) \in Cells
BY RingAssumption DEF Cells, Capacity, Ahead

LEMMA AdvanceIs ==
    ASSUME NEW p \in Cells
    PROVE  Advance(p) = Ahead(p, 1)
BY RingAssumption DEF Cells, Capacity, Ahead, Advance, Unsigned

LEMMA CellIs ==
    ASSUME NEW p \in Cells, NEW n \in 1 .. BufferSize
    PROVE  CellOf(p, n) = Ahead(p, n)
<1>1. Advance(p) = Ahead(p, 1)
  BY AdvanceIs
<1> DEFINE sum == Ahead(p, 1) + n - 1
<1>2. CellOf(p, n) = sum % BufferSize
  BY <1>1 DEF CellOf
<1>3. BufferSize \in Nat \ {0} /\ sum \in Nat /\ sum < 2 * BufferSize
  BY RingAssumption DEF Cells, Capacity, Ahead
<1>4. sum % BufferSize = IF sum < BufferSize THEN sum ELSE sum - BufferSize
  <2> HIDE DEF sum
  <2> QED BY <1>3
<1> QED BY <1>2, <1>4, RingAssumption DEF Cells, Capacity, Ahead

\* Ways add up.
LEMMA AheadAdds ==
    ASSUME NEW p \in Cells, NEW m \in Nat, NEW n \in Nat, m + n <= BufferSize
    PROVE  Ahead(Ahead(p, m), n) = Ahead(p, m + n)
BY RingAssumption DEF Cells, Capacity, Ahead

LEMMA AheadNothing == ASSUME NEW p \in Cells PROVE Ahead(p, 0) = p
BY RingAssumption DEF Cells, Capacity, Ahead

\* No cell is met twice in a lap.
LEMMA AheadApart ==
    ASSUME NEW p \in Cells, NEW m \in 1 .. BufferSize, NEW n \in 1 .. BufferSize,
           Ahead(p, m) = Ahead(p, n)
    PROVE  m = n
BY RingAssumption DEF Cells, Capacity, Ahead

\* Level is the way from the tail to the head.
LEMMA LevelIs ==
    ASSUME NEW p \in Cells, NEW n \in 0 .. Capacity
    PROVE  Level(Ahead(p, n), p) = n
BY RingAssumption DEF Cells, Capacity, Ahead, Level, Unsigned

LEMMA LevelWay ==
    ASSUME NEW h \in Cells, NEW t \in Cells
    PROVE  Level(h, t) \in 0 .. Capacity /\ h = Ahead(t, Level(h, t))
BY RingAssumption DEF Cells, Capacity, Ahead, Level, Unsigned

\* A copy in two pieces ends in the cell it should, or, for the last cell of the
\* buffer, in the word below zero.
LEMMA CopiedIs ==
    ASSUME NEW p \in Cells, NEW n \in 1 .. Capacity
    PROVE  Copied(p, n) = IF Ahead(p, n) = Capacity /\ p # Capacity THEN Word - 1
                          ELSE Ahead(p, n)
<1>1. Advance(p) = Ahead(p, 1)
  BY AdvanceIs
<1> QED BY <1>1, RingAssumption DEF Cells, Capacity, Ahead, Copied, Unsigned

\* The recursive function behind Stepped, by its closed form.
LEMMA SteppedIs ==
    ASSUME NEW p \in Cells, NEW count \in 0 .. BufferSize
    PROVE  Stepped(p, count) = Ahead(p, count)
<1> DEFINE Eq(f) == f = [n \in 0 .. count |-> IF n = 0 THEN p ELSE Advance(f[n - 1])]
           g == [n \in 0 .. count |-> Ahead(p, n)]
           after == CHOOSE f : Eq(f)
<1>1. Eq(g)
  <2>1. \A n \in 0 .. count : g[n] = IF n = 0 THEN p ELSE Advance(g[n - 1])
    <3> TAKE n \in 0 .. count
    <3>1. CASE n = 0
      BY <3>1, AheadNothing
    <3>2. CASE n # 0
      <4>1. n - 1 \in 0 .. count /\ n \in 0 .. BufferSize /\ n - 1 \in 0 .. BufferSize
        BY <3>2, RingAssumption
      <4>2. Ahead(p, n - 1) \in Cells
        BY <4>1, AheadType
      <4>3. Advance(Ahead(p, n - 1)) = Ahead(Ahead(p, n - 1), 1)
        BY <4>2, AdvanceIs
      <4>4. Ahead(Ahead(p, n - 1), 1) = Ahead(p, (n - 1) + 1)
        BY <4>1, AheadAdds, RingAssumption
      <4> QED BY <3>2, <4>1, <4>3, <4>4
    <3> QED BY <3>1, <3>2
  <2> QED BY <2>1
<1>2. Eq(after)
  BY <1>1
<1> HIDE DEF after, g
<1>3. \A n \in Nat : n \in 0 .. count => after[n] = Ahead(p, n)
  <2> DEFINE S == {n \in Nat : n \in 0 .. count => after[n] = Ahead(p, n)}
  <2>1. 0 \in S
    BY <1>2, AheadNothing, RingAssumption
  <2>2. ASSUME NEW n \in Nat, n \in S
        PROVE  n + 1 \in S
    <3> SUFFICES ASSUME n + 1 \in 0 .. count
                 PROVE  after[n + 1] = Ahead(p, n + 1)
      OBVIOUS
    <3>1. n \in 0 .. count /\ n \in 0 .. BufferSize /\ n + 1 <= BufferSize
      BY RingAssumption
    <3>2. after[n] = Ahead(p, n)
      BY <2>2, <3>1
    <3>3. after[n + 1] = Advance(after[n])
      BY <1>2, <3>1
    <3>4. Advance(Ahead(p, n)) = Ahead(p, n + 1)
      BY <3>1, AheadType, AdvanceIs, AheadAdds
    <3> QED BY <3>2, <3>3, <3>4
  <2> HIDE DEF S
  <2>3. Nat \subseteq S
    BY <2>1, <2>2, Induction
  <2> QED BY <2>3 DEF S
<1>4. Stepped(p, count) = after[count]
  BY DEF Stepped, after
<1> QED BY <1>3, <1>4, RingAssumption

-------------------------------------------------------------------------------
(* Where the pointers stop when every transfer is a multiple of d.           *)

Divides(d, n) == \E k \in Nat : n = k * d
Stops(d) == {c \in Cells : Divides(d, c)}

LEMMA DividesAdds ==
    ASSUME NEW d \in Nat, NEW m \in Nat, NEW n \in Nat, Divides(d, m), Divides(d, n)
    PROVE  Divides(d, m + n)
<1>1. PICK k \in Nat : m = k * d
  BY DEF Divides
<1>2. PICK l \in Nat : n = l * d
  BY DEF Divides
<1>3. m + n = (k + l) * d /\ k + l \in Nat
  BY <1>1, <1>2
<1> QED BY <1>3 DEF Divides

LEMMA DividesTakes ==
    ASSUME NEW d \in Nat, NEW m \in Nat, NEW n \in Nat, n <= m, Divides(d, m), Divides(d, n)
    PROVE  Divides(d, m - n)
<1>1. PICK k \in Nat : m = k * d
  BY DEF Divides
<1>2. PICK l \in Nat : n = l * d
  BY DEF Divides
<1>3. m - n = (k - l) * d /\ k - l \in Int
  BY <1>1, <1>2
<1>4. CASE m = n
  BY <1>4, 0 = 0 * d DEF Divides
<1>5. CASE m # n
  <2>1. k - l > 0
    <3> SUFFICES ASSUME l >= k
                 PROVE  FALSE
      OBVIOUS
    <3>1. l - k \in Nat /\ (l - k) * d \in Nat
      OBVIOUS
    <3>2. n = m + (l - k) * d
      BY <1>1, <1>2
    <3>3. \E x \in Nat : n = m + x
      BY <3>1, <3>2
    <3> QED BY <1>5, <3>3
  <2>2. k - l \in Nat
    BY <2>1
  <2>3. \E x \in Nat : m - n = x * d
    BY <1>3, <2>2
  <2> QED BY <2>3 DEF Divides
<1> QED BY <1>4, <1>5

\* The last cell is no stop.
LEMMA CapacityNoStop ==
    ASSUME NEW d \in Nat, d > 1, Divides(d, BufferSize)
    PROVE  Capacity \notin Stops(d)
<1> SUFFICES ASSUME Divides(d, Capacity)
             PROVE  FALSE
  BY DEF Stops
<1>1. Divides(d, BufferSize - Capacity)
  BY DividesTakes, RingAssumption DEF Capacity
<1>2. PICK k \in Nat : 1 = k * d
  BY <1>1, RingAssumption DEF Capacity, Divides
<1>3. CASE k = 0
  BY <1>2, <1>3
<1>4. CASE k >= 1
  BY <1>2, <1>4
<1> QED BY <1>3, <1>4

LEMMA AheadStops ==
    ASSUME NEW d \in Nat, Divides(d, BufferSize), NEW p \in Stops(d),
           NEW n \in 0 .. BufferSize, Divides(d, n)
    PROVE  Ahead(p, n) \in Stops(d)
<1>1. p \in Cells /\ p \in Nat /\ Divides(d, p) /\ n \in Nat /\ BufferSize \in Nat
  BY RingAssumption DEF Stops, Cells, Capacity
<1>2. Divides(d, p + n)
  BY <1>1, DividesAdds
<1>3. p + n >= BufferSize => Divides(d, p + n - BufferSize)
  BY <1>1, <1>2, DividesTakes
<1>4. Ahead(p, n) \in Cells
  BY <1>1, AheadType
<1> QED BY <1>1, <1>2, <1>3, <1>4 DEF Ahead, Stops

LEMMA LevelStops ==
    ASSUME NEW d \in Nat, Divides(d, BufferSize), NEW h \in Stops(d), NEW t \in Stops(d)
    PROVE  Divides(d, Level(h, t))
<1>1. /\ h \in Cells /\ h \in Nat /\ Divides(d, h) /\ BufferSize \in Nat
      /\ t \in Cells /\ t \in Nat /\ Divides(d, t)
  BY RingAssumption DEF Stops, Cells, Capacity
<1>2. Level(h, t) = IF t > h THEN h + BufferSize - t ELSE h - t
  BY <1>1, RingAssumption DEF Level, Unsigned, Cells, Capacity
<1>3. t <= h => Divides(d, h - t)
  BY <1>1, DividesTakes
<1>4. Divides(d, h + BufferSize - t)
  <2>1. Divides(d, h + BufferSize) /\ t <= h + BufferSize
    BY <1>1, DividesAdds DEF Cells, Capacity
  <2> QED BY <1>1, <2>1, DividesTakes
<1> QED BY <1>1, <1>2, <1>3, <1>4

\* A copy that ends at a stop leaves the pointer there.
LEMMA CopiedStops ==
    ASSUME NEW d \in Nat, d > 1, Divides(d, BufferSize), NEW p \in Stops(d),
           NEW n \in 1 .. Capacity, Divides(d, n)
    PROVE  Copied(p, n) = Ahead(p, n) /\ Ahead(p, n) \in Stops(d)
<1>1. p \in Cells /\ n \in 0 .. BufferSize
  BY RingAssumption DEF Stops, Capacity
<1>2. Ahead(p, n) \in Stops(d)
  BY <1>1, AheadStops
<1>3. Ahead(p, n) # Capacity
  BY <1>2, CapacityNoStop
<1> QED BY <1>1, <1>2, <1>3, CopiedIs

-------------------------------------------------------------------------------
(* What a ring holds.                                                        *)

\* The n cells after t hold the bytes after byte b.
Holds(cells, t, n, b) == \A i \in 1 .. n : cells[Ahead(t, i)] = b + i

\* The cells after a write of n bytes after byte b from cell h on, as Store and
\* Put have it.
Written(cells, h, n, b) ==
    [c \in Cells |-> IF \E i \in 1 .. n : CellOf(h, i) = c
                     THEN b + CHOOSE i \in 1 .. n : CellOf(h, i) = c
                     ELSE cells[c]]

LEMMA WrittenIs ==
    ASSUME NEW h \in Cells, NEW n \in 0 .. Capacity, NEW cells, NEW b \in Nat
    PROVE  /\ \A i \in 1 .. n : Written(cells, h, n, b)[Ahead(h, i)] = b + i
           /\ \A i \in (n + 1) .. BufferSize :
                  Written(cells, h, n, b)[Ahead(h, i)] = cells[Ahead(h, i)]
<1>1. \A i \in 1 .. BufferSize : Ahead(h, i) \in Cells /\ CellOf(h, i) = Ahead(h, i)
  BY AheadType, CellIs, RingAssumption
<1>2. 1 .. n \subseteq 1 .. BufferSize
  BY RingAssumption DEF Capacity
<1>3. ASSUME NEW i \in 1 .. n
      PROVE  Written(cells, h, n, b)[Ahead(h, i)] = b + i
  <2>1. i \in 1 .. BufferSize
    BY <1>2
  <2>2. \A j \in 1 .. n : CellOf(h, j) = Ahead(h, i) => j = i
    BY <1>1, <1>2, <2>1, AheadApart
  <2>3. CellOf(h, i) = Ahead(h, i)
    BY <1>1, <2>1
  <2>4. (CHOOSE j \in 1 .. n : CellOf(h, j) = Ahead(h, i)) = i
    BY <2>2, <2>3
  <2> QED BY <1>1, <2>1, <2>3, <2>4 DEF Written
<1>4. ASSUME NEW i \in (n + 1) .. BufferSize
      PROVE  Written(cells, h, n, b)[Ahead(h, i)] = cells[Ahead(h, i)]
  <2>1. i \in 1 .. BufferSize /\ i \notin 1 .. n
    BY RingAssumption
  <2>2. \A j \in 1 .. n : CellOf(h, j) # Ahead(h, i)
    BY <1>1, <1>2, <2>1, AheadApart
  <2> QED BY <1>1, <2>1, <2>2 DEF Written
<1> QED BY <1>3, <1>4

\* What is written after what a ring holds extends it, as far as there is room.
LEMMA HoldsMore ==
    ASSUME NEW t \in Cells, NEW n \in Nat, NEW k \in Nat, n + k <= Capacity,
           NEW b \in Nat, NEW cells, Holds(cells, t, n, b)
    PROVE  Holds(Written(cells, Ahead(t, n), k, b + n), t, n + k, b)
<1> DEFINE h == Ahead(t, n)
           new == Written(cells, h, k, b + n)
<1>1. h \in Cells /\ k \in 0 .. Capacity /\ b + n \in Nat
  BY AheadType, RingAssumption DEF Capacity
<1>2. SUFFICES ASSUME NEW i \in 1 .. n + k
               PROVE  new[Ahead(t, i)] = b + i
  BY DEF Holds
<1>3. CASE i > n
  <2>1. i - n \in 1 .. k /\ Ahead(t, i) = Ahead(h, i - n)
    <3>1. i - n \in Nat /\ n + (i - n) <= BufferSize /\ n + (i - n) = i /\ i - n \in 1 .. k
      BY <1>3, RingAssumption DEF Capacity
    <3>2. Ahead(Ahead(t, n), i - n) = Ahead(t, n + (i - n))
      BY <3>1, AheadAdds
    <3> QED BY <3>1, <3>2
  <2>2. new[Ahead(h, i - n)] = (b + n) + (i - n)
    <3> HIDE DEF h
    <3> QED BY <1>1, <2>1, WrittenIs
  <2> QED BY <2>1, <2>2
<1>4. CASE i <= n
  <2>1. \* The cell is met again a lap later.
        /\ BufferSize - n + i \in (k + 1) .. BufferSize
        /\ Ahead(t, i) = Ahead(h, BufferSize - n + i)
    BY <1>4, RingAssumption DEF Capacity, Ahead, Cells
  <2>2. new[Ahead(h, BufferSize - n + i)] = cells[Ahead(h, BufferSize - n + i)]
    <3> DEFINE j == BufferSize - n + i
    <3> HIDE DEF h, j
    <3> QED BY <1>1, <2>1, WrittenIs DEF j
  <2>3. cells[Ahead(t, i)] = b + i
    BY <1>4 DEF Holds
  <2> QED BY <2>1, <2>2, <2>3
<1> QED BY <1>3, <1>4

\* What is left when the first k bytes have been read.
LEMMA HoldsLess ==
    ASSUME NEW t \in Cells, NEW n \in 0 .. Capacity, NEW k \in 0 .. n,
           NEW b \in Nat, NEW cells, Holds(cells, t, n, b)
    PROVE  Holds(cells, Ahead(t, k), n - k, b + k)
<1> SUFFICES ASSUME NEW i \in 1 .. n - k
             PROVE  cells[Ahead(Ahead(t, k), i)] = b + k + i
  BY DEF Holds
<1>1. k + i \in 1 .. n /\ k \in Nat /\ i \in Nat /\ k + i <= BufferSize
  BY RingAssumption DEF Capacity
<1>2. Ahead(Ahead(t, k), i) = Ahead(t, k + i)
  BY <1>1, AheadAdds
<1> QED BY <1>1, <1>2 DEF Holds

-------------------------------------------------------------------------------
(* The receive ring, when every transfer is a multiple of one number.        *)

\* Bytes the task has given back to the ring.
Returned == taken + (IF pc = "check" THEN Len(got) ELSE 0)

ReceiveType ==
    /\ stored \in Nat /\ taken \in Nat /\ got \in Seq(Nat)
    /\ pc \in {"get", "commit", "check", "drained", "mismatch"}
    /\ buffer \in [Cells -> Nat]

\* Between the registers is what is stored and not given back, and no more than
\* fits.
RingFilled ==
    /\ TAILPTR \in Cells /\ Returned \in Nat
    /\ stored - Returned \in 0 .. Capacity
    /\ HEADPTR = Ahead(TAILPTR, stored - Returned)
    /\ Holds(buffer, TAILPTR, stored - Returned, Returned)

\* The driver's tail is the register's, but for the bytes got and not committed.
TailKnown ==
    IF pc = "commit" THEN Len(got) <= stored - Returned /\ tailptr = Ahead(TAILPTR, Len(got))
    ELSE tailptr = TAILPTR

ReceiveStops(d) == HEADPTR \in Stops(d) /\ tailptr \in Stops(d)

RInv(d) == ReceiveType /\ RingFilled /\ TailKnown /\ ReceiveStops(d) /\ GetInOrder

\* What the moves of both pointers have in common: the buffer's size and the sizes
\* of all transfers.
ReceiveUnit(d) ==
    /\ d \in Nat /\ d > 1
    /\ Divides(d, BufferSize) /\ Divides(d, GetSize)
    /\ \A g \in Grains : Divides(d, g)

LEMMA RInvInit ==
    ASSUME NEW d, ReceiveUnit(d), Init
    PROVE  RInv(d)
<1>1. ReceiveType
  BY RingAssumption DEF Init, ReceiveType
<1>2. Returned = 0 /\ stored = 0 /\ 0 \in Cells
  BY RingAssumption DEF Init, Returned, Cells, Capacity
<1>3. RingFilled
  BY <1>2, AheadNothing, RingAssumption DEF Init, RingFilled, Holds, Capacity
<1>4. TailKnown /\ GetInOrder
  BY DEF Init, TailKnown, GetInOrder
<1>5. 0 \in Stops(d)
  BY <1>2, 0 = 0 * d DEF Stops, Divides, ReceiveUnit
<1>6. ReceiveStops(d)
  BY <1>5 DEF Init, ReceiveStops
<1> QED BY <1>1, <1>3, <1>4, <1>6 DEF RInv

LEMMA RInvStore ==
    ASSUME NEW d, ReceiveUnit(d), RInv(d), NEW n \in Grains, Store(n)
    PROVE  RInv(d)'
<1> DEFINE k == stored - Returned
<1> USE DEF RInv
<1>1. n \in 1 .. Capacity /\ k \in 0 .. Capacity /\ TAILPTR \in Cells /\ HEADPTR \in Cells
  BY S2mmAssumption DEF RingFilled, ReceiveStops, Stops
<1>2. Level(HEADPTR, TAILPTR) = k
  BY <1>1, LevelIs DEF RingFilled
<1>3. k + n <= Capacity /\ k + n \in 0 .. Capacity
  BY <1>1, <1>2, RingAssumption DEF Store, Room, Capacity
<1>4. HEADPTR' = Ahead(HEADPTR, n)
  <2>1. n \in 0 .. BufferSize
    BY <1>1, RingAssumption DEF Capacity
  <2> QED BY <1>1, <2>1, SteppedIs DEF Store
<1>5. Returned' = Returned /\ stored' = stored + n /\ stored \in Nat /\ Returned \in Nat
  BY DEF Store, taskVars, Returned, ReceiveType, RingFilled
<1>6. stored' - Returned' = k + n /\ k \in Nat /\ n \in Nat
  BY <1>1, <1>5
<1>7. HEADPTR' = Ahead(TAILPTR, k + n)
  <2>1. k + n <= BufferSize
    BY <1>3, RingAssumption DEF Capacity
  <2> QED BY <1>1, <1>4, <1>6, <2>1, AheadAdds DEF RingFilled
<1>8. buffer' = Written(buffer, HEADPTR, n, stored)
  BY DEF Store, Written
<1>9. Holds(buffer', TAILPTR, k + n, Returned)
  <2>1. HEADPTR = Ahead(TAILPTR, k) /\ Returned + k = stored /\ Holds(buffer, TAILPTR, k, Returned)
    BY <1>5 DEF RingFilled
  <2> HIDE DEF k
  <2> QED BY <1>1, <1>3, <1>5, <1>6, <1>8, <2>1, HoldsMore
<1>10. RingFilled'
  BY <1>1, <1>3, <1>5, <1>6, <1>7, <1>9 DEF RingFilled, Store, driverVars
<1>11. ReceiveType'
  <2>1. \A c \in Cells : buffer'[c] \in Nat
    <3> SUFFICES ASSUME NEW c \in Cells
                 PROVE  buffer'[c] \in Nat
      OBVIOUS
    <3>1. CASE \E i \in 1 .. n : CellOf(HEADPTR, i) = c
      <4>1. (CHOOSE i \in 1 .. n : CellOf(HEADPTR, i) = c) \in 1 .. n
        BY <3>1
      <4>2. buffer'[c] = stored + CHOOSE i \in 1 .. n : CellOf(HEADPTR, i) = c
        BY <1>8, <3>1 DEF Written
      <4> HIDE DEF k
      <4> QED BY <1>1, <1>5, <4>1, <4>2
    <3>2. CASE ~ \E i \in 1 .. n : CellOf(HEADPTR, i) = c
      BY <1>8, <3>2 DEF Written, ReceiveType
    <3> QED BY <3>1, <3>2
  <2>2. buffer' \in [Cells -> Nat]
    BY <1>8, <2>1 DEF Written
  <2> QED BY <1>1, <1>5, <2>2 DEF ReceiveType, Store, taskVars
<1>12. TailKnown'
  BY <1>1, <1>5, <1>6 DEF TailKnown, Store, driverVars, taskVars, ReceiveType
<1>13. ReceiveStops(d)'
  <2>1. n \in 0 .. BufferSize
    BY <1>1, RingAssumption DEF Capacity
  <2>2. Ahead(HEADPTR, n) \in Stops(d)
    BY <2>1, AheadStops DEF ReceiveUnit, ReceiveStops
  <2> QED BY <1>4, <2>2 DEF ReceiveStops, Store, driverVars
<1>14. GetInOrder'
  BY DEF GetInOrder, Store, taskVars
<1> QED BY <1>10, <1>11, <1>12, <1>13, <1>14

LEMMA RInvGet ==
    ASSUME NEW d, ReceiveUnit(d), RInv(d), Get
    PROVE  RInv(d)'
<1> DEFINE k == stored - Returned
<1> USE DEF RInv
<1>1. /\ pc = "get" /\ pc' = "commit"
      /\ UNCHANGED <<TAILPTR, HEADPTR, buffer, stored, taken>>
      /\ tailptr = TAILPTR /\ Returned = taken /\ Returned' = Returned
  BY DEF Get, engineVars, TailKnown, Returned, ReceiveType
<1>2. /\ k \in 0 .. Capacity /\ TAILPTR \in Cells /\ HEADPTR = Ahead(TAILPTR, k)
      /\ taken \in Nat /\ stored \in Nat
  BY DEF RingFilled, ReceiveType
<1>3. Level(HEADPTR, tailptr) = k /\ Divides(d, k)
  BY <1>1, <1>2, LevelIs, LevelStops DEF ReceiveUnit, ReceiveStops
<1>4. GetCount \in 0 .. k /\ Divides(d, GetCount) /\ GetCount \in Nat
  BY <1>2, <1>3, S2mmAssumption DEF GetCount, ReceiveUnit
<1> HIDE DEF k
<1>5. k \in Nat /\ k <= Capacity /\ Capacity \in Nat /\ Capacity < BufferSize /\ BufferSize \in Nat
  BY <1>2, RingAssumption DEF Capacity
<1>6. \A i \in 1 .. GetCount : buffer[CellOf(tailptr, i)] = taken + i
  <2> TAKE i \in 1 .. GetCount
  <2>1. i \in 1 .. k /\ i \in 1 .. BufferSize
    BY <1>4, <1>5
  <2>2. CellOf(tailptr, i) = Ahead(TAILPTR, i)
    BY <1>1, <1>2, <2>1, CellIs
  <2> QED BY <1>1, <2>1, <2>2 DEF RingFilled, Holds, k
<1>7. got' = [i \in 1 .. GetCount |-> taken + i]
  BY <1>6 DEF Get
<1>8. got' \in Seq(Nat) /\ Len(got') = GetCount /\ \A i \in 1 .. Len(got') : got'[i] = taken + i
  <2>1. \A i \in 1 .. GetCount : taken + i \in Nat
    BY <1>2, <1>4
  <2>2. got' \in [1 .. GetCount -> Nat]
    BY <1>7, <2>1
  <2>3. got' \in Seq(Nat) /\ Len(got') = GetCount
    BY <1>4, <2>2
  <2> QED BY <1>7, <2>3
<1>9. tailptr' = Ahead(TAILPTR, GetCount) /\ tailptr' \in Stops(d)
  <2>1. CASE GetCount = 0
    BY <1>1, <1>2, <2>1, AheadNothing DEF Get, ReceiveStops
  <2>2. CASE GetCount # 0
    <3>1. GetCount \in 1 .. Capacity
      BY <1>4, <1>5, <2>2
    <3>2. tailptr' = Copied(tailptr, GetCount)
      BY <2>2 DEF Get
    <3> QED BY <1>1, <1>4, <3>1, <3>2, CopiedStops DEF ReceiveUnit, ReceiveStops
  <2> QED BY <2>1, <2>2
<1>10. ReceiveType'
  BY <1>1, <1>8 DEF ReceiveType
<1>11. RingFilled'
  BY <1>1 DEF RingFilled
<1>12. TailKnown'
  BY <1>1, <1>4, <1>5, <1>8, <1>9 DEF TailKnown, k
<1>13. ReceiveStops(d)' /\ GetInOrder'
  BY <1>1, <1>8, <1>9 DEF ReceiveStops, GetInOrder
<1> QED BY <1>10, <1>11, <1>12, <1>13

LEMMA RInvCommit ==
    ASSUME NEW d, ReceiveUnit(d), RInv(d), Commit
    PROVE  RInv(d)'
<1> DEFINE k == stored - Returned
           n == Len(got)
<1> USE DEF RInv
<1>1. /\ pc = "commit" /\ pc' = "check"
      /\ UNCHANGED <<HEADPTR, tailptr, buffer, stored, taken, got>>
  BY DEF Commit, engineVars
<1>2. /\ k \in 0 .. Capacity /\ n \in 0 .. k /\ TAILPTR \in Cells
      /\ HEADPTR = Ahead(TAILPTR, k) /\ Holds(buffer, TAILPTR, k, Returned)
      /\ taken \in Nat /\ stored \in Nat /\ got \in Seq(Nat)
      /\ Returned = taken /\ Returned' = taken + n
  BY <1>1 DEF RingFilled, TailKnown, ReceiveType, Returned
<1>3. tailptr = Ahead(TAILPTR, n) /\ tailptr \in Cells
  BY <1>1 DEF TailKnown, ReceiveStops, Stops
<1>4. TAILPTR' = tailptr
  <2>1. tailptr \in Nat /\ tailptr < Pointer
    BY <1>3, RingAssumption, S2mmAssumption DEF Cells, Capacity
  <2>2. tailptr % Pointer = tailptr
    BY <2>1, S2mmAssumption
  <2> QED BY <2>2 DEF Commit
<1>5. stored' - Returned' = k - n
  BY <1>1, <1>2
<1>6. Holds(buffer, tailptr, k - n, taken + n)
  <2> HIDE DEF k, n
  <2> QED BY <1>2, <1>3, HoldsLess
<1>7. HEADPTR = Ahead(tailptr, k - n)
  <2>1. n \in Nat /\ k - n \in Nat /\ n + (k - n) = k /\ k <= BufferSize
    BY <1>2, RingAssumption DEF Capacity
  <2> HIDE DEF k, n
  <2> QED BY <1>2, <1>3, <2>1, AheadAdds
<1>8. RingFilled'
  <2> HIDE DEF k, n
  <2>1. k - n \in 0 .. Capacity /\ taken + n \in Nat
    BY <1>2, RingAssumption DEF Capacity
  <2> QED BY <1>1, <1>2, <1>3, <1>4, <1>5, <1>6, <1>7, <2>1 DEF RingFilled
<1>9. ReceiveType' /\ TailKnown' /\ ReceiveStops(d)' /\ GetInOrder'
  BY <1>1, <1>4 DEF ReceiveType, TailKnown, ReceiveStops, GetInOrder
<1> QED BY <1>8, <1>9

LEMMA RInvCheck ==
    ASSUME NEW d, ReceiveUnit(d), RInv(d), Check
    PROVE  RInv(d)'
<1> USE DEF RInv
<1>1. /\ pc = "check" /\ pc' \in {"drained", "get", "mismatch"}
      /\ UNCHANGED <<HEADPTR, TAILPTR, tailptr, buffer, stored, got>>
      /\ taken' = taken + Len(got)
  BY DEF Check, engineVars, driverVars
<1>2. taken' \in Nat /\ Returned' = Returned
  <2>1. taken \in Nat /\ got \in Seq(Nat)
    BY DEF ReceiveType
  <2>2. Len(got) \in Nat
    BY <2>1, LenProperties
  <2>3. taken' \in Nat /\ taken' + 0 = taken + Len(got)
    BY <1>1, <2>1, <2>2
  <2> QED BY <1>1, <2>3 DEF Returned
<1>3. ReceiveType'
  BY <1>1, <1>2 DEF ReceiveType
<1>4. RingFilled' /\ TailKnown' /\ ReceiveStops(d)' /\ GetInOrder'
  BY <1>1, <1>2 DEF RingFilled, TailKnown, ReceiveStops, GetInOrder
<1> QED BY <1>3, <1>4

LEMMA RInvFlush ==
    ASSUME NEW d, ReceiveUnit(d), RInv(d), Flush
    PROVE  RInv(d)'
<1> USE DEF RInv
<1>1. /\ pc = "drained" /\ pc' = pc /\ UNCHANGED <<HEADPTR, buffer, stored, got>>
      /\ TAILPTR' = HEADPTR /\ tailptr' = HEADPTR /\ taken' = stored
  BY DEF Flush, engineVars
<1>2. Returned' = stored /\ stored \in Nat /\ HEADPTR \in Cells /\ stored' - Returned' = 0
  BY <1>1 DEF ReceiveType, Returned, ReceiveStops, Stops
<1>3. RingFilled'
  BY <1>1, <1>2, AheadNothing, RingAssumption DEF RingFilled, Holds, Capacity
<1>4. ReceiveType' /\ TailKnown' /\ ReceiveStops(d)' /\ GetInOrder'
  BY <1>1 DEF ReceiveType, TailKnown, ReceiveStops, GetInOrder
<1> QED BY <1>3, <1>4

\* The steps that move no pointer and no byte.
LEMMA RInvQuiet ==
    ASSUME NEW d, RInv(d), Wake \/ Drop \/ UNCHANGED vars
    PROVE  RInv(d)'
<1>1. UNCHANGED <<HEADPTR, TAILPTR, tailptr, buffer, stored, taken, got>>
  BY DEF Wake, Drop, vars, driverVars, engineVars, taskVars
<1>2. pc' = pc \/ (pc = "drained" /\ pc' = "get")
  BY DEF Wake, Drop, vars, taskVars
<1>3. Returned' = Returned
  BY <1>1, <1>2 DEF Returned
<1> QED BY <1>1, <1>2, <1>3
    DEF RInv, ReceiveType, RingFilled, TailKnown, ReceiveStops, GetInOrder

\* The sizes of the receive ring, of its gets and of what the engine stores at a
\* time are multiples of one number above one.
RecvAligned ==
    \E d \in Nat :
        /\ d > 1 /\ Divides(d, BufferSize) /\ Divides(d, GetSize)
        /\ \A g \in Grains : Divides(d, g)

ReceiveInv == \E d \in Nat : ReceiveUnit(d) /\ RInv(d)

\* The invariant of the receive ring, whatever the engine drops and however its
\* stores fall between the task's get, commit and check.
THEOREM ReceiveInvariant ==
    ASSUME RecvAligned
    PROVE  Spec => []ReceiveInv
<1>1. Init => ReceiveInv
  BY RInvInit DEF RecvAligned, ReceiveUnit, ReceiveInv
<1>2. ReceiveInv /\ [Next]_vars => ReceiveInv'
  <2> SUFFICES ASSUME NEW d \in Nat, ReceiveUnit(d), RInv(d), [Next]_vars
               PROVE  RInv(d)'
    BY DEF ReceiveInv
  <2>1. ASSUME NEW g \in Grains, Store(g)
        PROVE  RInv(d)'
    BY <2>1, RInvStore
  <2>2. CASE Get
    BY <2>2, RInvGet
  <2>3. CASE Commit
    BY <2>3, RInvCommit
  <2>4. CASE Check
    BY <2>4, RInvCheck
  <2>5. CASE Flush
    BY <2>5, RInvFlush
  <2>6. CASE Wake \/ Drop \/ UNCHANGED vars
    BY <2>6, RInvQuiet
  <2> QED BY <2>1, <2>2, <2>3, <2>4, <2>5, <2>6 DEF Next
<1> QED BY <1>1, <1>2, PTL DEF Spec

\* The invariant by itself, without the stops.
LEMMA ReceiveShows ==
    ASSUME ReceiveInv
    PROVE  /\ ReceiveType /\ RingFilled /\ TailKnown
           /\ GetInOrder /\ CopiedCellsStay /\ RingHoldsUnread
<1> DEFINE k == stored - Returned
<1>1. ReceiveType /\ RingFilled /\ TailKnown /\ GetInOrder
  BY DEF ReceiveInv, RInv
<1>2. /\ k \in 0 .. Capacity /\ TAILPTR \in Cells /\ HEADPTR = Ahead(TAILPTR, k)
      /\ Holds(buffer, TAILPTR, k, Returned)
  BY <1>1 DEF RingFilled
<1>3. \A i \in 1 .. k : buffer[CellOf(TAILPTR, i)] = Returned + i
  <2> TAKE i \in 1 .. k
  <2>1. i \in 1 .. BufferSize
    BY <1>2, RingAssumption DEF Capacity
  <2> QED BY <1>2, <2>1, CellIs DEF Holds
<1>4. Level(HEADPTR, TAILPTR) = k
  BY <1>2, LevelIs
<1>5. RingHoldsUnread
  BY <1>3, <1>4 DEF RingHoldsUnread, Returned
<1>6. CopiedCellsStay
  <2> SUFFICES ASSUME pc = "commit", NEW i \in 1 .. Len(got)
               PROVE  buffer[CellOf(TAILPTR, i)] = got[i]
    BY DEF CopiedCellsStay
  <2>1. Len(got) <= k /\ Returned = taken /\ got \in Seq(Nat)
    BY <1>1 DEF TailKnown, Returned, ReceiveType
  <2>2. i \in 1 .. k
    BY <1>2, <2>1, LenProperties
  <2>3. got[i] = taken + i
    BY <1>1 DEF GetInOrder
  <2> QED BY <1>3, <2>1, <2>2, <2>3
<1> QED BY <1>1, <1>5, <1>6

\* The receive ring on its own: what get returns, what it copies while it copies,
\* and what the ring holds.
THEOREM ReceiveRing ==
    ASSUME RecvAligned
    PROVE  Spec => [](GetInOrder /\ CopiedCellsStay /\ RingHoldsUnread)
BY ReceiveInvariant, ReceiveShows, PTL

-------------------------------------------------------------------------------
(* The demo makes use of the two rings as their modules have them.           *)

LEMMA SendTasks ==
    SendTask => (Send!Put \/ Send!Commit \/ Send!Exit) /\ UNCHANGED vars
BY DEF SendTask

\* What a step of the demo is to the receive ring: one of its own steps, or none.
LEMMA DemoStepReceives == [DemoNext]_demoVars => [Next]_vars
<1> SUFFICES ASSUME [DemoNext]_demoVars
             PROVE  [Next]_vars
  OBVIOUS
<1>1. CASE UNCHANGED demoVars
  BY <1>1 DEF demoVars
<1>2. CASE Beat \/ RaiseLevel \/ RaiseOther \/ Handler \/ OtherTask \/ SendTask
  BY <1>2, SendTasks DEF Beat, RaiseLevel, RaiseOther, Handler, HandlerRead, HandlerWrite, OtherTask
<1>3. CASE \E n \in Grains : Burst(n)
  BY <1>3 DEF Burst, Next
<1>4. CASE Receiver
  BY <1>4 DEF Receiver, Take, Look, Drain, ClearLevel, Next
<1> QED BY <1>1, <1>2, <1>3, <1>4 DEF DemoNext, Engines

\* And to the transmit ring.
LEMMA DemoStepSends == [DemoNext]_demoVars => [Send!Next]_(Send!vars)
<1> SUFFICES ASSUME [DemoNext]_demoVars
             PROVE  Send!Next \/ UNCHANGED Send!vars
  OBVIOUS
<1>1. UNCHANGED sendVars => UNCHANGED Send!vars
  BY DEF sendVars, Send!vars, Send!driverVars, Send!taskVars, Send!dmaVars
<1>2. CASE UNCHANGED demoVars
  BY <1>1, <1>2 DEF demoVars
<1>3. CASE RaiseLevel \/ RaiseOther \/ Handler \/ OtherTask
  BY <1>1, <1>3 DEF RaiseLevel, RaiseOther, Handler, HandlerRead, HandlerWrite, OtherTask
<1>4. CASE \E n \in Grains : Burst(n)
  BY <1>1, <1>4 DEF Burst
<1>5. CASE Receiver
  BY <1>1, <1>5 DEF Receiver, Receives, Take, Look, Drain, ClearLevel
<1>6. CASE Beat \/ SendTask
  BY <1>6, SendTasks DEF Beat, Send!Next
<1> QED BY <1>2, <1>3, <1>4, <1>5, <1>6 DEF DemoNext, Engines

\* The demo implements the receive ring, and the transmit ring: what is shown of
\* either alone, whenever its steps come, holds in the demo.
THEOREM DemoHasReceiveRing == DemoSpec => Spec
<1>1. DemoInit => Init
  BY DEF DemoInit
<1> QED BY <1>1, DemoStepReceives, PTL DEF DemoSpec, Spec

THEOREM DemoHasTransmitRing == DemoSpec => Send!Spec
<1>1. DemoInit => Send!Init
  BY DEF DemoInit
<1> QED BY <1>1, DemoStepSends, PTL DEF DemoSpec, Send!Spec

\* The demo's check never fails: what get returns are the stored bytes in order
\* (main.c, s2mm_ringbuffer_task).
THEOREM DemoGetsInOrder ==
    ASSUME RecvAligned
    PROVE  DemoSpec => []GetInOrder
BY ReceiveRing, DemoHasReceiveRing, PTL

\* The engine leaves the cells get copies alone until the tail is committed.
THEOREM DemoCopiesStay ==
    ASSUME RecvAligned
    PROVE  DemoSpec => []CopiedCellsStay
BY ReceiveRing, DemoHasReceiveRing, PTL

\* The receive ring holds what is stored and not given back, in order.
THEOREM DemoHoldsUnread ==
    ASSUME RecvAligned
    PROVE  DemoSpec => []RingHoldsUnread
BY ReceiveRing, DemoHasReceiveRing, PTL

-------------------------------------------------------------------------------
(* The transmit ring, when its size and the chunks are multiples of one      *)
(* number and a tick finds room for its chunk.                               *)

\* Bytes put has taken and the DMA has not streamed.
Left == n_bytes - streamed

TransmitType ==
    /\ n_bytes \in Nat /\ pattern = n_bytes /\ streamed \in Nat
    /\ sender \in {"put", "commit", "exit"}

\* From the device's tail to the driver's head is what is left to stream.
TransmitFilled ==
    /\ SEND_TAIL \in Cells /\ Left \in 0 .. Capacity
    /\ send_head = Ahead(SEND_TAIL, Left)
    /\ Holds(send_buffer, SEND_TAIL, Left, streamed)

\* The register's head is the driver's, but for a chunk put and not committed.
HeadKnown ==
    IF sender = "commit" THEN Left - Chunk \in 0 .. Capacity /\ SEND_HEAD = Ahead(SEND_TAIL, Left - Chunk)
    ELSE SEND_HEAD = send_head

SInv(d) ==
    /\ TransmitType /\ TransmitFilled /\ HeadKnown
    /\ send_head \in Stops(d) /\ SEND_HEAD \in Stops(d)
    /\ Send!StreamInOrder

TransmitUnit(d) ==
    /\ d \in Nat /\ d > 1 /\ Divides(d, BufferSize) /\ Divides(d, Chunk)
    /\ Lag + Chunk <= Capacity

LEMMA SendOps ==
    /\ Send!Cells = Cells /\ Send!Capacity = Capacity
    /\ \A p : Send!Advance(p) = Advance(p)
    /\ \A p, n : /\ Send!Level(p, n) = Level(p, n) /\ Send!CellOf(p, n) = CellOf(p, n)
                 /\ Send!Copied(p, n) = Copied(p, n) /\ Send!Stepped(p, n) = Stepped(p, n)
BY DEF Send!Cells, Cells, Send!Capacity, Capacity, Send!Advance, Advance, Send!Level, Level,
       Send!CellOf, CellOf, Send!Copied, Copied, Send!Stepped, Stepped, Send!Unsigned, Unsigned

LEMMA SInvInit ==
    ASSUME NEW d, TransmitUnit(d), Send!Init
    PROVE  SInv(d)
<1>1. /\ send_head = 0 /\ SEND_HEAD = 0 /\ SEND_TAIL = 0 /\ n_bytes = 0 /\ pattern = 0
      /\ streamed = 0 /\ sender = "put" /\ Left = 0 /\ 0 \in Cells
  BY RingAssumption DEF Send!Init, Left, Cells, Capacity
<1>2. TransmitFilled
  BY <1>1, AheadNothing, RingAssumption DEF TransmitFilled, Holds, Capacity
<1>3. 0 \in Stops(d)
  BY <1>1, 0 = 0 * d DEF Stops, Divides, TransmitUnit
<1> QED BY <1>1, <1>2, <1>3 DEF SInv, TransmitType, HeadKnown, Send!StreamInOrder

\* A tick finds room for the whole chunk.
LEMMA RoomForChunk ==
    ASSUME NEW d, TransmitUnit(d), SInv(d), Send!Put
    PROVE  /\ Left <= Lag /\ Left + Chunk <= Capacity
           /\ Send!RoomFor(Chunk) = Chunk
<1>1. /\ Left \in 0 .. Capacity /\ SEND_TAIL \in Cells /\ send_head = Ahead(SEND_TAIL, Left)
  BY DEF SInv, TransmitFilled
<1>2. Level(send_head, SEND_TAIL) = Left
  BY <1>1, LevelIs
<1>3. Left <= Lag
  BY <1>2, SendOps DEF Send!Put
<1>4. Left + Chunk <= Capacity
  BY <1>1, <1>3, DemoAssumption, RingAssumption DEF TransmitUnit, Capacity
<1>5. Send!Free(SEND_TAIL) = BufferSize - Left
  <2>1. Send!Free(SEND_TAIL) = Unsigned(BufferSize - Left)
    BY <1>2, SendOps DEF Send!Free, Send!Unsigned, Unsigned
  <2> QED BY <1>1, <2>1, RingAssumption DEF Unsigned, Capacity
<1>6. Send!Free(SEND_TAIL) >= Chunk
  BY <1>1, <1>4, <1>5, RingAssumption, DemoAssumption DEF Capacity
<1> QED BY <1>3, <1>4, <1>6 DEF Send!RoomFor

LEMMA SInvPut ==
    ASSUME NEW d, TransmitUnit(d), SInv(d), Send!Put
    PROVE  SInv(d)'
<1> USE DEF SInv
<1>1. /\ Chunk \in 1 .. Capacity /\ Left \in 0 .. Capacity /\ Left + Chunk <= Capacity
      /\ Send!RoomFor(Chunk) = Chunk /\ Chunk # 0
  BY RoomForChunk, DemoAssumption DEF TransmitFilled
<1>2. /\ sender = "put" /\ sender' = "commit" /\ UNCHANGED <<SEND_HEAD, SEND_TAIL, streamed, beat>>
      /\ pattern' = pattern + Chunk /\ n_bytes' = n_bytes + Chunk
      /\ send_head' = Copied(send_head, Chunk)
      /\ send_buffer' = Written(send_buffer, send_head, Chunk, pattern)
  BY <1>1, SendOps DEF Send!Put, Send!dmaVars, Written
<1>3. n_bytes \in Nat /\ streamed \in Nat /\ pattern = n_bytes /\ Chunk \in Nat /\ Left \in Nat
  BY <1>1, RingAssumption DEF TransmitType, Capacity
<1>4. Left' = Left + Chunk /\ n_bytes = streamed + Left
  BY <1>2, <1>3 DEF Left
<1>5. send_head' = Ahead(send_head, Chunk) /\ send_head' \in Stops(d) /\ send_head \in Cells
  BY <1>1, <1>2, CopiedStops DEF TransmitUnit, Stops
<1> HIDE DEF Left
<1>6. send_head = Ahead(SEND_TAIL, Left) /\ SEND_TAIL \in Cells
  BY DEF TransmitFilled
<1>7. send_head' = Ahead(SEND_TAIL, Left + Chunk)
  <2>1. Left + Chunk <= BufferSize
    BY <1>1, RingAssumption DEF Capacity
  <2> QED BY <1>3, <1>5, <1>6, <2>1, AheadAdds
<1>8. Holds(send_buffer', SEND_TAIL, Left + Chunk, streamed)
  BY <1>1, <1>2, <1>3, <1>4, <1>6, HoldsMore DEF TransmitFilled
<1>9. TransmitFilled'
  <2>1. Left' \in 0 .. Capacity
    BY <1>1, <1>3, <1>4
  <2> QED BY <1>2, <1>4, <1>6, <1>7, <1>8, <2>1 DEF TransmitFilled
<1>10. HeadKnown'
  <2>1. Left' - Chunk = Left
    BY <1>3, <1>4
  <2> QED BY <1>1, <1>2, <1>6, <2>1 DEF HeadKnown
<1>11. TransmitType' /\ Send!StreamInOrder'
  BY <1>2, <1>3 DEF TransmitType, Send!StreamInOrder
<1> QED BY <1>2, <1>5, <1>9, <1>10, <1>11

LEMMA SInvCommit ==
    ASSUME NEW d, TransmitUnit(d), SInv(d), Send!Commit
    PROVE  SInv(d)'
<1> USE DEF SInv
<1>1. /\ sender' = "put" /\ SEND_HEAD' = send_head % Pointer
      /\ UNCHANGED <<send_head, pattern, n_bytes, SEND_TAIL, streamed, beat, send_buffer>>
  BY DEF Send!Commit, Send!dmaVars
<1>2. SEND_HEAD' = send_head
  <2>1. send_head \in Nat /\ send_head < Pointer
    BY RingAssumption, S2mmAssumption DEF Stops, Cells, Capacity
  <2> QED BY <1>1, <2>1, S2mmAssumption
<1>3. Left' = Left
  BY <1>1 DEF Left
<1> QED BY <1>1, <1>2, <1>3 DEF TransmitType, TransmitFilled, HeadKnown, Send!StreamInOrder

LEMMA SInvStream ==
    ASSUME NEW d, TransmitUnit(d), SInv(d), Send!Stream
    PROVE  SInv(d)'
<1> USE DEF SInv
<1>1. /\ SEND_TAIL # SEND_HEAD /\ SEND_TAIL' = Advance(SEND_TAIL)
      /\ streamed' = streamed + 1 /\ beat' = send_buffer[SEND_TAIL']
      /\ UNCHANGED <<send_head, SEND_HEAD, pattern, n_bytes, sender, send_buffer>>
  BY SendOps DEF Send!Stream, Send!driverVars, Send!taskVars
<1>2. /\ n_bytes \in Nat /\ streamed \in Nat /\ Left \in 0 .. Capacity /\ Left \in Nat
      /\ SEND_TAIL \in Cells /\ send_head = Ahead(SEND_TAIL, Left)
      /\ Holds(send_buffer, SEND_TAIL, Left, streamed)
      /\ Chunk \in Nat /\ Chunk >= 1 /\ Capacity < BufferSize /\ Capacity \in Nat /\ BufferSize \in Nat
  BY RingAssumption, DemoAssumption DEF TransmitType, TransmitFilled, Capacity
<1>3. Left' = Left - 1
  BY <1>1, <1>2 DEF Left
<1> HIDE DEF Left
<1>4. Left >= 1 /\ (sender = "commit" => Left - Chunk >= 1)
  BY <1>1, <1>2, AheadNothing DEF HeadKnown
<1>5. SEND_TAIL' = Ahead(SEND_TAIL, 1) /\ SEND_TAIL' \in Cells
  BY <1>1, <1>2, AdvanceIs, AheadType
<1>6. ASSUME NEW n \in Nat, n >= 1, n <= BufferSize
      PROVE  Ahead(SEND_TAIL, n) = Ahead(SEND_TAIL', n - 1)
  <2>1. n - 1 \in Nat /\ 1 + (n - 1) = n
    BY <1>6
  <2> QED BY <1>2, <1>5, <1>6, <2>1, AheadAdds
<1>7. Holds(send_buffer, SEND_TAIL', Left - 1, streamed + 1)
  <2>1. 1 \in 0 .. Left
    BY <1>2, <1>4
  <2> QED BY <1>2, <1>5, <2>1, HoldsLess
<1>8. TransmitFilled'
  <2>1. Left' \in 0 .. Capacity /\ send_head = Ahead(SEND_TAIL', Left')
    BY <1>2, <1>3, <1>4, <1>6
  <2> QED BY <1>1, <1>3, <1>5, <1>7, <2>1 DEF TransmitFilled
<1>9. HeadKnown'
  <2>1. CASE sender = "commit"
    <3>1. /\ Left - Chunk \in Nat /\ Left - Chunk >= 1 /\ Left - Chunk <= BufferSize
          /\ Left' - Chunk = (Left - Chunk) - 1 /\ Left' - Chunk \in 0 .. Capacity
      BY <1>2, <1>3, <1>4, <2>1
    <3>2. Ahead(SEND_TAIL, Left - Chunk) = Ahead(SEND_TAIL', (Left - Chunk) - 1)
      BY <1>6, <3>1
    <3> QED BY <1>1, <2>1, <3>1, <3>2 DEF HeadKnown
  <2>2. CASE sender # "commit"
    BY <1>1, <2>2 DEF HeadKnown
  <2> QED BY <2>1, <2>2
<1>10. beat' = streamed + 1
  <2>1. 1 \in 1 .. Left
    BY <1>2, <1>4
  <2> QED BY <1>1, <1>2, <1>5, <2>1 DEF Holds
<1>11. TransmitType' /\ Send!StreamInOrder'
  BY <1>1, <1>2, <1>10 DEF TransmitType, Send!StreamInOrder
<1> QED BY <1>1, <1>8, <1>9, <1>11

LEMMA SInvQuiet ==
    ASSUME NEW d, SInv(d), Send!Exit \/ UNCHANGED Send!vars
    PROVE  SInv(d)'
<1>1. UNCHANGED <<send_head, SEND_HEAD, SEND_TAIL, send_buffer, pattern, n_bytes, streamed, beat>>
  BY DEF Send!Exit, Send!vars, Send!driverVars, Send!taskVars, Send!dmaVars
<1>2. sender' = sender \/ (sender = "put" /\ sender' = "exit")
  BY DEF Send!Exit, Send!vars, Send!taskVars
<1>3. Left' = Left
  BY <1>1 DEF Left
<1> QED BY <1>1, <1>2, <1>3
    DEF SInv, TransmitType, TransmitFilled, HeadKnown, Send!StreamInOrder

\* The size of the transmit ring and of the chunks are multiples of one number
\* above one, and a chunk fits beside what a tick may find still to stream.
SendAligned ==
    /\ \E d \in Nat : d > 1 /\ Divides(d, BufferSize) /\ Divides(d, Chunk)
    /\ Lag + Chunk <= Capacity

TransmitInv == \E d \in Nat : TransmitUnit(d) /\ SInv(d)

\* The invariant of the transmit ring.
THEOREM TransmitInvariant ==
    ASSUME SendAligned
    PROVE  Send!Spec => []TransmitInv
<1>1. Send!Init => TransmitInv
  BY SInvInit DEF SendAligned, TransmitUnit, TransmitInv
<1>2. TransmitInv /\ [Send!Next]_(Send!vars) => TransmitInv'
  <2> SUFFICES ASSUME NEW d \in Nat, TransmitUnit(d), SInv(d), [Send!Next]_(Send!vars)
               PROVE  SInv(d)'
    BY DEF TransmitInv
  <2>1. CASE Send!Put
    BY <2>1, SInvPut
  <2>2. CASE Send!Commit
    BY <2>2, SInvCommit
  <2>3. CASE Send!Stream
    BY <2>3, SInvStream
  <2>4. CASE Send!Exit \/ UNCHANGED Send!vars
    BY <2>4, SInvQuiet
  <2> QED BY <2>1, <2>2, <2>3, <2>4 DEF Send!Next
<1> QED BY <1>1, <1>2, PTL DEF Send!Spec

LEMMA TransmitShows ==
    ASSUME TransmitInv
    PROVE  StreamInOrder /\ RingHoldsTheRest /\ PutIsPutDumb
<1>1. /\ Left \in 0 .. Capacity /\ SEND_TAIL \in Cells /\ send_head = Ahead(SEND_TAIL, Left)
      /\ Holds(send_buffer, SEND_TAIL, Left, streamed) /\ send_head \in Cells
      /\ Send!StreamInOrder
  BY DEF TransmitInv, SInv, TransmitFilled, Stops
<1>2. RingHoldsTheRest
  <2>1. Level(send_head, SEND_TAIL) = Left
    BY <1>1, LevelIs
  <2>2. ASSUME NEW i \in 1 .. Left
        PROVE  send_buffer[CellOf(SEND_TAIL, i)] = streamed + i
    <3>1. i \in 1 .. BufferSize
      BY <1>1, RingAssumption DEF Capacity
    <3> QED BY <1>1, <3>1, CellIs DEF Holds
  <2> QED BY <2>1, <2>2, SendOps DEF RingHoldsTheRest, Send!RingHoldsTheRest, Left
<1>3. PutIsPutDumb
  <2> SUFFICES ASSUME NEW n \in 1 .. Capacity
               PROVE  \/ Copied(send_head, n) = Stepped(send_head, n)
                      \/ Stepped(send_head, n) = Capacity /\ Copied(send_head, n) = Word - 1
    BY SendOps DEF PutIsPutDumb, Send!PutIsPutDumb, Send!CopyIsSteps
  <2>1. n \in 0 .. BufferSize
    BY RingAssumption DEF Capacity
  <2>2. Stepped(send_head, n) = Ahead(send_head, n)
    BY <1>1, <2>1, SteppedIs
  <2>3. Copied(send_head, n) = IF Ahead(send_head, n) = Capacity /\ send_head # Capacity
                               THEN Word - 1 ELSE Ahead(send_head, n)
    BY <1>1, CopiedIs
  <2> QED BY <2>2, <2>3
<1> QED BY <1>1, <1>2, <1>3 DEF StreamInOrder

\* The transmit ring on its own: what it streams, what it holds, and where put
\* leaves its head.
THEOREM TransmitRing ==
    ASSUME SendAligned
    PROVE  Send!Spec => [](StreamInOrder /\ RingHoldsTheRest /\ PutIsPutDumb)
BY TransmitInvariant, TransmitShows, PTL

\* The bytes come onto the stream in the order of the pattern, none missing or
\* repeated (the testbench's assertion in tb_top.sv).
THEOREM DemoStreamsInOrder ==
    ASSUME SendAligned
    PROVE  DemoSpec => []StreamInOrder
BY TransmitRing, DemoHasTransmitRing, PTL

\* What put has taken and the DMA has not streamed is in the transmit ring.
THEOREM DemoHoldsTheRest ==
    ASSUME SendAligned
    PROVE  DemoSpec => []RingHoldsTheRest
BY TransmitRing, DemoHasTransmitRing, PTL

\* The two memcpy of put leave the head that put_dumb leaves byte by byte.
THEOREM DemoPutIsPutDumb ==
    ASSUME SendAligned
    PROVE  DemoSpec => []PutIsPutDumb
BY TransmitRing, DemoHasTransmitRing, PTL

-------------------------------------------------------------------------------
(* The tail the transmit driver remembers.  _roomfor counts the buffer's     *)
(* size as room: only because chunks and what a tick may find never fill the *)
(* buffer exactly is a full ring not taken for an empty one.                 *)

ChunksNeverFill == \A k \in Nat, l \in 0 .. Lag : l + k * Chunk # BufferSize

\* By the remembered tail the ring holds some chunks and what a tick found.
TailRemembered ==
    /\ send_tail \in Cells /\ StaleTailIsSafe
    /\ \E k \in Nat, l \in 0 .. Lag : Level(send_head, send_tail) = l + k * Chunk

StaleInv(d) == SInv(d) /\ TailRemembered
StaleTail == \E d \in Nat : TransmitUnit(d) /\ StaleInv(d)

LEMMA LevelLeft ==
    ASSUME NEW d, SInv(d)
    PROVE  /\ Left \in 0 .. Capacity /\ send_head \in Cells
           /\ Send!Level(send_head, SEND_TAIL) = Left
           /\ Level(send_head, SEND_TAIL) = Left
<1>1. Left \in 0 .. Capacity /\ SEND_TAIL \in Cells /\ send_head = Ahead(SEND_TAIL, Left)
  BY DEF SInv, TransmitFilled
<1> QED BY <1>1, LevelIs, SendOps DEF SInv, Stops

LEMMA StalePut ==
    ASSUME NEW d, TransmitUnit(d), ChunksNeverFill, StaleInv(d), Send!Put
    PROVE  StaleInv(d)'
<1> DEFINE lev == Level(send_head, send_tail)
<1>1. SInv(d)'
  BY SInvPut DEF StaleInv
<1>2. /\ Left \in 0 .. Capacity /\ Left <= Lag /\ Left + Chunk <= Capacity
      /\ Send!RoomFor(Chunk) = Chunk /\ Chunk \in 1 .. Capacity /\ Lag \in Nat
      /\ Level(send_head, SEND_TAIL) = Left /\ send_head \in Cells
      /\ Capacity = BufferSize - 1 /\ BufferSize \in Nat
  BY RoomForChunk, LevelLeft, DemoAssumption, RingAssumption DEF StaleInv, Capacity
<1>3. /\ send_head' = Copied(send_head, Chunk) /\ UNCHANGED <<SEND_TAIL, streamed>>
      /\ n_bytes' = n_bytes + Chunk
      /\ send_tail' = IF Send!Free(send_tail) >= Chunk THEN send_tail ELSE SEND_TAIL
  BY <1>2, SendOps DEF Send!Put, Send!TailSeen, Send!dmaVars
<1>4. /\ send_head' = Ahead(send_head, Chunk) /\ send_tail' \in Cells
      /\ SEND_TAIL \in Cells /\ send_head = Ahead(SEND_TAIL, Left)
  BY <1>2, <1>3, CopiedStops DEF StaleInv, SInv, TransmitUnit, TailRemembered, TransmitFilled
<1>5. Left' = Left + Chunk /\ Left' \in 0 .. Capacity
  <2>1. n_bytes \in Nat /\ streamed \in Nat
    BY DEF StaleInv, SInv, TransmitType
  <2> QED BY <1>2, <1>3, <2>1 DEF Left
<1>6. Level(send_head', SEND_TAIL') = Left' /\ Send!Level(send_head', SEND_TAIL') = Left'
  <2>1. send_head' = Ahead(SEND_TAIL', Left') /\ SEND_TAIL' \in Cells
    BY <1>1 DEF SInv, TransmitFilled
  <2> QED BY <1>5, <2>1, LevelIs, SendOps
<1> HIDE DEF lev
<1>7. lev \in 0 .. Capacity /\ send_head = Ahead(send_tail, lev) /\ send_tail \in Cells /\ lev >= Left
  BY <1>2, LevelWay, LevelLeft, SendOps DEF lev, StaleInv, TailRemembered, StaleTailIsSafe, Send!StaleTailIsSafe
<1>8. PICK k \in Nat, l \in 0 .. Lag : lev = l + k * Chunk
  BY DEF StaleInv, TailRemembered, lev
<1>9. CASE Send!Free(send_tail) >= Chunk
  <2>1. lev + Chunk <= BufferSize
    <3>1. Send!Free(send_tail) = Unsigned(BufferSize - lev)
      BY SendOps DEF Send!Free, Send!Unsigned, Unsigned, lev
    <3>2. Send!Free(send_tail) = BufferSize - lev
      BY <1>2, <1>7, <3>1, RingAssumption DEF Unsigned
    <3> QED BY <1>2, <1>7, <1>9, <3>2
  <2>2. lev + Chunk = l + (k + 1) * Chunk /\ k + 1 \in Nat
    BY <1>2, <1>8
  <2>3. lev + Chunk # BufferSize
    BY <2>2 DEF ChunksNeverFill
  <2>4. lev + Chunk \in 0 .. Capacity /\ lev \in Nat /\ Chunk \in Nat /\ lev + Chunk <= BufferSize
    BY <1>2, <1>7, <2>1, <2>3
  <2>5. send_head' = Ahead(send_tail, lev + Chunk)
    BY <1>4, <1>7, <2>4, AheadAdds
  <2>6. Level(send_head', send_tail') = lev + Chunk
    BY <1>3, <1>7, <1>9, <2>4, <2>5, LevelIs
  <2>7. StaleTailIsSafe'
    <3>1. lev + Chunk >= Left'
      BY <1>2, <1>5, <1>7
    <3> QED BY <1>6, <2>6, <3>1, SendOps DEF StaleTailIsSafe, Send!StaleTailIsSafe
  <2> QED BY <1>1, <1>4, <2>2, <2>6, <2>7 DEF StaleInv, TailRemembered
<1>10. CASE ~ Send!Free(send_tail) >= Chunk
  <2>1. send_tail' = SEND_TAIL'
    BY <1>3, <1>10
  <2>2. StaleTailIsSafe'
    BY <1>5, <1>6, <2>1, RingAssumption DEF StaleTailIsSafe, Send!StaleTailIsSafe, Capacity
  <2>3. Level(send_head', send_tail') = Left + 1 * Chunk /\ Left \in 0 .. Lag
    BY <1>2, <1>5, <1>6, <2>1
  <2> QED BY <1>1, <1>4, <2>2, <2>3 DEF StaleInv, TailRemembered
<1> QED BY <1>9, <1>10

LEMMA StaleStep ==
    ASSUME NEW d, TransmitUnit(d), ChunksNeverFill, StaleInv(d), [Send!Next]_(Send!vars)
    PROVE  StaleInv(d)'
<1>1. CASE Send!Put
  BY <1>1, StalePut
<1>2. CASE Send!Commit \/ Send!Exit \/ Send!Stream \/ UNCHANGED Send!vars
  <2>1. SInv(d)'
    BY <1>2, SInvCommit, SInvStream, SInvQuiet DEF StaleInv
  <2>2. UNCHANGED <<send_head, send_tail>>
    BY <1>2 DEF Send!Commit, Send!Exit, Send!Stream, Send!vars, Send!driverVars
  <2>3. Left' <= Left /\ Left' \in 0 .. Capacity
    <3>1. UNCHANGED n_bytes /\ (streamed' = streamed \/ streamed' = streamed + 1)
      BY <1>2 DEF Send!Commit, Send!Exit, Send!Stream, Send!vars, Send!taskVars, Send!dmaVars
    <3>2. n_bytes \in Nat /\ streamed \in Nat
      BY DEF StaleInv, SInv, TransmitType
    <3>3. Left' \in 0 .. Capacity
      BY <2>1 DEF SInv, TransmitFilled
    <3> QED BY <3>1, <3>2, <3>3 DEF Left
  <2>4. Level(send_head', SEND_TAIL') = Left' /\ Level(send_head, SEND_TAIL) = Left
    <3>1. send_head' = Ahead(SEND_TAIL', Left') /\ SEND_TAIL' \in Cells
      BY <2>1 DEF SInv, TransmitFilled
    <3> QED BY <2>3, <3>1, LevelIs, LevelLeft DEF StaleInv
  <2>5. /\ Level(send_head, send_tail) >= Left /\ Level(send_head, send_tail) \in 0 .. Capacity
        /\ Left \in 0 .. Capacity
    BY <2>4, LevelLeft, LevelWay, SendOps DEF StaleInv, TailRemembered, StaleTailIsSafe, Send!StaleTailIsSafe
  <2>6. Level(send_head, send_tail) >= Left'
    <3> DEFINE lev == Level(send_head, send_tail)
    <3> HIDE DEF lev
    <3>1. lev >= Left /\ lev \in 0 .. Capacity /\ Left \in 0 .. Capacity
      BY <2>5 DEF lev
    <3>2. lev >= Left'
      BY <2>3, <3>1, RingAssumption DEF Capacity
    <3> QED BY <3>2 DEF lev
  <2>7. StaleTailIsSafe'
    BY <2>2, <2>4, <2>6, SendOps DEF StaleTailIsSafe, Send!StaleTailIsSafe
  <2> QED BY <2>1, <2>2, <2>7 DEF StaleInv, TailRemembered
<1> QED BY <1>1, <1>2 DEF Send!Next

\* The remembered tail errs towards a fuller ring.
THEOREM DemoStaleTailIsSafe ==
    ASSUME SendAligned, ChunksNeverFill
    PROVE  DemoSpec => []StaleTailIsSafe
<1>1. Send!Init => StaleTail
  <2> SUFFICES ASSUME Send!Init, NEW d \in Nat, TransmitUnit(d)
               PROVE  StaleInv(d)
    BY DEF SendAligned, TransmitUnit, StaleTail
  <2>1. SInv(d)
    BY SInvInit
  <2>2. send_head = 0 /\ send_tail = 0 /\ SEND_TAIL = 0 /\ 0 \in Cells
    BY RingAssumption DEF Send!Init, Cells, Capacity
  <2>3. Level(send_head, send_tail) = 0 /\ Send!Level(send_head, send_tail) = 0
    BY <2>2 DEF Level, Send!Level
  <2>4. 0 = 0 + 0 * Chunk /\ 0 \in 0 .. Lag
    BY DemoAssumption, RingAssumption DEF Capacity
  <2> QED BY <2>1, <2>2, <2>3, <2>4 DEF StaleInv, TailRemembered, StaleTailIsSafe, Send!StaleTailIsSafe
<1>2. StaleTail /\ [Send!Next]_(Send!vars) => StaleTail'
  BY StaleStep DEF StaleTail
<1>3. StaleTail => StaleTailIsSafe
  BY DEF StaleTail, StaleInv, TailRemembered
<1>4. Send!Spec => []StaleTailIsSafe
  BY <1>1, <1>2, <1>3, PTL DEF Send!Spec
<1> QED BY <1>4, DemoHasTransmitRing, PTL

-------------------------------------------------------------------------------
(* The wake-up of the receiver, which needs no premise on the sizes.         *)

LEMMA WakeStep == WakeUnderWay /\ [DemoNext]_demoVars => WakeUnderWay'
<1> SUFFICES ASSUME WakeUnderWay, [DemoNext]_demoVars
             PROVE  WakeUnderWay'
  OBVIOUS
<1> USE DEF WakeUnderWay
<1>1. CASE RaiseLevel
  BY <1>1 DEF RaiseLevel
<1>2. CASE RaiseOther
  BY <1>2 DEF RaiseOther
<1>3. CASE HandlerRead  \* what was pending has been written back
  BY <1>3 DEF HandlerRead, INTR_ENABLE
<1>4. CASE HandlerWrite
  BY <1>4 DEF HandlerWrite, Acknowledged, Given
<1>5. CASE Take
  BY <1>5 DEF Take, Receives
<1>6. CASE Look
  <2>1. LEVEL => task' = "drain"
    BY <1>6 DEF Look
  <2> QED BY <1>6, <2>1 DEF Look, Receives
<1>7. CASE Drain
  BY <1>7 DEF Drain, Receives
<1>8. CASE ClearLevel
  BY <1>8 DEF ClearLevel
<1>9. CASE OtherTask
  BY <1>9 DEF OtherTask
<1>10. CASE SendTask
  BY <1>10 DEF SendTask
<1>11. CASE Beat \/ (\E n \in Grains : Burst(n)) \/ UNCHANGED demoVars
  BY <1>11 DEF Beat, Burst, demoVars, intrVars
<1> QED BY <1>1, <1>2, <1>3, <1>4, <1>5, <1>6, <1>7, <1>8, <1>9, <1>10, <1>11
    DEF DemoNext, Engines, Handler, Receiver

\* No wake-up is lost: a level that is set is on its way to the receiver's next
\* look, past the handler that acknowledges and the receiver that clears.
THEOREM DemoWakes == DemoSpec => []WakeUnderWay
<1>1. DemoInit => WakeUnderWay
  BY DEF DemoInit, WakeUnderWay
<1> QED BY <1>1, WakeStep, PTL DEF DemoSpec

-------------------------------------------------------------------------------
(* The room for what is on its way, which takes both rings and the wake-up:  *)
(* the receiver has looked before the next chunk is put.                     *)

\* What the receive ring must hold before a get: a chunk, what a tick may find in
\* front of it, what the threshold leaves and what is short of the grain g.
Burden(g) == Lag + Chunk + (Threshold - 1) + (g - 1)

Roomy == \E g \in Grains : Burden(g) <= Capacity

\* The bytes on their way from put to the pattern check, and what each part of
\* the way holds.
OnTheWay(g) == n_bytes - Returned <= Burden(g)

LEMMA WayStep ==
    ASSUME ReceiveInv, ReceiveInv', TransmitInv, TransmitInv', WakeUnderWay,
           NEW g \in Grains, OnTheWay(g), [DemoNext]_demoVars
    PROVE  OnTheWay(g)'
<1>1. /\ n_bytes \in Nat /\ n_bytes' \in Nat /\ Returned \in Nat /\ Returned' \in Nat
      /\ streamed \in Nat /\ stored \in Nat /\ Burden(g) \in Int
  BY DemoAssumption, S2mmAssumption, RingAssumption
     DEF TransmitInv, SInv, TransmitType, ReceiveInv, RInv, ReceiveType, RingFilled, Burden, Capacity
<1>2. [Next]_vars
  BY DemoStepReceives
<1>3. Returned' >= Returned
  <2>1. /\ taken \in Nat /\ got \in Seq(Nat) /\ got' \in Seq(Nat)
        /\ pc \in {"get", "commit", "check", "drained", "mismatch"}
    BY DEF ReceiveInv, RInv, ReceiveType
  <2>2. Len(got) \in Nat /\ Len(got') \in Nat
    BY <2>1, LenProperties
  <2>3. CASE Check
    <3>1. /\ pc = "check" /\ pc' \in {"drained", "get", "mismatch"}
          /\ taken' = taken + Len(got)
      BY <2>3 DEF Check
    <3>2. Returned = taken + Len(got) /\ Returned' = taken' + 0
      BY <3>1 DEF Returned
    <3> QED BY <2>1, <2>2, <3>1, <3>2
  <2>4. CASE Commit
    BY <2>1, <2>2, <2>4 DEF Commit, Returned
  <2>5. CASE Flush
    <3>1. Returned' = stored /\ Returned <= stored
      BY <1>1, <2>5 DEF Flush, Returned, ReceiveInv, RInv, RingFilled
    <3> QED BY <1>1, <3>1
  <2>6. CASE Get \/ Wake \/ Drop \/ (\E n \in Grains : Store(n)) \/ UNCHANGED vars
    <3>1. taken' = taken /\ ((pc' = pc /\ got' = got) \/ (pc # "check" /\ pc' # "check"))
      BY <2>6 DEF Get, Wake, Drop, Store, vars, taskVars
    <3>2. Returned' = Returned
      BY <3>1 DEF Returned
    <3> QED BY <1>1, <3>2
  <2> QED BY <1>2, <2>3, <2>4, <2>5, <2>6 DEF Next
<1>4. CASE SendTask /\ Send!Put
  <2>1. /\ task = "blocked" /\ isr = "idle" /\ ~isr_sem /\ Settled
        /\ Send!Put /\ UNCHANGED vars
    BY <1>4 DEF SendTask, Send!Put, Send!Commit, Send!Exit
  <2>2. Level(HEADPTR, TAILPTR) < Threshold
    <3>1. Level(HEADPTR, TAILPTR) = stored - Returned /\ stored - Returned \in Int
      BY <1>1, ReceiveShows DEF RingHoldsUnread, Returned
    <3>2. ~ LEVEL
      BY <2>1 DEF WakeUnderWay, Settled
    <3>3. ~ AtThreshold
      BY <2>1, <3>2 DEF Settled
    <3> QED BY <3>1, <3>3, DemoAssumption DEF AtThreshold
  <2>3. stored - Returned <= Threshold - 1
    BY <1>1, <2>2, ReceiveShows, DemoAssumption DEF RingHoldsUnread, Returned
  <2>4. streamed - stored <= g - 1
    BY <1>1, <2>1, S2mmAssumption, RingAssumption DEF Settled, Capacity
  <2>5. n_bytes - streamed <= Lag /\ Send!RoomFor(Chunk) = Chunk
    BY <2>1, RoomForChunk DEF TransmitInv, Left
  <2>6. n_bytes' = n_bytes + Chunk /\ Returned' = Returned
    BY <2>1, <2>5 DEF Send!Put, Returned, vars, taskVars
  <2>7. Chunk \in Nat /\ Lag \in Nat /\ Threshold \in Nat /\ g \in Nat
    BY DemoAssumption, S2mmAssumption, RingAssumption DEF Capacity
  <2> QED BY <1>1, <2>3, <2>4, <2>5, <2>6, <2>7 DEF OnTheWay, Burden
<1>5. CASE ~ (SendTask /\ Send!Put)
  <2>1. n_bytes' = n_bytes
    <3>1. CASE SendTask
      BY <1>5, <3>1 DEF SendTask, Send!Commit, Send!Exit
    <3>2. CASE ~ SendTask /\ DemoNext
      BY <3>2 DEF DemoNext, Engines, Handler, Receiver, Beat, Send!Stream, Send!taskVars,
         Burst, RaiseLevel, RaiseOther, HandlerRead, HandlerWrite, Receives, Take, Look, Drain,
         ClearLevel, OtherTask, sendVars
    <3>3. CASE UNCHANGED demoVars
      BY <3>3 DEF demoVars, sendVars
    <3> QED BY <3>1, <3>2, <3>3
  <2> QED BY <1>1, <1>3, <2>1 DEF OnTheWay, Burden
<1> QED BY <1>4, <1>5

\* The demo drops nothing: the receive ring has room for every burst of what the
\* transmit ring streams.
THEOREM DemoDropsNothing ==
    ASSUME RecvAligned, SendAligned, Roomy
    PROVE  DemoSpec => []NothingDropped
<1>1. PICK g \in Grains : Burden(g) <= Capacity
  BY DEF Roomy
<1>2. DemoSpec => []ReceiveInv
  BY ReceiveInvariant, DemoHasReceiveRing, PTL
<1>3. DemoSpec => []TransmitInv
  BY TransmitInvariant, DemoHasTransmitRing, PTL
<1>4. DemoInit => OnTheWay(g)
  BY DemoAssumption, S2mmAssumption, RingAssumption
     DEF DemoInit, Init, Send!Init, OnTheWay, Burden, Returned, Capacity
<1>5. /\ ReceiveInv /\ ReceiveInv' /\ TransmitInv /\ TransmitInv' /\ WakeUnderWay
      /\ OnTheWay(g) /\ [DemoNext]_demoVars
      => OnTheWay(g)'
  BY WayStep
<1>6. ReceiveInv /\ TransmitInv /\ OnTheWay(g) => NothingDropped
  <2> SUFFICES ASSUME ReceiveInv, TransmitInv, OnTheWay(g), NEW n \in Grains, stored + n <= streamed
               PROVE  n <= Room
    BY DEF NothingDropped
  <2>1. Level(HEADPTR, TAILPTR) = stored - Returned
    BY ReceiveShows DEF RingHoldsUnread, Returned
  <2>2. streamed <= n_bytes /\ n_bytes \in Nat /\ streamed \in Nat /\ stored \in Nat /\ Returned \in Nat
    BY RingAssumption DEF TransmitInv, SInv, TransmitType, TransmitFilled, Left,
       ReceiveInv, RInv, ReceiveType, RingFilled, Capacity
  <2>3. n_bytes - Returned <= Capacity /\ Capacity \in Nat /\ n \in Nat
    BY <1>1, <2>2, DemoAssumption, S2mmAssumption, RingAssumption DEF OnTheWay, Burden, Capacity
  <2> QED BY <2>1, <2>2, <2>3 DEF Room
<1> QED BY <1>2, <1>3, <1>4, <1>5, <1>6, DemoWakes, PTL DEF DemoSpec
===============================================================================
