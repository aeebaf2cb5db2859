------------------------------ MODULE QueueLemmas ------------------------------
(***************************************************************************)
(* Lemmas about numbers and queues.  First, the principle of induction.    *)
(* Then how often an element occurs in a queue: the empty one, one with an *)
(* element added at its end, one without its head.  Then queues that say   *)
(* the same in two places: a list of the entries of one kind, and the FIFO *)
(* of all of them, and what a clock that reads and writes the FIFO makes   *)
(* of the list.                                                            *)
(***************************************************************************)
EXTENDS Sfifo, SeqCount, Integers, FiniteSetTheorems, SequenceTheorems,
        WellFoundedInduction, TLAPS

\* A set of numbers that holds zero and with each number the next holds all: the
\* principle of induction, for a set.
LEMMA Induction ==
    ASSUME NEW S, 0 \in S, \A n \in Nat : n \in S => n + 1 \in S
    PROVE  Nat \subseteq S
<1> DEFINE R == OpToRel(<, Nat)
           T == Nat \ S
<1>1. IsWellFoundedOn(R, Nat)
  BY NatLessThanWellFounded
<1>2. \A x, y \in Nat : <<y, x>> \in R <=> y < x
  BY DEF OpToRel
<1> HIDE DEF R
<1> SUFFICES ASSUME T # {}
             PROVE  FALSE
  OBVIOUS
<1>3. T \subseteq Nat
  OBVIOUS
<1> HIDE DEF T
<1>4. PICK x \in T : \A y \in T : <<y, x>> \notin R
  BY <1>1, <1>3, WFMin
<1>5. x \in Nat /\ x \notin S /\ x # 0
  BY <1>3 DEF T
<1>6. x - 1 \in Nat /\ x - 1 < x /\ x = (x - 1) + 1
  BY <1>5
<1>7. x - 1 \in S
  BY <1>2, <1>4, <1>5, <1>6 DEF T
<1> QED BY <1>5, <1>6, <1>7

\* A sequence has as many indices as it is long.
LEMMA IndicesFinite ==
    ASSUME NEW S, NEW s \in Seq(S)
    PROVE  IsFiniteSet(1 .. Len(s)) /\ Cardinality(1 .. Len(s)) = Len(s)
<1>1. Len(s) \in Nat
  OBVIOUS
<1> QED BY <1>1, FS_Interval

\* The indices of an element are a finite set, of at most Len(s) elements.
LEMMA OccurrencesType ==
    ASSUME NEW S, NEW s \in Seq(S), NEW x
    PROVE  /\ IsFiniteSet({k \in 1 .. Len(s) : s[k] = x})
           /\ Occurrences(s, x) \in Nat
           /\ Occurrences(s, x) <= Len(s)
<1>1. IsFiniteSet(1 .. Len(s)) /\ Cardinality(1 .. Len(s)) = Len(s)
  BY IndicesFinite
<1>2. {k \in 1 .. Len(s) : s[k] = x} \subseteq 1 .. Len(s)
  OBVIOUS
<1>3. /\ IsFiniteSet({k \in 1 .. Len(s) : s[k] = x})
      /\ Cardinality({k \in 1 .. Len(s) : s[k] = x}) <= Cardinality(1 .. Len(s))
  BY <1>1, <1>2, FS_Subset
<1>4. Cardinality({k \in 1 .. Len(s) : s[k] = x}) \in Nat
  BY <1>3, FS_CardinalityType
<1> QED BY <1>1, <1>3, <1>4 DEF Occurrences

\* Nothing occurs in the empty sequence.
LEMMA OccurrencesEmpty ==
    ASSUME NEW x
    PROVE  Occurrences(<<>>, x) = 0
<1>1. {k \in 1 .. Len(<<>>) : <<>>[k] = x} = {}
  OBVIOUS
<1> QED BY <1>1, FS_EmptySet DEF Occurrences

\* An element added at the end counts for itself only.
LEMMA OccurrencesAppend ==
    ASSUME NEW S, NEW s \in Seq(S), NEW y \in S, NEW x
    PROVE  Occurrences(s \o <<y>>, x) = Occurrences(s, x) + (IF y = x THEN 1 ELSE 0)
<1> DEFINE I == {k \in 1 .. Len(s) : s[k] = x}
           J == {k \in 1 .. Len(s \o <<y>>) : (s \o <<y>>)[k] = x}
<1>0. Occurrences(s, x) = Cardinality(I) /\ Occurrences(s \o <<y>>, x) = Cardinality(J)
  BY DEF Occurrences
<1>1. IsFiniteSet(I) /\ Cardinality(I) \in Nat
  BY OccurrencesType DEF Occurrences
<1>2. CASE y = x
  <2>1. J = I \cup {Len(s) + 1} /\ Len(s) + 1 \notin I
    BY <1>2
  <2> HIDE DEF I, J
  <2>2. Cardinality(J) = Cardinality(I) + 1
    BY <1>1, <2>1, FS_AddElement
  <2> QED BY <1>0, <1>2, <2>2
<1>3. CASE y # x
  <2>1. J = I
    BY <1>3
  <2> HIDE DEF I, J
  <2> QED BY <1>0, <1>1, <1>3, <2>1
<1> QED BY <1>2, <1>3

\* The head counts for itself only: the tail has the other occurrences.
LEMMA OccurrencesTail ==
    ASSUME NEW S, NEW s \in Seq(S), s # <<>>, NEW x
    PROVE  Occurrences(s, x) = Occurrences(Tail(s), x) + (IF Head(s) = x THEN 1 ELSE 0)
<1> DEFINE I == {k \in 1 .. Len(s) : s[k] = x}
           I1 == I \ {1}
           J == {k \in 1 .. Len(Tail(s)) : Tail(s)[k] = x}
           f == [k \in J |-> k + 1]
<1>0. Occurrences(s, x) = Cardinality(I) /\ Occurrences(Tail(s), x) = Cardinality(J)
  BY DEF Occurrences
<1>1. IsFiniteSet(I) /\ Cardinality(I) \in Nat
  BY OccurrencesType DEF Occurrences
<1>2. Tail(s) \in Seq(S) /\ Len(Tail(s)) = Len(s) - 1
  OBVIOUS
<1>3. \A k \in 1 .. Len(Tail(s)) : Tail(s)[k] = s[k + 1]
  OBVIOUS
<1>4. IsFiniteSet(J) /\ Cardinality(J) \in Nat
  BY <1>2, OccurrencesType DEF Occurrences
<1>5. f \in Bijection(J, I1)
  <2>1. f \in [J -> I1]
    BY <1>2, <1>3
  <2>2. \A a, b \in J : f[a] = f[b] => a = b
    BY <1>2
  <2>3. ASSUME NEW b \in I1
        PROVE  \E a \in J : f[a] = b
    <3>1. b - 1 \in 1 .. Len(Tail(s)) /\ Tail(s)[b - 1] = s[b]
      BY <1>2, <1>3
    <3>2. b - 1 \in J /\ f[b - 1] = b
      BY <3>1
    <3> QED BY <3>2
  <2> QED BY <2>1, <2>2, <2>3 DEF Bijection, Injection, Surjection, IsInjective
<1>6. IsFiniteSet(I1) /\ Cardinality(I1) = Cardinality(J)
  BY <1>4, <1>5, FS_Bijection DEF ExistsBijection
<1>7. Cardinality(I1) = IF 1 \in I THEN Cardinality(I) - 1 ELSE Cardinality(I)
  BY <1>1, FS_RemoveElement
<1>8. 1 \in I <=> Head(s) = x
  OBVIOUS
<1> HIDE DEF I, J, I1
<1> QED BY <1>0, <1>1, <1>4, <1>6, <1>7, <1>8

\* If x occurs as often as the sequence is long, it is everywhere.
LEMMA OccurrencesAll ==
    ASSUME NEW S, NEW s \in Seq(S), NEW x, Occurrences(s, x) = Len(s)
    PROVE  \A k \in 1 .. Len(s) : s[k] = x
<1> DEFINE I == {k \in 1 .. Len(s) : s[k] = x}
<1>1. IsFiniteSet(1 .. Len(s)) /\ Cardinality(1 .. Len(s)) = Len(s)
  BY IndicesFinite
<1>2. I \subseteq 1 .. Len(s)
  OBVIOUS
<1>3. I = 1 .. Len(s)
  BY <1>1, <1>2, FS_Subset DEF Occurrences
<1> QED BY <1>3
-------------------------------------------------------------------------------
\* s holds the ids of the entries of q whose field f is b, in their order: g tells
\* where each is.
Lists(s, q, f, b) ==
    \E g \in [1 .. Len(s) -> 1 .. Len(q)] :
        /\ \A k \in 1 .. Len(s) : q[g[k]][f] = b /\ s[k] = q[g[k]].aid
        /\ \A k, l \in 1 .. Len(s) : k < l => g[k] < g[l]
        /\ \A i \in 1 .. Len(q) : q[i][f] = b => \E k \in 1 .. Len(s) : g[k] = i

\* How many entries a handshake moves.
Moved(c) == IF c THEN 1 ELSE 0

\* A FIFO after a clock that reads it, writes x into it, both or neither, with room.
Clocked(q, rd, wr, x) == Popped(q, rd) \o When(wr, x)

\* An empty FIFO has nothing to list.
LEMMA ListsNothing == ASSUME NEW f, NEW b PROVE Lists(<<>>, <<>>, f, b)
<1> DEFINE g == [k \in 1 .. Len(<<>>) |-> k]
<1>1. Len(<<>>) = 0
  OBVIOUS
<1>2. g \in [1 .. Len(<<>>) -> 1 .. Len(<<>>)]
  OBVIOUS
<1>3. \A k \in 1 .. Len(<<>>) : FALSE
  BY <1>1
<1> QED BY <1>2, <1>3 DEF Lists

\* The oldest entry whose field f is b is the oldest id listed.
LEMMA ListsHead ==
    ASSUME NEW E, NEW A, \A e \in E : e.aid \in A,
           NEW q \in Seq(E), NEW s \in Seq(A), NEW f, NEW b, Lists(s, q, f, b),
           q # <<>>, Head(q)[f] = b
    PROVE  s # <<>> /\ Head(s) = Head(q).aid
<1>1. PICK g \in [1 .. Len(s) -> 1 .. Len(q)] :
        /\ \A k \in 1 .. Len(s) : q[g[k]][f] = b /\ s[k] = q[g[k]].aid
        /\ \A k, l \in 1 .. Len(s) : k < l => g[k] < g[l]
        /\ \A i \in 1 .. Len(q) : q[i][f] = b => \E k \in 1 .. Len(s) : g[k] = i
  BY DEF Lists
<1>2. Len(q) \in Nat /\ 1 \in 1 .. Len(q) /\ Head(q) = q[1] /\ Len(s) \in Nat
  OBVIOUS
<1>3. PICK k \in 1 .. Len(s) : g[k] = 1
  BY <1>1, <1>2
<1>4. 1 \in 1 .. Len(s) /\ g[1] \in 1 .. Len(q)
  BY <1>2, <1>3
<1>5. ~ (1 < k)
  BY <1>1, <1>2, <1>3, <1>4
<1>6. k = 1
  BY <1>2, <1>3, <1>5
<1>7. s # <<>> /\ Head(s) = s[1]
  BY <1>2, <1>4
<1> QED BY <1>1, <1>2, <1>3, <1>4, <1>6, <1>7

\* A read of the FIFO takes the oldest id off the list, if it is one of the list.
LEMMA ListsTail ==
    ASSUME NEW E, NEW A, \A e \in E : e.aid \in A,
           NEW q \in Seq(E), NEW s \in Seq(A), NEW f, NEW b, Lists(s, q, f, b), q # <<>>
    PROVE  Lists(Popped(s, Head(q)[f] = b), Tail(q), f, b)
<1>1. PICK g \in [1 .. Len(s) -> 1 .. Len(q)] :
        /\ \A k \in 1 .. Len(s) : q[g[k]][f] = b /\ s[k] = q[g[k]].aid
        /\ \A k, l \in 1 .. Len(s) : k < l => g[k] < g[l]
        /\ \A i \in 1 .. Len(q) : q[i][f] = b => \E k \in 1 .. Len(s) : g[k] = i
  BY DEF Lists
<1>2. /\ Len(q) \in Nat \ {0} /\ Head(q) = q[1] /\ Len(s) \in Nat
      /\ Len(Tail(q)) = Len(q) - 1
      /\ \A i \in 1 .. Len(q) - 1 : Tail(q)[i] = q[i + 1]
  OBVIOUS
<1>3. \A k \in 1 .. Len(s) : g[k] \in 1 .. Len(q)
  BY <1>1
<1>4. CASE Head(q)[f] = b
  <2>1. s # <<>> /\ Popped(s, Head(q)[f] = b) = Tail(s)
    BY <1>4, ListsHead DEF Popped
  <2>2. /\ Len(s) \in Nat \ {0} /\ Len(Tail(s)) = Len(s) - 1
        /\ \A k \in 1 .. Len(s) - 1 : Tail(s)[k] = s[k + 1]
    BY <2>1
  <2> DEFINE h == [k \in 1 .. Len(s) - 1 |-> g[k + 1] - 1]
  <2>3. ASSUME NEW k \in 1 .. Len(s) - 1
        PROVE  k + 1 \in 1 .. Len(s) /\ h[k] \in 1 .. Len(q) - 1 /\ h[k] = g[k + 1] - 1
    <3>1. k + 1 \in 1 .. Len(s) /\ 1 \in 1 .. Len(s) /\ 1 < k + 1
      BY <2>2
    <3>2. g[1] < g[k + 1]
      BY <1>1, <3>1
    <3> QED BY <1>2, <1>3, <3>1, <3>2
  <2>4. h \in [1 .. Len(Tail(s)) -> 1 .. Len(Tail(q))]
    BY <1>2, <2>2, <2>3
  <2>5. \A k \in 1 .. Len(Tail(s)) :
          Tail(q)[h[k]][f] = b /\ Tail(s)[k] = Tail(q)[h[k]].aid
    <3> TAKE k \in 1 .. Len(Tail(s))
    <3>1. k \in 1 .. Len(s) - 1
      BY <2>2
    <3>2. h[k] + 1 = g[k + 1] /\ k + 1 \in 1 .. Len(s)
      BY <1>3, <2>3, <3>1
    <3>3. Tail(q)[h[k]] = q[g[k + 1]] /\ Tail(s)[k] = s[k + 1]
      BY <1>2, <2>2, <2>3, <3>1, <3>2
    <3> QED BY <1>1, <3>2, <3>3
  <2>6. \A k, l \in 1 .. Len(Tail(s)) : k < l => h[k] < h[l]
    <3> SUFFICES ASSUME NEW k \in 1 .. Len(s) - 1, NEW l \in 1 .. Len(s) - 1, k < l
                 PROVE  h[k] < h[l]
      BY <2>2
    <3>1. k + 1 < l + 1
      OBVIOUS
    <3>2. g[k + 1] < g[l + 1]
      BY <1>1, <2>3, <3>1
    <3> QED BY <1>2, <1>3, <2>3, <3>2
  <2>7. \A i \in 1 .. Len(Tail(q)) :
          Tail(q)[i][f] = b => \E k \in 1 .. Len(Tail(s)) : h[k] = i
    <3> SUFFICES ASSUME NEW i \in 1 .. Len(q) - 1, Tail(q)[i][f] = b
                 PROVE  \E k \in 1 .. Len(s) - 1 : h[k] = i
      BY <1>2, <2>2
    <3>1. i + 1 \in 1 .. Len(q) /\ q[i + 1][f] = b
      BY <1>2
    <3>2. PICK l \in 1 .. Len(s) : g[l] = i + 1
      BY <1>1, <3>1
    <3>3. PICK m \in 1 .. Len(s) : g[m] = 1
      BY <1>1, <1>2, <1>4
    <3>4. ~ (l < m)
      BY <1>1, <3>2, <3>3
    <3>5. l # m
      BY <3>2, <3>3
    <3>6. l - 1 \in 1 .. Len(s) - 1 /\ (l - 1) + 1 = l
      BY <2>2, <3>4, <3>5
    <3>7. h[l - 1] = g[l] - 1
      BY <2>3, <3>6
    <3>8. h[l - 1] = i
      BY <3>2, <3>7
    <3> HIDE DEF h
    <3> QED BY <3>6, <3>8
  <2> HIDE DEF h
  <2>8. Lists(Tail(s), Tail(q), f, b)
    BY <2>4, <2>5, <2>6, <2>7 DEF Lists
  <2> QED BY <2>1, <2>8
<1>5. CASE Head(q)[f] # b
  <2>1. Popped(s, Head(q)[f] = b) = s
    BY <1>5 DEF Popped
  <2> DEFINE h == [k \in 1 .. Len(s) |-> g[k] - 1]
  <2>2. ASSUME NEW k \in 1 .. Len(s)
        PROVE  h[k] \in 1 .. Len(q) - 1 /\ h[k] + 1 = g[k]
    <3>1. g[k] # 1
      BY <1>1, <1>2, <1>5
    <3> QED BY <1>2, <1>3, <3>1
  <2>3. h \in [1 .. Len(s) -> 1 .. Len(Tail(q))]
    BY <1>2, <2>2
  <2>4. \A k \in 1 .. Len(s) : Tail(q)[h[k]][f] = b /\ s[k] = Tail(q)[h[k]].aid
    <3> TAKE k \in 1 .. Len(s)
    <3>1. Tail(q)[h[k]] = q[g[k]]
      BY <1>2, <2>2
    <3> QED BY <1>1, <3>1
  <2>5. \A k, l \in 1 .. Len(s) : k < l => h[k] < h[l]
    <3> SUFFICES ASSUME NEW k \in 1 .. Len(s), NEW l \in 1 .. Len(s), k < l
                 PROVE  h[k] < h[l]
      OBVIOUS
    <3>1. g[k] < g[l]
      BY <1>1
    <3> QED BY <1>2, <1>3, <2>2, <3>1
  <2>6. \A i \in 1 .. Len(Tail(q)) :
          Tail(q)[i][f] = b => \E k \in 1 .. Len(s) : h[k] = i
    <3> SUFFICES ASSUME NEW i \in 1 .. Len(q) - 1, Tail(q)[i][f] = b
                 PROVE  \E k \in 1 .. Len(s) : h[k] = i
      BY <1>2
    <3>1. i + 1 \in 1 .. Len(q) /\ q[i + 1][f] = b
      BY <1>2
    <3>2. PICK l \in 1 .. Len(s) : g[l] = i + 1
      BY <1>1, <3>1
    <3>3. h[l] = g[l] - 1
      OBVIOUS
    <3> QED BY <3>2, <3>3
  <2> HIDE DEF h
  <2>7. Lists(s, Tail(q), f, b)
    BY <2>3, <2>4, <2>5, <2>6 DEF Lists
  <2> QED BY <2>1, <2>7
<1> QED BY <1>4, <1>5

\* A write into the FIFO is listed last, if it is one of the list.
LEMMA ListsAppend ==
    ASSUME NEW E, NEW A, \A e \in E : e.aid \in A,
           NEW q \in Seq(E), NEW s \in Seq(A), NEW f, NEW b, NEW x \in E, Lists(s, q, f, b)
    PROVE  Lists(s \o When(x[f] = b, x.aid), q \o <<x>>, f, b)
<1>1. PICK g \in [1 .. Len(s) -> 1 .. Len(q)] :
        /\ \A k \in 1 .. Len(s) : q[g[k]][f] = b /\ s[k] = q[g[k]].aid
        /\ \A k, l \in 1 .. Len(s) : k < l => g[k] < g[l]
        /\ \A i \in 1 .. Len(q) : q[i][f] = b => \E k \in 1 .. Len(s) : g[k] = i
  BY DEF Lists
<1>2. x.aid \in A /\ Len(s) \in Nat /\ Len(q) \in Nat
  OBVIOUS
<1> DEFINE n == Len(q) + 1
           p == q \o <<x>>
<1>3. /\ Len(p) = n /\ p[n] = x
      /\ \A i \in 1 .. Len(q) : p[i] = q[i]
  OBVIOUS
<1>4. \A k \in 1 .. Len(s) : g[k] \in 1 .. Len(q)
  BY <1>1
<1>5. CASE x[f] = b
  <2> DEFINE t == s \o <<x.aid>>
             h == [k \in 1 .. Len(s) + 1 |-> IF k = Len(s) + 1 THEN n ELSE g[k]]
  <2>1. s \o When(x[f] = b, x.aid) = t
    BY <1>5 DEF When
  <2>2. /\ Len(t) = Len(s) + 1 /\ t[Len(s) + 1] = x.aid
        /\ \A k \in 1 .. Len(s) : t[k] = s[k]
    BY <1>2
  <2>3. /\ h[Len(s) + 1] = n
        /\ \A k \in 1 .. Len(s) : h[k] = g[k]
    BY <1>2
  <2>4. h \in [1 .. Len(t) -> 1 .. Len(p)]
    BY <1>2, <1>3, <1>4, <2>2
  <2> HIDE DEF h, t, p
  <2>5. \A k \in 1 .. Len(t) : p[h[k]][f] = b /\ t[k] = p[h[k]].aid
    <3> TAKE k \in 1 .. Len(t)
    <3>1. CASE k = Len(s) + 1
      BY <1>3, <1>5, <2>2, <2>3, <3>1
    <3>2. CASE k \in 1 .. Len(s)
      BY <1>1, <1>3, <1>4, <2>2, <2>3, <3>2
    <3> QED BY <1>2, <2>2, <3>1, <3>2
  <2>6. \A k, l \in 1 .. Len(t) : k < l => h[k] < h[l]
    <3> SUFFICES ASSUME NEW k \in 1 .. Len(s) + 1, NEW l \in 1 .. Len(s) + 1, k < l
                 PROVE  h[k] < h[l]
      BY <2>2
    <3>1. k \in 1 .. Len(s) /\ h[k] = g[k] /\ g[k] \in 1 .. Len(q)
      BY <1>2, <1>4, <2>3
    <3>2. CASE l = Len(s) + 1
      BY <1>2, <2>3, <3>1, <3>2
    <3>3. CASE l \in 1 .. Len(s)
      BY <1>1, <2>3, <3>1, <3>3
    <3>4. Len(s) \in Nat
      OBVIOUS
    <3>5. l = Len(s) + 1 \/ l \in 1 .. Len(s)
      BY <3>4
    <3> QED BY <3>2, <3>3, <3>5
  <2>7. \A i \in 1 .. Len(p) : p[i][f] = b => \E k \in 1 .. Len(t) : h[k] = i
    <3> SUFFICES ASSUME NEW i \in 1 .. n, p[i][f] = b
                 PROVE  \E k \in 1 .. Len(s) + 1 : h[k] = i
      BY <1>3, <2>2
    <3>1. CASE i = n
      BY <1>2, <2>3, <3>1
    <3>2. CASE i \in 1 .. Len(q)
      <4>1. PICK k \in 1 .. Len(s) : g[k] = i
        BY <1>1, <1>3, <3>2
      <4>2. k \in 1 .. Len(s) + 1 /\ h[k] = i
        BY <1>2, <2>3, <4>1
      <4> QED BY <4>2
    <3> QED BY <1>2, <3>1, <3>2
  <2>8. Lists(t, p, f, b)
    BY <2>4, <2>5, <2>6, <2>7 DEF Lists
  <2> QED BY <2>1, <2>8 DEF p
<1>6. CASE x[f] # b
  <2>1. s \o When(x[f] = b, x.aid) = s
    BY <1>6 DEF When
  <2>2. g \in [1 .. Len(s) -> 1 .. Len(p)]
    BY <1>2, <1>3, <1>4
  <2> HIDE DEF p
  <2>3. \A k \in 1 .. Len(s) : p[g[k]][f] = b /\ s[k] = p[g[k]].aid
    BY <1>1, <1>3, <1>4
  <2>4. \A i \in 1 .. Len(p) : p[i][f] = b => \E k \in 1 .. Len(s) : g[k] = i
    <3> SUFFICES ASSUME NEW i \in 1 .. n, p[i][f] = b
                 PROVE  \E k \in 1 .. Len(s) : g[k] = i
      BY <1>3
    <3>1. i # n
      BY <1>3, <1>6
    <3>2. i \in 1 .. Len(q)
      BY <1>2, <3>1
    <3> QED BY <1>1, <1>3, <3>2
  <2>5. Lists(s, p, f, b)
    BY <1>1, <2>2, <2>3, <2>4 DEF Lists
  <2> QED BY <2>1, <2>5 DEF p
<1> QED BY <1>5, <1>6

\* A read of a FIFO and a write into it, of elements of S.
LEMMA ClockType ==
    ASSUME NEW S, NEW q \in Seq(S), NEW rd \in BOOLEAN, NEW wr \in BOOLEAN, NEW x,
           rd => q # <<>>, wr => x \in S
    PROVE  /\ Clocked(q, rd, wr, x) \in Seq(S)
           /\ Len(Clocked(q, rd, wr, x)) = Len(q) - Moved(rd) + Moved(wr)
<1>1. /\ Popped(q, rd) \in Seq(S)
      /\ Len(Popped(q, rd)) = Len(q) - Moved(rd)
  <2>1. CASE rd
    BY <2>1, HeadTailProperties DEF Popped, Moved
  <2>2. CASE ~rd
    BY <2>2 DEF Popped, Moved
  <2> QED BY <2>1, <2>2
<1>2. When(wr, x) \in Seq(S) /\ Len(When(wr, x)) = Moved(wr)
  <2>1. CASE wr
    BY <2>1 DEF When, Moved
  <2>2. CASE ~wr
    BY <2>2 DEF When, Moved
  <2> QED BY <2>1, <2>2
<1>3. /\ Popped(q, rd) \o When(wr, x) \in Seq(S)
      /\ Len(Popped(q, rd) \o When(wr, x)) = Len(Popped(q, rd)) + Len(When(wr, x))
  BY <1>1, <1>2, ConcatProperties
<1>4. /\ Len(q) \in Nat /\ Moved(rd) \in Nat /\ Moved(wr) \in Nat
  BY DEF Moved
<1> QED BY <1>1, <1>2, <1>3, <1>4 DEF Clocked

\* A list keeps step with its FIFO over a clock that reads the FIFO, writes it, both
\* or neither.
LEMMA ListsClock ==
    ASSUME NEW E, NEW A, \A e \in E : e.aid \in A,
           NEW q \in Seq(E), NEW s \in Seq(A), NEW f, NEW b, Lists(s, q, f, b),
           NEW rd \in BOOLEAN, NEW wr \in BOOLEAN, NEW x,
           rd => q # <<>>, wr => x \in E
    PROVE  /\ rd /\ Head(q)[f] = b => s # <<>> /\ Head(s) = Head(q).aid
           /\ Lists(Clocked(s, rd /\ Head(q)[f] = b, wr /\ x[f] = b, x.aid),
                    Clocked(q, rd, wr, x), f, b)
<1> DEFINE s1 == Popped(s, rd /\ Head(q)[f] = b)
           q1 == Popped(q, rd)
<1>1. rd /\ Head(q)[f] = b => s # <<>> /\ Head(s) = Head(q).aid
  BY ListsHead
<1>2. Lists(s1, q1, f, b) /\ s1 \in Seq(A) /\ q1 \in Seq(E)
  <2>1. CASE rd
    <3>1. q1 = Tail(q) /\ q1 \in Seq(E)
      BY <2>1, HeadTailProperties DEF Popped
    <3>2. s1 = Popped(s, Head(q)[f] = b)
      BY <2>1 DEF Popped
    <3>3. s1 \in Seq(A)
      BY <3>2, HeadTailProperties DEF Popped
    <3>4. Lists(Popped(s, Head(q)[f] = b), Tail(q), f, b)
      BY <2>1, ListsTail
    <3> HIDE DEF s1, q1
    <3> QED BY <3>1, <3>2, <3>3, <3>4
  <2>2. CASE ~rd
    BY <2>2 DEF Popped
  <2> QED BY <2>1, <2>2
<1> HIDE DEF s1, q1
<1>3. Lists(s1 \o When(wr /\ x[f] = b, x.aid), q1 \o When(wr, x), f, b)
  <2>1. CASE wr
    <3>1. When(wr, x) = <<x>> /\ When(wr /\ x[f] = b, x.aid) = When(x[f] = b, x.aid)
      BY <2>1 DEF When
    <3>2. Lists(s1 \o When(x[f] = b, x.aid), q1 \o <<x>>, f, b)
      BY <1>2, <2>1, ListsAppend
    <3> QED BY <3>1, <3>2
  <2>2. CASE ~wr
    <3>1. When(wr, x) = <<>> /\ When(wr /\ x[f] = b, x.aid) = <<>>
      BY <2>2 DEF When
    <3>2. s1 \o <<>> = s1 /\ q1 \o <<>> = q1
      BY <1>2, ConcatEmptySeq
    <3> QED BY <1>2, <3>1, <3>2
  <2> QED BY <2>1, <2>2
<1> QED BY <1>1, <1>3 DEF s1, q1, Clocked

\* An entry that moves from the head of one FIFO to the end of another stays where it
\* is in the two taken together.
LEMMA Moves ==
    ASSUME NEW S, NEW q \in Seq(S), NEW c \in BOOLEAN, c => q # <<>>
    PROVE  When(c, Head(q)) \o Popped(q, c) = q
<1>1. CASE c
  <2>1. /\ q # <<>> /\ When(c, Head(q)) = <<Head(q)>> /\ Popped(q, c) = Tail(q)
    BY <1>1 DEF When, Popped
  <2>2. Head(q) \in S /\ Tail(q) \in Seq(S) /\ <<Head(q)>> \in Seq(S)
    BY <2>1, HeadTailProperties
  <2> DEFINE p == <<Head(q)>> \o Tail(q)
  <2>3. p \in Seq(S) /\ Len(p) = Len(q)
    BY <2>1, <2>2, ConcatProperties, HeadTailProperties
  <2>4. \A i \in 1 .. Len(q) : p[i] = q[i]
    BY <2>1, <2>2, HeadTailProperties
  <2> HIDE DEF p
  <2>5. p = q
    BY <2>3, <2>4, SeqEqual
  <2> QED BY <2>1, <2>5 DEF p
<1>2. CASE ~c
  BY <1>2, ConcatEmptySeq DEF When, Popped
<1> QED BY <1>1, <1>2

\* A read of the first of two sequences is a read of the two taken together.
LEMMA PopFirst ==
    ASSUME NEW S, NEW q \in Seq(S), NEW r \in Seq(S), NEW c \in BOOLEAN, c => q # <<>>
    PROVE  Popped(q, c) \o r = Popped(q \o r, c)
<1>1. CASE c
  <2>1. q # <<>> /\ Popped(q, c) = Tail(q) /\ Tail(q) \in Seq(S) /\ q \o r \in Seq(S)
    BY <1>1, HeadTailProperties, ConcatProperties DEF Popped
  <2>2. /\ Len(q) \in Nat \ {0} /\ Len(Tail(q)) = Len(q) - 1
        /\ \A i \in 1 .. Len(q) - 1 : Tail(q)[i] = q[i + 1]
    BY <2>1
  <2>3. /\ Len(r) \in Nat /\ Len(q \o r) = Len(q) + Len(r)
        /\ \A i \in 1 .. Len(q) + Len(r) :
             (q \o r)[i] = IF i <= Len(q) THEN q[i] ELSE r[i - Len(q)]
    BY ConcatProperties
  <2>4. q \o r # <<>> /\ Popped(q \o r, c) = Tail(q \o r)
    BY <1>1, <2>2, <2>3 DEF Popped
  <2>5. /\ Tail(q) \o r \in Seq(S) /\ Len(Tail(q) \o r) = Len(q) - 1 + Len(r)
        /\ \A i \in 1 .. Len(q) - 1 + Len(r) :
             (Tail(q) \o r)[i] = IF i <= Len(q) - 1 THEN Tail(q)[i] ELSE r[i - (Len(q) - 1)]
    BY <2>1, <2>2, ConcatProperties
  <2>6. /\ Tail(q \o r) \in Seq(S) /\ Len(Tail(q \o r)) = Len(q) - 1 + Len(r)
        /\ \A i \in 1 .. Len(q) - 1 + Len(r) : Tail(q \o r)[i] = (q \o r)[i + 1]
    BY <2>1, <2>2, <2>3, <2>4, HeadTailProperties
  <2>7. ASSUME NEW i \in 1 .. Len(q) - 1 + Len(r)
        PROVE  (Tail(q) \o r)[i] = Tail(q \o r)[i]
    <3>1. Tail(q \o r)[i] = (q \o r)[i + 1] /\ i + 1 \in 1 .. Len(q) + Len(r)
      BY <2>2, <2>3, <2>6
    <3>2. (q \o r)[i + 1] = IF i + 1 <= Len(q) THEN q[i + 1] ELSE r[i + 1 - Len(q)]
      BY <2>3, <3>1
    <3>3. CASE i <= Len(q) - 1
      <4>1. i \in 1 .. Len(q) - 1
        BY <3>3
      <4>2. (Tail(q) \o r)[i] = q[i + 1]
        BY <2>2, <2>5, <3>3, <4>1
      <4> QED BY <2>2, <3>1, <3>2, <3>3, <4>2
    <3>4. CASE ~ (i <= Len(q) - 1)
      <4>1. i - (Len(q) - 1) = i + 1 - Len(q)
        BY <2>2
      <4>2. (Tail(q) \o r)[i] = r[i + 1 - Len(q)]
        BY <2>5, <3>4, <4>1
      <4> QED BY <2>2, <3>1, <3>2, <3>4, <4>2
    <3> QED BY <3>3, <3>4
  <2>8. Tail(q) \o r = Tail(q \o r)
    BY <2>5, <2>6, <2>7, SeqEqual
  <2> QED BY <2>1, <2>4, <2>8
<1>2. CASE ~c
  BY <1>2 DEF Popped
<1> QED BY <1>1, <1>2
===============================================================================
