--------------------------- MODULE JtagServerProofs ---------------------------
(***************************************************************************)
(* The debug server, for any size of its buffers, any number of commands   *)
(* and any number of connections: commands are executed in order, answers  *)
(* are in order, and the simulation never waits for the socket.  Last, the *)
(* buffer its two queues stand for: TcpBuf, a system of its own.           *)
(***************************************************************************)
EXTENDS JtagServer, TcpBuf, QueueLemmas

-------------------------------------------------------------------------------
(* Queues in a row.                                                          *)

\* What joins the second of two queues joins the row.
LEMMA ConcatAppends ==
    ASSUME NEW S, NEW s \in Seq(S), NEW t \in Seq(S), NEW e \in S
    PROVE  s \o Append(t, e) = Append(s \o t, e)
<1>1. <<e>> \in Seq(S) /\ s \o t \in Seq(S)
  OBVIOUS
<1>2. Append(t, e) = t \o <<e>> /\ Append(s \o t, e) = (s \o t) \o <<e>>
  BY <1>1, AppendIsConcat
<1> QED BY <1>1, <1>2, ConcatAssociative

\* A queue is its head and its tail.
LEMMA HeadAndTail ==
    ASSUME NEW S, NEW s \in Seq(S), s # <<>>
    PROVE  /\ Head(s) \in S /\ Tail(s) \in Seq(S) /\ <<Head(s)>> \in Seq(S)
           /\ s = <<Head(s)>> \o Tail(s)
<1>1. Head(s) \in S /\ Tail(s) \in Seq(S) /\ <<Head(s)>> \in Seq(S)
  OBVIOUS
<1>2. s = <<Head(s)>> \o Tail(s)
  OBVIOUS
<1> QED BY <1>1, <1>2

\* The head of one queue goes to the end of the one before it.
LEMMA ConcatMoves ==
    ASSUME NEW S, NEW s \in Seq(S), NEW t \in Seq(S), t # <<>>
    PROVE  Append(s, Head(t)) \o Tail(t) = s \o t
<1>1. Head(t) \in S /\ Tail(t) \in Seq(S) /\ <<Head(t)>> \in Seq(S) /\ t = <<Head(t)>> \o Tail(t)
  BY HeadAndTail
<1>2. Append(s, Head(t)) = s \o <<Head(t)>>
  BY <1>1, AppendIsConcat
<1>3. (s \o <<Head(t)>>) \o Tail(t) = s \o (<<Head(t)>> \o Tail(t))
  BY <1>1, ConcatAssociative
<1> QED BY <1>1, <1>2, <1>3

\* A family of queues of which one is appended to, or loses its head.
LEMMA OneAppended ==
    ASSUME NEW I, NEW S, NEW f \in [I -> Seq(S)], NEW i, NEW e \in S
    PROVE  [f EXCEPT ![i] = Append(@, e)] \in [I -> Seq(S)]
<1>1. \A j \in I : [f EXCEPT ![i] = Append(@, e)][j] \in Seq(S)
  OBVIOUS
<1> QED BY <1>1

LEMMA OneTaken ==
    ASSUME NEW I, NEW S, NEW f \in [I -> Seq(S)], NEW i, i \in I => f[i] # <<>>
    PROVE  [f EXCEPT ![i] = Tail(@)] \in [I -> Seq(S)]
<1>1. \A j \in I : [f EXCEPT ![i] = Tail(@)][j] \in Seq(S)
  OBVIOUS
<1> QED BY <1>1

-------------------------------------------------------------------------------
(* The reads among some commands.                                            *)

\* One step of the function behind Reads.
More(cs, i, before) == IF cs[i].op = "read" THEN Append(before, cs[i].n) ELSE before

\* What the function behind Reads computes, index by index.
LEMMA ReadsUnfold ==
    ASSUME NEW S, \A e \in S : e.n \in Nat, NEW cs \in Seq(S)
    PROVE  \E f : /\ Reads(cs) = f[Len(cs)]
                  /\ f[0] = <<>>
                  /\ \A i \in 1 .. Len(cs) : f[i] = More(cs, i, f[i - 1])
                  /\ \A i \in 0 .. Len(cs) : f[i] \in Seq(Nat)
<1> DEFINE Eq(f, m) == f = [i \in 0 .. m |-> IF i = 0 THEN <<>> ELSE More(cs, i, f[i - 1])]
           T == {m \in Nat : \E f : Eq(f, m)}
<1> USE DEF More
<1>1. 0 \in T
  <2> DEFINE f == [i \in 0 .. 0 |-> <<>>]
  <2>1. Eq(f, 0)
    OBVIOUS
  <2> QED BY <2>1
<1>2. ASSUME NEW m \in Nat, m \in T
      PROVE  m + 1 \in T
  <2>1. PICK f : Eq(f, m)
    BY <1>2
  <2> DEFINE g == [i \in 0 .. m + 1 |-> IF i = m + 1 THEN More(cs, i, f[m]) ELSE f[i]]
  <2>2. Eq(g, m + 1)
    <3>1. \A i \in 0 .. m + 1 : g[i] = IF i = 0 THEN <<>> ELSE More(cs, i, g[i - 1])
      <4> TAKE i \in 0 .. m + 1
      <4>1. CASE i = m + 1
        BY <4>1
      <4>2. CASE i # m + 1
        <5>1. i \in 0 .. m /\ g[i] = f[i]
          BY <4>2
        <5>2. i # 0 => i - 1 \in 0 .. m /\ i - 1 # m + 1 /\ g[i - 1] = f[i - 1]
          BY <5>1
        <5>3. f[i] = IF i = 0 THEN <<>> ELSE More(cs, i, f[i - 1])
          BY <2>1, <5>1
        <5> QED BY <5>1, <5>2, <5>3
      <4> QED BY <4>1, <4>2
    <3> QED BY <3>1
  <2> HIDE DEF g
  <2>3. \E h : Eq(h, m + 1)
    <3> WITNESS g
    <3> QED BY <2>2
  <2>4. m + 1 \in Nat
    OBVIOUS
  <2> HIDE DEF Eq
  <2> QED BY <2>3, <2>4
<1> HIDE DEF T
<1>3. Len(cs) \in T
  BY <1>1, <1>2, Induction
<1> DEFINE r == CHOOSE f : Eq(f, Len(cs))
<1>4. Eq(r, Len(cs))
  BY <1>3 DEF T
<1>5. Reads(cs) = r[Len(cs)]
  BY DEF Reads
<1> HIDE DEF r
<1>6. \A i \in 1 .. Len(cs) : r[i] = More(cs, i, r[i - 1])
  <2> TAKE i \in 1 .. Len(cs)
  <2>1. i \in 0 .. Len(cs) /\ i # 0
    OBVIOUS
  <2> HIDE DEF More
  <2> QED BY <1>4, <2>1
<1>7. r[0] = <<>>
  BY <1>4
<1>8. \A i \in Nat : i \in 0 .. Len(cs) => r[i] \in Seq(Nat)
  <2> DEFINE U == {i \in Nat : i \in 0 .. Len(cs) => r[i] \in Seq(Nat)}
  <2>1. 0 \in U
    BY <1>7, EmptySeq
  <2>2. ASSUME NEW i \in Nat, i \in U
        PROVE  i + 1 \in U
    <3> SUFFICES ASSUME i + 1 \in 1 .. Len(cs)
                 PROVE  r[i + 1] \in Seq(Nat)
      OBVIOUS
    <3>1. r[i] \in Seq(Nat)
      BY <2>2
    <3>2. cs[i + 1].n \in Nat
      OBVIOUS
    <3>3. r[i + 1] = More(cs, i + 1, r[i])
      BY <1>6
    <3> QED BY <3>1, <3>2, <3>3
  <2> HIDE DEF U
  <2>3. Nat \subseteq U
    BY <2>1, <2>2, Induction
  <2> QED BY <2>3 DEF U
<1> QED BY <1>5, <1>6, <1>7, <1>8

LEMMA ReadsEmpty == Reads(<<>>) = <<>>
<1>1. PICK f : Reads(<<>>) = f[0] /\ f[0] = <<>>
  <2>1. <<>> \in Seq({}) /\ Len(<<>>) = 0 /\ \A e \in {} : e.n \in Nat
    OBVIOUS
  <2> QED BY <2>1, ReadsUnfold
<1> QED BY <1>1

LEMMA ReadsAppend ==
    ASSUME NEW S, \A e \in S : e.n \in Nat, NEW cs \in Seq(S), NEW e \in S
    PROVE  /\ Reads(cs) \in Seq(Nat)
           /\ Reads(Append(cs, e)) =
                  IF e.op = "read" THEN Append(Reads(cs), e.n) ELSE Reads(cs)
<1> DEFINE cs2 == Append(cs, e)
<1>1. cs2 \in Seq(S) /\ Len(cs2) = Len(cs) + 1 /\ cs2[Len(cs) + 1] = e /\ Len(cs) \in Nat
      /\ \A i \in 1 .. Len(cs) : cs2[i] = cs[i]
  OBVIOUS
<1> HIDE DEF cs2
<1>2. PICK f : /\ Reads(cs) = f[Len(cs)] /\ f[0] = <<>>
               /\ \A i \in 1 .. Len(cs) : f[i] = More(cs, i, f[i - 1])
               /\ \A i \in 0 .. Len(cs) : f[i] \in Seq(Nat)
  BY ReadsUnfold
<1>3. PICK g : /\ Reads(cs2) = g[Len(cs2)] /\ g[0] = <<>>
               /\ \A i \in 1 .. Len(cs2) : g[i] = More(cs2, i, g[i - 1])
  BY <1>1, ReadsUnfold
<1>4. \A i \in Nat : i \in 0 .. Len(cs) => g[i] = f[i]
  <2> DEFINE U == {i \in Nat : i \in 0 .. Len(cs) => g[i] = f[i]}
  <2>1. 0 \in U
    BY <1>2, <1>3
  <2>2. ASSUME NEW i \in Nat, i \in U
        PROVE  i + 1 \in U
    <3> SUFFICES ASSUME i + 1 \in 1 .. Len(cs)
                 PROVE  g[i + 1] = f[i + 1]
      OBVIOUS
    <3>1. g[i] = f[i] /\ i + 1 \in 1 .. Len(cs2)
      BY <1>1, <2>2
    <3>2. g[i + 1] = More(cs2, i + 1, g[i]) /\ f[i + 1] = More(cs, i + 1, f[i])
      BY <1>2, <1>3, <3>1
    <3>3. cs2[i + 1] = cs[i + 1]
      BY <1>1
    <3> QED BY <3>1, <3>2, <3>3 DEF More
  <2> HIDE DEF U
  <2>3. Nat \subseteq U
    BY <2>1, <2>2, Induction
  <2> QED BY <2>3 DEF U
<1>5. g[Len(cs) + 1] = More(cs2, Len(cs) + 1, g[Len(cs)])
  BY <1>1, <1>3
<1>6. g[Len(cs)] = f[Len(cs)]
  BY <1>1, <1>4
<1> QED BY <1>1, <1>2, <1>3, <1>5, <1>6 DEF More, cs2

\* The reads of two queues, one after the other.
LEMMA ReadsConcat ==
    ASSUME NEW S, \A e \in S : e.n \in Nat, NEW s \in Seq(S), NEW t \in Seq(S)
    PROVE  Reads(s \o t) = Reads(s) \o Reads(t)
<1> DEFINE U == {m \in Nat : \A u \in Seq(S) : Len(u) = m => Reads(s \o u) = Reads(s) \o Reads(u)}
<1>1. \A u \in Seq(S) : Reads(u) \in Seq(Nat)
  <2> TAKE u \in Seq(S)
  <2>1. CASE u = <<>>
    BY <2>1, ReadsEmpty, EmptySeq
  <2>2. CASE u # <<>>
    BY <2>2, ReadsAppend
  <2> QED BY <2>1, <2>2
<1>2. 0 \in U
  <2> SUFFICES ASSUME NEW u \in Seq(S), Len(u) = 0
               PROVE  Reads(s \o u) = Reads(s) \o Reads(u)
    OBVIOUS
  <2>1. u = <<>>
    OBVIOUS
  <2>2. s \o u = s /\ Reads(s) \o <<>> = Reads(s)
    BY <1>1, <2>1, ConcatEmptySeq
  <2> QED BY <2>1, <2>2, ReadsEmpty
<1>3. ASSUME NEW m \in Nat, m \in U
      PROVE  m + 1 \in U
  <2> SUFFICES ASSUME NEW u \in Seq(S), Len(u) = m + 1
               PROVE  Reads(s \o u) = Reads(s) \o Reads(u)
    OBVIOUS
  <2> DEFINE v == SubSeq(u, 1, m)
             e == u[m + 1]
  <2>1. v \in Seq(S) /\ Len(v) = m /\ e \in S /\ u = Append(v, e)
    OBVIOUS
  <2>2. Reads(s \o v) = Reads(s) \o Reads(v)
    BY <1>3, <2>1
  <2> HIDE DEF v, e
  <2>3. s \o u = Append(s \o v, e) /\ s \o v \in Seq(S)
    BY <2>1, ConcatAppends, ConcatProperties
  <2>4. Reads(s \o u) = IF e.op = "read" THEN Append(Reads(s \o v), e.n) ELSE Reads(s \o v)
    <3> DEFINE w == s \o v
    <3> HIDE DEF w
    <3>1. w \in Seq(S) /\ s \o u = Append(w, e)
      BY <2>3 DEF w
    <3>2. Reads(Append(w, e)) = IF e.op = "read" THEN Append(Reads(w), e.n) ELSE Reads(w)
      BY <2>1, <3>1, ReadsAppend
    <3> QED BY <3>1, <3>2 DEF w
  <2>5. Reads(u) = IF e.op = "read" THEN Append(Reads(v), e.n) ELSE Reads(v)
    BY <2>1, ReadsAppend
  <2>6. Reads(s) \in Seq(Nat) /\ Reads(v) \in Seq(Nat) /\ e.n \in Nat
    BY <1>1, <2>1
  <2>7. Append(Reads(s) \o Reads(v), e.n) = Reads(s) \o Append(Reads(v), e.n)
    <3> DEFINE x == Reads(s)
               y == Reads(v)
    <3> HIDE DEF x, y
    <3>1. x \in Seq(Nat) /\ y \in Seq(Nat) /\ e.n \in Nat
      BY <2>6 DEF x, y
    <3>2. x \o Append(y, e.n) = Append(x \o y, e.n)
      BY <3>1, ConcatAppends
    <3> QED BY <3>2 DEF x, y
  <2> QED BY <2>2, <2>4, <2>5, <2>7
<1> HIDE DEF U
<1>4. Len(t) \in U
  BY <1>2, <1>3, Induction
<1> QED BY <1>4 DEF U

-------------------------------------------------------------------------------
(* Types, and what a thread holds where it is.                               *)

HandInv ==
    /\ spc = "put" => hand \in Cmds
    /\ spc = "send" => hand \in Answers
    /\ sim = "answer" => done # 0

TypeInv == TypeOK /\ HandInv

LEMMA TypeInit == Init => TypeInv
<1> SUFFICES ASSUME Init
             PROVE  TypeInv
  OBVIOUS
<1>1. \A S : <<>> \in Seq(S)
  BY EmptySeq
<1>2. in \in [Conns -> Seq(Cmds)] /\ out \in [Conns -> Seq(1 .. MaxCmds)]
  BY <1>1 DEF Init
<1>3. MaxConns \in Nat /\ MaxCmds \in Nat
  BY JtagAssumption
<1>4. waiting \in Seq(1 .. MaxCmds) /\ backlog \in Seq(Conns) /\ buf_in \in Seq(Cmds)
      /\ buf_out \in Seq(1 .. MaxCmds)
  BY <1>1 DEF Init
<1>5. hand = NoByte /\ cfd = None /\ ready = None /\ isOpen = {} /\ done = 0 /\ sent = 0 /\ conn = 0
      /\ spc = "select" /\ sim = "run" /\ ~up /\ ~listening /\ socket_run
      /\ up \in BOOLEAN /\ listening \in BOOLEAN /\ socket_run \in BOOLEAN
  BY DEF Init
<1>6. TypeOK
  BY <1>2, <1>3, <1>4, <1>5 DEF TypeOK
<1> QED BY <1>5, <1>6 DEF TypeInv, HandInv

LEMMA TypeClient == TypeInv /\ Client => TypeInv'
<1> SUFFICES ASSUME TypeInv, Client
             PROVE  TypeInv'
  OBVIOUS
<1>1. /\ in \in [Conns -> Seq(Cmds)] /\ out \in [Conns -> Seq(1 .. MaxCmds)]
      /\ waiting \in Seq(1 .. MaxCmds) /\ sent \in 0 .. MaxCmds /\ conn \in 0 .. MaxConns
      /\ backlog \in Seq(Conns) /\ up \in BOOLEAN /\ MaxConns \in Nat /\ MaxCmds \in Nat
  BY JtagAssumption DEF TypeInv, TypeOK
<1>2. UNCHANGED <<fdVars, serverVars, simVars, buf_in, buf_out>>
  BY DEF Client, Connect, Send, Receive
<1>3. SUFFICES /\ in' \in [Conns -> Seq(Cmds)] /\ out' \in [Conns -> Seq(1 .. MaxCmds)]
               /\ waiting' \in Seq(1 .. MaxCmds) /\ sent' \in 0 .. MaxCmds /\ conn' \in 0 .. MaxConns
               /\ backlog' \in Seq(Conns) /\ up' \in BOOLEAN
  <2>1. HandInv'
    BY <1>2 DEF TypeInv, HandInv, serverVars, simVars
  <2>2. /\ isOpen' \subseteq Conns /\ cfd' \in Conns \cup {None} /\ socket_run' \in BOOLEAN
        /\ hand' \in Cmds \cup Answers \cup {NoByte}
        /\ listening' \in BOOLEAN /\ ready' \in Conns \cup {None}
        /\ buf_in' \in Seq(Cmds) /\ buf_out' \in Seq(1 .. MaxCmds) /\ done' \in 0 .. MaxCmds
    BY <1>2 DEF TypeInv, TypeOK, fdVars, serverVars, simVars
  <2>3. spc' = spc /\ sim' = sim
    BY <1>2 DEF serverVars, simVars
  <2> QED BY <2>1, <2>2, <2>3 DEF TypeInv, TypeOK
<1>4. CASE Connect
  <2>1. conn' \in Conns /\ conn' \in 0 .. MaxConns
    BY <1>1, <1>4 DEF Connect, Conns
  <2> QED BY <1>1, <1>4, <2>1 DEF Connect
<1>5. ASSUME NEW op \in Ops, Send(op)
      PROVE  /\ in' \in [Conns -> Seq(Cmds)] /\ sent' \in 1 .. MaxCmds
             /\ waiting' \in Seq(1 .. MaxCmds) /\ up' \in BOOLEAN /\ UNCHANGED <<out, conn, backlog>>
  <2>1. sent' \in 1 .. MaxCmds
    BY <1>1, <1>5 DEF Send
  <2>2. waiting' \in {waiting, Append(waiting, sent')}
    BY <1>5 DEF Send
  <2>3. waiting' \in Seq(1 .. MaxCmds)
    <3> DEFINE N == 1 .. MaxCmds
    <3>1. waiting \in Seq(N) /\ sent' \in N
      BY <1>1, <2>1
    <3> HIDE DEF N
    <3>2. Append(waiting, sent') \in Seq(N)
      BY <3>1, AppendProperties
    <3>3. waiting' \in Seq(N)
      BY <2>2, <3>1, <3>2
    <3> QED BY <3>3 DEF N
  <2> DEFINE c == [n |-> sent', op |-> op]
  <2>4. c \in Cmds
    BY <2>1 DEF Cmds
  <2>5. in' = [in EXCEPT ![conn] = Append(@, c)]
    BY <1>5 DEF Send
  <2> HIDE DEF c
  <2>6. in' \in [Conns -> Seq(Cmds)]
    BY <1>1, <2>4, <2>5, OneAppended
  <2> QED BY <1>5, <2>1, <2>3, <2>6 DEF Send
<1>6. CASE Receive
  <2>1. IF waiting = <<>> THEN waiting' = <<>> ELSE waiting' = Tail(waiting)
    BY <1>6 DEF Receive
  <2>2. waiting' \in Seq(1 .. MaxCmds)
    BY <1>1, <2>1, HeadTailProperties
  <2>3. out' = [out EXCEPT ![conn] = Tail(@)] /\ out[conn] # <<>>
    BY <1>6 DEF Receive
  <2>4. out' \in [Conns -> Seq(1 .. MaxCmds)]
    BY <1>1, <2>3, OneTaken
  <2> QED BY <1>1, <1>6, <2>2, <2>4 DEF Receive
<1> QED BY <1>1, <1>4, <1>5, <1>6 DEF Client

LEMMA TypeServer == TypeInv /\ Server => TypeInv'
<1> SUFFICES ASSUME TypeInv, Server
             PROVE  TypeInv'
  OBVIOUS
<1> USE JtagAssumption DEF TypeInv, TypeOK, HandInv, clientVars, netVars, fdVars, simVars,
    Goto, ClientClose, None
<1>1. CASE Select
  BY <1>1 DEF Select
<1>2. CASE Accept
  <2>1. backlog # <<>> => Head(backlog) \in Conns /\ Tail(backlog) \in Seq(Conns)
    OBVIOUS
  <2> QED BY <1>2, <2>1 DEF Accept
<1>3. CASE IsSet
  BY <1>3 DEF IsSet
<1>4. CASE Read
  <2>1. \/ UNCHANGED <<hand, in>> /\ spc' \in {"serve", "stdin"}
        \/ /\ cfd # None /\ in[cfd] # <<>> /\ spc' = "put" /\ hand' = Head(in[cfd])
           /\ in' = [in EXCEPT ![cfd] = Tail(@)] /\ UNCHANGED fdVars
    BY <1>4 DEF Read
  <2>2. cfd # None /\ in[cfd] # <<>> => Head(in[cfd]) \in Cmds /\ Tail(in[cfd]) \in Seq(Cmds)
    OBVIOUS
  <2>3. in' \in [Conns -> Seq(Cmds)] /\ hand' \in Cmds \cup Answers \cup {NoByte}
        /\ (spc' = "put" => hand' \in Cmds) /\ spc' \in {"serve", "stdin", "put"}
    BY <2>1, <2>2
  <2> QED BY <1>4, <2>3 DEF Read
<1>5. CASE Put
  <2>1. Append(buf_in, hand) \in Seq(Cmds)
    BY <1>5 DEF Put
  <2> QED BY <1>5, <2>1 DEF Put
<1>6. CASE Serve
  BY <1>6 DEF Serve
<1>7. CASE Drain
  <2>1. buf_out # <<>> => Head(buf_out) \in 1 .. MaxCmds /\ Tail(buf_out) \in Seq(1 .. MaxCmds)
    OBVIOUS
  <2>2. buf_out # <<>> => [n |-> Head(buf_out), op |-> "answer"] \in Answers
    BY <2>1 DEF Answers
  <2> QED BY <1>7, <2>1, <2>2 DEF Drain
<1>8. CASE Deliver
  <2>1. hand.n \in 1 .. MaxCmds
    BY <1>8 DEF Deliver, Answers
  <2>2. out' \in [Conns -> Seq(1 .. MaxCmds)]
    <3>1. out \in [Conns -> Seq(1 .. MaxCmds)]
      OBVIOUS
    <3>2. out' = out \/ out' = [out EXCEPT ![cfd] = Append(@, hand.n)]
      BY <1>8 DEF Deliver
    <3> HIDE DEF TypeInv, TypeOK, HandInv
    <3> DEFINE N == 1 .. MaxCmds
    <3>3. hand.n \in N /\ out \in [Conns -> Seq(N)]
      BY <2>1, <3>1
    <3> HIDE DEF N
    <3>4. [out EXCEPT ![cfd] = Append(@, hand.n)] \in [Conns -> Seq(N)]
      BY <3>3, OneAppended
    <3>5. out' \in [Conns -> Seq(N)]
      BY <3>2, <3>3, <3>4
    <3> QED BY <3>5 DEF N
  <2> QED BY <1>8, <2>2 DEF Deliver
<1>9. CASE End
  BY <1>9 DEF End
<1> QED BY <1>1, <1>2, <1>3, <1>4, <1>5, <1>6, <1>7, <1>8, <1>9 DEF Server

LEMMA TypeSimulation == TypeInv /\ Simulation => TypeInv'
<1> SUFFICES ASSUME TypeInv, Simulation
             PROVE  TypeInv'
  OBVIOUS
<1> USE JtagAssumption DEF TypeInv, TypeOK, HandInv, clientVars, netVars, fdVars, serverVars, None
<1>1. CASE Tick
  <2>1. buf_in # <<>> /\ Head(buf_in) \in Cmds /\ Tail(buf_in) \in Seq(Cmds)
    BY <1>1 DEF Tick
  <2>2. Head(buf_in).n \in 1 .. MaxCmds /\ Head(buf_in).op \in {"write", "read", "quit"}
    BY <2>1 DEF Cmds, Ops
  <2>3. sim' \in {"run", "answer", "close"}
    BY <1>1, <2>2 DEF Tick
  <2> QED BY <1>1, <2>1, <2>2, <2>3 DEF Tick
<1>2. CASE Answer
  <2>1. Append(buf_out, done) \in Seq(1 .. MaxCmds)
    BY <1>2 DEF Answer
  <2> QED BY <1>2, <2>1 DEF Answer
<1>3. CASE CloseSocket \/ Forget \/ Finish \/ Join
  BY <1>3 DEF CloseSocket, Forget, Finish, Join
<1> QED BY <1>1, <1>2, <1>3 DEF Simulation, Commands

LEMMA TypeStep == TypeInv /\ [Next]_vars => TypeInv'
<1>1. TypeInv /\ UNCHANGED vars => TypeInv'
  BY DEF TypeInv, TypeOK, HandInv, vars, clientVars, netVars, fdVars, serverVars, simVars
<1> QED BY <1>1, TypeClient, TypeServer, TypeSimulation DEF Next, Process

-------------------------------------------------------------------------------
(* Connections are accepted one after the other: the server has the last     *)
(* accepted or none, and those in the backlog come after it.                 *)

Accepted == conn - Len(backlog)

NetInv ==
    /\ Accepted \in Nat /\ cfd \in {None, Accepted}
    /\ \A i \in 1 .. Len(backlog) : backlog[i] = Accepted + i
    /\ up => conn # 0
    /\ \A c \in Conns : c > conn => in[c] = <<>> /\ out[c] = <<>>

LEMMA NetInit == Init => NetInv
BY DEF Init, NetInv, Accepted, None

LEMMA NetStep == TypeInv /\ NetInv /\ [Next]_vars => NetInv'
<1> SUFFICES ASSUME TypeInv, NetInv, [Next]_vars
             PROVE  NetInv'
  OBVIOUS
<1> USE DEF NetInv
<1>1. /\ conn \in 0 .. MaxConns /\ conn \in Nat /\ MaxConns \in Nat /\ backlog \in Seq(Conns)
      /\ Len(backlog) \in Nat /\ in \in [Conns -> Seq(Cmds)] /\ out \in [Conns -> Seq(1 .. MaxCmds)]
  BY JtagAssumption DEF TypeInv, TypeOK
<1>2. CASE UNCHANGED <<backlog, conn, in, out>> /\ cfd' \in {cfd, None} /\ up' = up
  BY <1>2 DEF Accepted
<1>3. CASE Connect
  <2>1. /\ conn' = conn + 1 /\ backlog' = Append(backlog, conn') /\ UNCHANGED <<in, out, cfd>>
    BY <1>3 DEF Connect, fdVars
  <2>2. Len(backlog') = Len(backlog) + 1 /\ Accepted' = Accepted
    BY <1>1, <2>1 DEF Accepted
  <2>3. \A i \in 1 .. Len(backlog') : backlog'[i] = Accepted' + i
    <3> TAKE i \in 1 .. Len(backlog')
    <3>1. CASE i = Len(backlog) + 1
      BY <1>1, <2>1, <2>2, <3>1 DEF Accepted
    <3>2. CASE i # Len(backlog) + 1
      BY <1>1, <2>1, <2>2, <3>2
    <3> QED BY <3>1, <3>2
  <2>4. up' => conn' # 0
    BY <1>1, <2>1
  <2>5. \A c \in Conns : c > conn' => in'[c] = <<>> /\ out'[c] = <<>>
    BY <1>1, <2>1 DEF Conns
  <2>6. Accepted' \in Nat /\ cfd' \in {None, Accepted'}
    BY <2>1, <2>2
  <2> QED BY <2>3, <2>4, <2>5, <2>6
<1>4. ASSUME NEW op \in Ops, Send(op)
      PROVE  NetInv'
  <2>1. /\ UNCHANGED <<backlog, conn, out, cfd>> /\ conn # 0
        /\ \A c \in Conns : c # conn => in'[c] = in[c]
    BY <1>1, <1>4 DEF Send, fdVars
  <2>2. Accepted' = Accepted
    BY <2>1 DEF Accepted
  <2>3. \A c \in Conns : c > conn => in'[c] = <<>> /\ out'[c] = <<>>
    <3> TAKE c \in Conns
    <3>1. c > conn => c # conn /\ in[c] = <<>> /\ out[c] = <<>>
      BY <1>1 DEF Conns
    <3> QED BY <2>1, <3>1
  <2> QED BY <1>4, <2>1, <2>2, <2>3 DEF Send
<1>5. CASE Receive
  <2>1. /\ UNCHANGED <<backlog, conn, in, cfd, up>> /\ conn # 0
        /\ \A c \in Conns : c # conn => out'[c] = out[c]
    BY <1>1, <1>5 DEF Receive, fdVars
  <2>2. Accepted' = Accepted
    BY <2>1 DEF Accepted
  <2>3. \A c \in Conns : c > conn => in'[c] = <<>> /\ out'[c] = <<>>
    <3> TAKE c \in Conns
    <3>1. c > conn => c # conn /\ in[c] = <<>> /\ out[c] = <<>>
      BY <1>1 DEF Conns
    <3> QED BY <2>1, <3>1
  <2> QED BY <2>1, <2>2, <2>3
<1>6. CASE Accept
  <2>1. UNCHANGED <<conn, in, out, up>>
    BY <1>6 DEF Accept, clientVars
  <2>2. CASE UNCHANGED <<fdVars, backlog>>
    BY <1>2, <2>1, <2>2 DEF fdVars
  <2>3. CASE backlog # <<>> /\ cfd' = Head(backlog) /\ backlog' = Tail(backlog)
    <3>1. /\ Len(backlog') = Len(backlog) - 1 /\ Len(backlog) >= 1 /\ Head(backlog) = backlog[1]
          /\ \A i \in 1 .. Len(backlog') : backlog'[i] = backlog[i + 1]
      BY <1>1, <2>3
    <3>2. Accepted' = Accepted + 1 /\ cfd' = Accepted + 1
      BY <1>1, <2>1, <2>3, <3>1 DEF Accepted
    <3> QED BY <1>1, <2>1, <3>1, <3>2
  <2> QED BY <1>6, <2>2, <2>3 DEF Accept
<1>7. CASE Read /\ in' # in
  <2>1. /\ UNCHANGED <<backlog, conn, out, up, cfd>> /\ cfd # None /\ in[cfd] # <<>>
        /\ \A c \in Conns : c # cfd => in'[c] = in[c]
    BY <1>1, <1>7 DEF Read, clientVars, fdVars
  <2>2. Accepted' = Accepted /\ cfd = Accepted
    BY <2>1 DEF Accepted
  <2>3. \A c \in Conns : c > conn => in'[c] = <<>> /\ out'[c] = <<>>
    <3>1. cfd <= conn
      BY <1>1, <2>2 DEF Accepted
    <3> QED BY <1>1, <2>1, <3>1 DEF Conns
  <2> QED BY <2>1, <2>2, <2>3
<1>8. CASE Deliver /\ out' # out
  <2>1. /\ UNCHANGED <<backlog, conn, in, up, cfd>> /\ cfd = conn
        /\ \A c \in Conns : c # cfd => out'[c] = out[c]
    BY <1>1, <1>8 DEF Deliver, clientVars, fdVars
  <2>2. Accepted' = Accepted
    BY <2>1 DEF Accepted
  <2>3. \A c \in Conns : c > conn => in'[c] = <<>> /\ out'[c] = <<>>
    BY <1>1, <2>1
  <2> QED BY <2>1, <2>2, <2>3
<1>9. CASE (Read /\ in' = in) \/ (Deliver /\ out' = out) \/ Select \/ IsSet \/ Put \/ Serve
           \/ Drain \/ End
  BY <1>2, <1>9 DEF Read, Deliver, Select, IsSet, Put, Serve, Drain, End, ClientClose, fdVars,
     netVars, clientVars
<1>10. CASE Simulation \/ UNCHANGED vars
  BY <1>2, <1>10 DEF Simulation, Commands, Tick, Answer, CloseSocket, Forget, Finish, Join, vars,
     fdVars, netVars, clientVars
<1> QED BY <1>3, <1>4, <1>5, <1>6, <1>7, <1>8, <1>9, <1>10 DEF Next, Process, Server, Client

-------------------------------------------------------------------------------
(* Commands by their numbers.                                                *)

Nums(cs) == {cs[i].n : i \in 1 .. Len(cs)}
Sorted(cs) == \A i \in 1 .. Len(cs) : \A j \in 1 .. i - 1 : cs[j].n < cs[i].n
Before(S, T) == \A m \in S, n \in T : m < n

LEMMA NumsAppend ==
    ASSUME NEW cs \in Seq(Cmds), NEW e \in Cmds
    PROVE  /\ Nums(Append(cs, e)) = Nums(cs) \cup {e.n}
           /\ Sorted(cs) /\ Before(Nums(cs), {e.n}) => Sorted(Append(cs, e))
<1> DEFINE new == Append(cs, e)
<1>1. /\ Len(cs) \in Nat /\ Len(new) = Len(cs) + 1 /\ new[Len(cs) + 1] = e
      /\ \A i \in 1 .. Len(cs) : new[i] = cs[i]
  BY AppendProperties
<1> HIDE DEF new
<1>2. Nums(new) = Nums(cs) \cup {e.n}
  <2>1. Nums(new) \subseteq Nums(cs) \cup {e.n}
    <3> SUFFICES ASSUME NEW i \in 1 .. Len(new)
                 PROVE  new[i].n \in Nums(cs) \cup {e.n}
      BY DEF Nums
    <3>1. i \in 1 .. Len(cs) \/ i = Len(cs) + 1
      BY <1>1
    <3> QED BY <1>1, <3>1 DEF Nums
  <2>2. Nums(cs) \subseteq Nums(new)
    <3>1. \A i \in 1 .. Len(cs) : i \in 1 .. Len(new) /\ new[i].n = cs[i].n
      BY <1>1
    <3> QED BY <3>1 DEF Nums
  <2>3. e.n \in Nums(new)
    <3>1. Len(cs) + 1 \in 1 .. Len(new) /\ new[Len(cs) + 1].n = e.n
      BY <1>1
    <3> QED BY <3>1 DEF Nums
  <2> QED BY <2>1, <2>2, <2>3
<1>3. ASSUME Sorted(cs), Before(Nums(cs), {e.n})
      PROVE  Sorted(new)
  <2> SUFFICES ASSUME NEW i \in 1 .. Len(new), NEW j \in 1 .. i - 1
               PROVE  new[j].n < new[i].n
    BY DEF Sorted
  <2>1. j \in 1 .. Len(cs) /\ new[j] = cs[j] /\ cs[j].n \in Nums(cs)
    BY <1>1 DEF Nums
  <2>2. CASE i = Len(cs) + 1
    BY <1>1, <1>3, <2>1, <2>2 DEF Before
  <2>3. CASE i # Len(cs) + 1
    <3>1. i \in 1 .. Len(cs) /\ new[i] = cs[i]
      BY <1>1, <2>3
    <3> QED BY <1>3, <2>1, <3>1 DEF Sorted
  <2> QED BY <2>2, <2>3
<1> QED BY <1>2, <1>3 DEF new

LEMMA NumsTail ==
    ASSUME NEW cs \in Seq(Cmds), cs # <<>>
    PROVE  /\ Nums(cs) = {Head(cs).n} \cup Nums(Tail(cs))
           /\ Sorted(cs) => Sorted(Tail(cs)) /\ Before({Head(cs).n}, Nums(Tail(cs)))
<1> DEFINE t == Tail(cs)
           h == Head(cs)
<1>1. /\ Len(cs) \in Nat /\ Len(cs) >= 1 /\ Len(t) = Len(cs) - 1 /\ h = cs[1]
      /\ \A i \in 1 .. Len(t) : t[i] = cs[i + 1]
  BY HeadTailProperties
<1> HIDE DEF t, h
<1>2. \A i \in 2 .. Len(cs) : i - 1 \in 1 .. Len(t) /\ cs[i] = t[i - 1]
  <2> TAKE i \in 2 .. Len(cs)
  <2>1. i - 1 \in 1 .. Len(t) /\ (i - 1) + 1 = i
    BY <1>1
  <2> QED BY <1>1, <2>1
<1>3. Nums(cs) = {h.n} \cup Nums(t)
  <2>1. Nums(cs) \subseteq {h.n} \cup Nums(t)
    <3> SUFFICES ASSUME NEW i \in 1 .. Len(cs)
                 PROVE  cs[i].n \in {h.n} \cup Nums(t)
      BY DEF Nums
    <3>1. i = 1 \/ i \in 2 .. Len(cs)
      BY <1>1
    <3> QED BY <1>1, <1>2, <3>1 DEF Nums
  <2>2. h.n \in Nums(cs)
    <3>1. 1 \in 1 .. Len(cs)
      BY <1>1
    <3> QED BY <1>1, <3>1 DEF Nums
  <2>3. Nums(t) \subseteq Nums(cs)
    <3>1. \A i \in 1 .. Len(t) : i + 1 \in 1 .. Len(cs) /\ t[i] = cs[i + 1]
      BY <1>1
    <3> QED BY <3>1 DEF Nums
  <2> QED BY <2>1, <2>2, <2>3
<1>4. ASSUME Sorted(cs)
      PROVE  Sorted(t) /\ Before({h.n}, Nums(t))
  <2>1. ASSUME NEW i \in 1 .. Len(t), NEW j \in 1 .. i - 1
        PROVE  t[j].n < t[i].n
    <3>1. /\ j + 1 \in 1 .. (i + 1) - 1 /\ i + 1 \in 1 .. Len(cs) /\ j \in 1 .. Len(t)
          /\ t[j] = cs[j + 1] /\ t[i] = cs[i + 1]
      BY <1>1
    <3> QED BY <1>4, <3>1 DEF Sorted
  <2>2. ASSUME NEW i \in 1 .. Len(t)
        PROVE  h.n < t[i].n
    <3>1. 1 \in 1 .. (i + 1) - 1 /\ i + 1 \in 1 .. Len(cs) /\ t[i] = cs[i + 1]
      BY <1>1
    <3> QED BY <1>1, <1>4, <3>1 DEF Sorted
  <2> QED BY <2>1, <2>2 DEF Sorted, Before, Nums
<1> QED BY <1>3, <1>4 DEF t, h

LEMMA NumsConcat ==
    ASSUME NEW s \in Seq(Cmds), NEW t \in Seq(Cmds)
    PROVE  /\ Nums(s \o t) = Nums(s) \cup Nums(t)
           /\ Sorted(s) /\ Sorted(t) /\ Before(Nums(s), Nums(t)) => Sorted(s \o t)
<1> DEFINE k == Len(s)
           w == s \o t
<1>1. /\ k \in Nat /\ Len(t) \in Nat /\ Len(w) = k + Len(t)
      /\ \A i \in 1 .. Len(w) : w[i] = IF i <= k THEN s[i] ELSE t[i - k]
  BY ConcatProperties
<1> HIDE DEF w
<1>2. \A i \in 1 .. Len(s) : i \in 1 .. Len(w) /\ w[i] = s[i]
  BY <1>1
<1>3. \A i \in 1 .. Len(t) : i + k \in 1 .. Len(w) /\ w[i + k] = t[i]
  <2> TAKE i \in 1 .. Len(t)
  <2>1. i + k \in 1 .. Len(w) /\ ~ i + k <= k /\ (i + k) - k = i
    BY <1>1
  <2> QED BY <1>1, <2>1
<1>4. \A i \in 1 .. Len(w) : \/ i \in 1 .. Len(s) /\ w[i] = s[i]
                             \/ i > k /\ i - k \in 1 .. Len(t) /\ w[i] = t[i - k]
  BY <1>1
<1>5. Nums(w) = Nums(s) \cup Nums(t)
  <2>1. Nums(w) \subseteq Nums(s) \cup Nums(t)
    BY <1>4 DEF Nums
  <2>2. Nums(s) \subseteq Nums(w)
    BY <1>2 DEF Nums
  <2>3. Nums(t) \subseteq Nums(w)
    <3> SUFFICES ASSUME NEW i \in 1 .. Len(t)
                 PROVE  t[i].n \in Nums(w)
      BY DEF Nums
    <3>1. i + k \in 1 .. Len(w) /\ w[i + k].n = t[i].n
      BY <1>3
    <3> HIDE DEF k
    <3> QED BY <3>1 DEF Nums
  <2> QED BY <2>1, <2>2, <2>3
<1>6. ASSUME Sorted(s), Sorted(t), Before(Nums(s), Nums(t))
      PROVE  Sorted(w)
  <2> SUFFICES ASSUME NEW i \in 1 .. Len(w), NEW j \in 1 .. i - 1
               PROVE  w[j].n < w[i].n
    BY DEF Sorted
  <2>1. j \in 1 .. Len(w)
    BY <1>1
  <2>2. CASE i \in 1 .. Len(s)
    <3>1. j \in 1 .. Len(s) /\ w[j] = s[j] /\ w[i] = s[i]
      BY <1>1, <1>2, <2>2
    <3> QED BY <1>6, <2>2, <3>1 DEF Sorted
  <2>3. CASE i > k /\ j \in 1 .. Len(s)
    <3>1. w[j].n \in Nums(s) /\ w[i].n \in Nums(t)
      BY <1>1, <1>2, <1>4, <2>3 DEF Nums
    <3> QED BY <1>6, <3>1 DEF Before
  <2>4. CASE i > k /\ j > k
    <3>1. /\ j - k \in 1 .. (i - k) - 1 /\ i - k \in 1 .. Len(t)
          /\ w[j] = t[j - k] /\ w[i] = t[i - k]
      BY <1>1, <1>4, <2>1, <2>4
    <3> QED BY <1>6, <3>1 DEF Sorted
  <2> QED BY <1>1, <1>4, <2>1, <2>2, <2>3, <2>4
<1> QED BY <1>5, <1>6 DEF w

-------------------------------------------------------------------------------
(* The order of commands: executed, read, and still on their connections.    *)

InHandNums == IF spc = "put" THEN {hand.n} ELSE {}
HeldNums == Nums(buf_in) \cup InHandNums

HeldSorted == Sorted(buf_in) /\ Before(Nums(buf_in), InHandNums) /\ Before({done}, HeldNums)
ConnSorted == \A c \in Conns : Sorted(in[c])
ServedLater == \A c \in Served : Before({done} \cup HeldNums, Nums(in[c]))
ServedInTurn == \A c, d \in Served : c < d => Before(Nums(in[c]), Nums(in[d]))
AllSent ==
    /\ {done} \cup HeldNums \subseteq 0 .. sent
    /\ \A c \in Conns : Nums(in[c]) \subseteq 0 .. sent
NoneMissing ==
    \A n \in done + 1 .. sent : n \in HeldNums \/ \E c \in Conns : n \in Nums(in[c])

OrderInv == HeldSorted /\ ConnSorted /\ ServedLater /\ ServedInTurn /\ AllSent /\ NoneMissing

LEMMA NumsEmpty == Nums(<<>>) = {} /\ Sorted(<<>>)
<1>1. 1 .. Len(<<>>) = {}
  OBVIOUS
<1> QED BY <1>1 DEF Nums, Sorted

LEMMA OrderInit == Init => OrderInv
<1> SUFFICES ASSUME Init
             PROVE  OrderInv
  OBVIOUS
<1>1. /\ done = 0 /\ sent = 0 /\ HeldNums = {} /\ InHandNums = {} /\ Nums(buf_in) = {} /\ Sorted(buf_in)
      /\ \A c \in Conns : Nums(in[c]) = {} /\ Sorted(in[c])
  BY NumsEmpty DEF Init, HeldNums, InHandNums
<1>2. \A c \in Served : c \in Conns
  BY DEF Served
<1> QED BY <1>1, <1>2
    DEF OrderInv, HeldSorted, ConnSorted, ServedLater, ServedInTurn, AllSent, NoneMissing, Before

\* Which connections are served, by their numbers.
LEMMA ServedAre ==
    ASSUME TypeInv, NetInv
    PROVE  /\ Served = {c \in Conns : c = cfd \/ (Accepted < c /\ c <= conn)}
           /\ \A c \in Served : c <= conn
           /\ Accepted \in Nat /\ conn \in Nat /\ Accepted <= conn /\ cfd \in {None, Accepted}
<1>1. /\ backlog \in Seq(Conns) /\ Len(backlog) \in Nat /\ conn \in Nat /\ Accepted \in Nat
      /\ \A i \in 1 .. Len(backlog) : backlog[i] = Accepted + i
      /\ cfd \in {None, Accepted} /\ Conns \subseteq Nat
  BY JtagAssumption DEF TypeInv, TypeOK, NetInv, Conns
<1>2. Accepted <= conn /\ conn = Accepted + Len(backlog)
  BY <1>1 DEF Accepted
<1> HIDE DEF Accepted
<1>3. ASSUME NEW c \in Conns
      PROVE  (\E i \in DOMAIN backlog : backlog[i] = c) <=> Accepted < c /\ c <= conn
  <2>1. ASSUME Accepted < c, c <= conn
        PROVE  \E i \in DOMAIN backlog : backlog[i] = c
    <3>1. c - Accepted \in 1 .. Len(backlog) /\ Accepted + (c - Accepted) = c
      BY <1>1, <1>2, <2>1
    <3>2. backlog[c - Accepted] = c /\ DOMAIN backlog = 1 .. Len(backlog)
      BY <1>1, <3>1
    <3> QED BY <3>1, <3>2
  <2>2. ASSUME NEW i \in DOMAIN backlog, backlog[i] = c
        PROVE  Accepted < c /\ c <= conn
    BY <1>1, <1>2, <2>2
  <2> QED BY <2>1, <2>2
<1>4. Served = {c \in Conns : c = cfd \/ (Accepted < c /\ c <= conn)}
  BY <1>3 DEF Served
<1>5. \A c \in Served : c <= conn
  BY <1>1, <1>2, <1>4 DEF None
<1> QED BY <1>1, <1>2, <1>4, <1>5

\* Steps that move no command: connections may cease to be served.
LEMMA OrderQuiet ==
    ASSUME OrderInv, UNCHANGED <<buf_in, in, done, sent>>, InHandNums' = InHandNums,
           Served' \subseteq Served
    PROVE  OrderInv'
<1>1. HeldNums' = HeldNums
  BY DEF HeldNums
<1>2. Served \subseteq Conns
  BY DEF Served
<1>3. HeldSorted' /\ ConnSorted' /\ AllSent' /\ NoneMissing'
  BY <1>1 DEF OrderInv, HeldSorted, ConnSorted, AllSent, NoneMissing
<1>4. ServedLater' /\ ServedInTurn'
  BY <1>1 DEF OrderInv, ServedLater, ServedInTurn
<1> QED BY <1>3, <1>4 DEF OrderInv

LEMMA OrderConnect ==
    ASSUME TypeInv, NetInv, NetInv', TypeInv', OrderInv, Connect
    PROVE  OrderInv'
<1>1. /\ UNCHANGED <<buf_in, in, done, sent, spc, hand, cfd>> /\ conn' = conn + 1
      /\ backlog' = Append(backlog, conn + 1) /\ conn' \in Conns
      /\ conn \in Nat /\ backlog \in Seq(Conns)
  BY JtagAssumption DEF Connect, simVars, serverVars, fdVars, TypeInv, TypeOK, Conns
<1>2. Served' \subseteq Served \cup {conn + 1}
  <2> SUFFICES ASSUME NEW c \in Conns, NEW i \in DOMAIN backlog', backlog'[i] = c
               PROVE  c \in Served \cup {conn + 1}
    BY <1>1 DEF Served
  <2>1. /\ Len(backlog) \in Nat /\ i \in 1 .. Len(backlog) + 1 /\ DOMAIN backlog = 1 .. Len(backlog)
        /\ backlog'[Len(backlog) + 1] = conn + 1
        /\ \A k \in 1 .. Len(backlog) : backlog'[k] = backlog[k]
    BY <1>1
  <2>2. CASE i = Len(backlog) + 1
    BY <2>1, <2>2
  <2>3. CASE i \in 1 .. Len(backlog)
    BY <2>1, <2>3 DEF Served
  <2> QED BY <2>1, <2>2, <2>3
<1>3. \A c \in Served : c <= conn
  BY ServedAre
<1>4. in'[conn + 1] = <<>> /\ Nums(in'[conn + 1]) = {}
  BY <1>1, NumsEmpty DEF NetInv, Conns
<1>5. HeldNums' = HeldNums /\ InHandNums' = InHandNums
  BY <1>1 DEF HeldNums, InHandNums
<1>6. HeldSorted' /\ ConnSorted' /\ AllSent' /\ NoneMissing'
  BY <1>1, <1>5 DEF OrderInv, HeldSorted, ConnSorted, AllSent, NoneMissing
<1>7. ServedLater' /\ ServedInTurn'
  BY <1>1, <1>2, <1>3, <1>4, <1>5 DEF OrderInv, ServedLater, ServedInTurn, Before
<1> QED BY <1>6, <1>7 DEF OrderInv

LEMMA OrderSend ==
    ASSUME TypeInv, NetInv, NetInv', TypeInv', OrderInv, NEW op \in Ops, Send(op)
    PROVE  OrderInv'
<1> DEFINE e == [n |-> sent', op |-> op]
<1>1. /\ UNCHANGED <<buf_in, done, spc, hand, cfd, conn, backlog>> /\ sent' = sent + 1
      /\ in' = [in EXCEPT ![conn] = Append(@, e)] /\ e.n = sent + 1
      /\ conn \in Conns /\ sent \in 0 .. MaxCmds /\ sent' \in 1 .. MaxCmds /\ sent \in Nat
      /\ in \in [Conns -> Seq(Cmds)] /\ MaxCmds \in Nat
  BY JtagAssumption DEF Send, simVars, serverVars, fdVars, TypeInv, TypeOK, Conns, NetInv
<1>2. e \in Cmds
  BY <1>1 DEF Cmds
<1>3. Served' = Served /\ \A c \in Served : c <= conn
  BY <1>1, ServedAre DEF Served
<1>4. /\ in'[conn] = Append(in[conn], e) /\ in[conn] \in Seq(Cmds)
      /\ \A c \in Conns : c # conn => in'[c] = in[c]
  BY <1>1
<1> HIDE DEF e
<1>5. /\ Nums(in'[conn]) = Nums(in[conn]) \cup {sent + 1}
      /\ Sorted(in[conn]) /\ Before(Nums(in[conn]), {sent + 1}) => Sorted(in'[conn])
  BY <1>1, <1>2, <1>4, NumsAppend
<1>6. HeldNums' = HeldNums /\ InHandNums' = InHandNums
  BY <1>1 DEF HeldNums, InHandNums
<1>7. \A c \in Conns : Nums(in[c]) \subseteq 0 .. sent /\ Sorted(in[c])
  BY DEF OrderInv, AllSent, ConnSorted
<1>8. \A S \in SUBSET (0 .. sent) : Before(S, {sent + 1})
  BY <1>1 DEF Before
<1>9. {done} \cup HeldNums \subseteq 0 .. sent
  BY DEF OrderInv, AllSent
<1>10. HeldSorted'
  BY <1>1, <1>6 DEF OrderInv, HeldSorted
<1>11. ConnSorted'
  <2> SUFFICES ASSUME NEW c \in Conns
               PROVE  Sorted(in'[c])
    BY DEF ConnSorted
  <2>1. Before(Nums(in[conn]), {sent + 1})
    BY <1>1, <1>7, <1>8
  <2> QED BY <1>1, <1>4, <1>5, <1>7, <2>1
<1>12. ServedLater'
  <2> SUFFICES ASSUME NEW c \in Served
               PROVE  Before({done} \cup HeldNums, Nums(in'[c]))
    BY <1>1, <1>3, <1>6 DEF ServedLater
  <2>1. c \in Conns /\ Before({done} \cup HeldNums, Nums(in[c])) /\ Before({done} \cup HeldNums, {sent + 1})
    BY <1>8, <1>9 DEF OrderInv, ServedLater, Served
  <2>2. Nums(in'[c]) \subseteq Nums(in[c]) \cup {sent + 1}
    BY <1>4, <1>5, <2>1
  <2> QED BY <2>1, <2>2 DEF Before
<1>13. ServedInTurn'
  <2> SUFFICES ASSUME NEW c \in Served, NEW d \in Served, c < d
               PROVE  Before(Nums(in'[c]), Nums(in'[d]))
    BY <1>1, <1>3 DEF ServedInTurn
  <2>1. c \in Conns /\ d \in Conns /\ c # conn
    BY <1>1, <1>3 DEF Served, Conns
  <2>2. Nums(in'[c]) = Nums(in[c]) /\ Nums(in'[d]) \subseteq Nums(in[d]) \cup {sent + 1}
    BY <1>4, <1>5, <2>1
  <2>3. Before(Nums(in[c]), Nums(in[d])) /\ Before(Nums(in[c]), {sent + 1})
    BY <1>7, <1>8, <2>1 DEF OrderInv, ServedInTurn
  <2> QED BY <2>2, <2>3 DEF Before
<1>14. AllSent'
  <2>1. 0 .. sent \subseteq 0 .. sent' /\ sent + 1 \in 0 .. sent'
    BY <1>1
  <2>2. \A c \in Conns : Nums(in'[c]) \subseteq Nums(in[c]) \cup {sent + 1}
    BY <1>4, <1>5
  <2> QED BY <1>1, <1>6, <1>7, <1>9, <2>1, <2>2 DEF AllSent
<1>15. NoneMissing'
  <2> SUFFICES ASSUME NEW n \in done + 1 .. sent'
               PROVE  n \in HeldNums \/ \E c \in Conns : n \in Nums(in'[c])
    BY <1>1, <1>6 DEF NoneMissing
  <2>1. done \in Nat
    BY DEF TypeInv, TypeOK
  <2>2. n = sent + 1 \/ n \in done + 1 .. sent
    BY <1>1, <2>1
  <2>3. \A c \in Conns : Nums(in[c]) \subseteq Nums(in'[c])
    BY <1>4, <1>5
  <2> QED BY <1>1, <1>5, <2>2, <2>3 DEF OrderInv, NoneMissing
<1> QED BY <1>10, <1>11, <1>12, <1>13, <1>14, <1>15 DEF OrderInv

\* The next command of the connection goes to the server's hand.
LEMMA OrderRead ==
    ASSUME TypeInv, NetInv, OrderInv, Read, spc' = "put"
    PROVE  OrderInv'
<1>1. /\ UNCHANGED <<buf_in, done, sent, cfd, conn, backlog>> /\ spc = "read"
      /\ cfd # None /\ in[cfd] # <<>> /\ hand' = Head(in[cfd]) /\ in' = [in EXCEPT ![cfd] = Tail(@)]
  BY DEF Read, Goto, clientVars, simVars, fdVars
<1>2. /\ cfd \in Conns /\ cfd \in Served /\ in[cfd] \in Seq(Cmds) /\ in \in [Conns -> Seq(Cmds)]
  BY <1>1 DEF TypeInv, TypeOK, Served
<1>3. in'[cfd] = Tail(in[cfd]) /\ \A c \in Conns : c # cfd => in'[c] = in[c]
  BY <1>1, <1>2
<1> DEFINE h == hand'.n
<1>4. /\ Nums(in[cfd]) = {h} \cup Nums(in'[cfd])
      /\ Sorted(in[cfd]) => Sorted(in'[cfd]) /\ Before({h}, Nums(in'[cfd]))
  BY <1>1, <1>2, <1>3, NumsTail
<1>5. InHandNums = {} /\ InHandNums' = {h} /\ HeldNums = Nums(buf_in) /\ HeldNums' = Nums(buf_in) \cup {h}
  BY <1>1 DEF InHandNums, HeldNums
<1> HIDE DEF h
<1>6. Served' = Served /\ \A c \in Served : c \in Conns /\ cfd <= c
  <2>1. \A c \in Served : c \in Conns /\ cfd <= c
    BY <1>1, ServedAre DEF Conns, None
  <2> QED BY <1>1, <2>1 DEF Served
<1>7. ConnSorted /\ Before({done} \cup HeldNums, Nums(in[cfd])) /\ Sorted(buf_in) /\ Before({done}, Nums(buf_in))
  BY <1>2, <1>5 DEF OrderInv, ServedLater, HeldSorted, Before
<1>8. HeldSorted'
  BY <1>1, <1>4, <1>5, <1>7 DEF HeldSorted, Before
<1>9. ConnSorted'
  BY <1>2, <1>3, <1>4, <1>7 DEF ConnSorted
<1>10. ServedLater'
  <2> SUFFICES ASSUME NEW c \in Served
               PROVE  Before({done} \cup Nums(buf_in) \cup {h}, Nums(in'[c]))
    BY <1>1, <1>5, <1>6 DEF ServedLater
  <2>1. Before({done} \cup Nums(buf_in), Nums(in[c])) /\ c \in Conns
    BY <1>5, <1>6 DEF OrderInv, ServedLater
  <2>2. CASE c = cfd
    BY <1>2, <1>4, <1>7, <2>1, <2>2 DEF Before, ConnSorted
  <2>3. CASE c # cfd
    <3>1. cfd < c
      BY <1>2, <1>6, <2>3 DEF Conns
    <3>2. Before(Nums(in[cfd]), Nums(in[c]))
      BY <1>2, <3>1 DEF OrderInv, ServedInTurn
    <3> QED BY <1>3, <1>4, <2>1, <2>3, <3>2 DEF Before
  <2> QED BY <2>2, <2>3
<1>11. \A c \in Conns : Nums(in'[c]) \subseteq Nums(in[c])
  BY <1>2, <1>3, <1>4
<1>12. ServedInTurn'
  <2> SUFFICES ASSUME NEW c \in Served, NEW d \in Served, c < d
               PROVE  Before(Nums(in'[c]), Nums(in'[d]))
    BY <1>6 DEF ServedInTurn
  <2>1. Before(Nums(in[c]), Nums(in[d])) /\ c \in Conns /\ d \in Conns
    BY <1>6 DEF OrderInv, ServedInTurn
  <2> QED BY <1>11, <2>1 DEF Before
<1>13. AllSent'
  BY <1>1, <1>2, <1>4, <1>5, <1>11 DEF OrderInv, AllSent
<1>14. NoneMissing'
  <2> SUFFICES ASSUME NEW n \in done + 1 .. sent
               PROVE  n \in HeldNums' \/ \E c \in Conns : n \in Nums(in'[c])
    BY <1>1 DEF NoneMissing
  <2>1. n \in HeldNums \/ \E c \in Conns : n \in Nums(in[c])
    BY DEF OrderInv, NoneMissing
  <2> QED BY <1>2, <1>3, <1>4, <1>5, <2>1
<1> QED BY <1>8, <1>9, <1>10, <1>12, <1>13, <1>14 DEF OrderInv

\* What was in hand goes into the buffer.
LEMMA OrderPut ==
    ASSUME TypeInv, OrderInv, Put
    PROVE  OrderInv'
<1>1. /\ UNCHANGED <<in, done, sent, cfd, backlog>> /\ spc = "put" /\ spc' = "read"
      /\ buf_in' = Append(buf_in, hand)
  BY DEF Put, Goto, clientVars, netVars, simVars, fdVars
<1>2. hand \in Cmds /\ buf_in \in Seq(Cmds)
  BY <1>1 DEF TypeInv, TypeOK, HandInv
<1>3. /\ Nums(buf_in') = Nums(buf_in) \cup {hand.n}
      /\ Sorted(buf_in) /\ Before(Nums(buf_in), {hand.n}) => Sorted(buf_in')
  BY <1>1, <1>2, NumsAppend
<1>4. InHandNums = {hand.n} /\ InHandNums' = {} /\ HeldNums' = HeldNums
  BY <1>1, <1>3 DEF InHandNums, HeldNums
<1>5. Served' = Served
  BY <1>1 DEF Served
<1>6. HeldSorted'
  BY <1>1, <1>3, <1>4 DEF OrderInv, HeldSorted, Before
<1>7. ConnSorted' /\ AllSent' /\ NoneMissing'
  BY <1>1, <1>4 DEF OrderInv, ConnSorted, AllSent, NoneMissing
<1>8. ServedLater' /\ ServedInTurn'
  BY <1>1, <1>4, <1>5 DEF OrderInv, ServedLater, ServedInTurn
<1> QED BY <1>6, <1>7, <1>8 DEF OrderInv

\* The oldest command is executed.
LEMMA OrderTick ==
    ASSUME TypeInv, OrderInv, Tick
    PROVE  OrderInv'
<1>1. /\ UNCHANGED <<in, sent, cfd, backlog, spc, hand>> /\ buf_in # <<>>
      /\ buf_in' = Tail(buf_in) /\ done' = Head(buf_in).n
  BY DEF Tick, clientVars, netVars, serverVars, fdVars
<1>2. buf_in \in Seq(Cmds) /\ done \in Nat /\ sent \in Nat /\ Head(buf_in) \in Cmds
  BY <1>1 DEF TypeInv, TypeOK
<1>3. done' \in Nat
  BY <1>1, <1>2 DEF Cmds
<1>4. /\ Nums(buf_in) = {done'} \cup Nums(buf_in')
      /\ Sorted(buf_in) => Sorted(buf_in') /\ Before({done'}, Nums(buf_in'))
  BY <1>1, <1>2, NumsTail
<1>5. InHandNums' = InHandNums /\ HeldNums = {done'} \cup HeldNums'
  BY <1>1, <1>4 DEF InHandNums, HeldNums
<1>6. Served' = Served /\ Served \subseteq Conns
  BY <1>1 DEF Served
<1>7. HeldSorted'
  <2>1. Sorted(buf_in) /\ Before(Nums(buf_in), InHandNums) /\ Before({done}, HeldNums)
    BY DEF OrderInv, HeldSorted
  <2>2. Before({done'}, InHandNums) /\ Before(Nums(buf_in'), InHandNums)
    BY <1>4, <2>1 DEF Before
  <2>3. Before({done'}, HeldNums')
    BY <1>4, <1>5, <2>1, <2>2 DEF Before, HeldNums
  <2> QED BY <1>4, <1>5, <2>1, <2>2, <2>3 DEF HeldSorted
<1>8. ConnSorted' /\ AllSent'
  BY <1>1, <1>5 DEF OrderInv, ConnSorted, AllSent
<1>9. ServedLater' /\ ServedInTurn'
  BY <1>1, <1>5, <1>6 DEF OrderInv, ServedLater, ServedInTurn, Before
<1>10. NoneMissing'
  <2> SUFFICES ASSUME NEW n \in Nat, done' < n, n <= sent
               PROVE  n \in HeldNums' \/ \E c \in Conns : n \in Nums(in[c])
    BY <1>1, <1>2, <1>3 DEF NoneMissing
  <2>1. done < done'
    BY <1>5 DEF OrderInv, HeldSorted, Before
  <2>2. n \in done + 1 .. sent /\ n # done'
    BY <1>2, <1>3, <2>1
  <2> QED BY <1>5, <2>2 DEF OrderInv, NoneMissing
<1> QED BY <1>7, <1>8, <1>9, <1>10 DEF OrderInv

\* Every other step moves no command.
LEMMA OrderStep ==
    ASSUME TypeInv, NetInv, TypeInv', NetInv', OrderInv, [Next]_vars
    PROVE  OrderInv'
<1>1. CASE Client
  <2>1. CASE Receive
    <3>1. UNCHANGED <<buf_in, in, done, sent, spc, hand, cfd, backlog>>
      BY <2>1 DEF Receive, simVars, fdVars, serverVars
    <3>2. Served' = Served /\ InHandNums' = InHandNums
      BY <3>1 DEF Served, InHandNums
    <3> QED BY <3>1, <3>2, OrderQuiet
  <2> QED BY <1>1, <2>1, OrderConnect, OrderSend DEF Client
<1>2. CASE Read /\ spc' # "put"
  <2>1. UNCHANGED <<buf_in, in, done, sent, backlog>> /\ cfd' \in {cfd, None} /\ spc = "read"
    BY <1>2 DEF Read, Goto, ClientClose, clientVars, simVars, fdVars
  <2>2. Served' \subseteq Served /\ InHandNums' = InHandNums
    BY <1>2, <2>1 DEF Served, InHandNums, Conns, None
  <2> QED BY <2>1, <2>2, OrderQuiet
<1>3. CASE Accept
  <2>1. UNCHANGED <<buf_in, in, done, sent>> /\ spc = "accept" /\ spc' \in {"aborted", "isset"}
    BY <1>3 DEF Accept, Goto, clientVars, simVars
  <2>2. Served' \subseteq Served
    <3>1. CASE UNCHANGED <<cfd, backlog>>
      BY <3>1 DEF Served
    <3>2. CASE backlog # <<>> /\ cfd' = Head(backlog) /\ backlog' = Tail(backlog)
      <4>1. backlog \in Seq(Conns)
        BY DEF TypeInv, TypeOK
      <4>2. /\ DOMAIN backlog = 1 .. Len(backlog) /\ Len(backlog) \in Nat /\ Len(backlog) >= 1
            /\ cfd' = backlog[1]
            /\ DOMAIN backlog' = 1 .. Len(backlog) - 1
            /\ \A i \in 1 .. Len(backlog) - 1 : backlog'[i] = backlog[i + 1]
        BY <3>2, <4>1, HeadTailProperties
      <4>3. /\ 1 \in DOMAIN backlog
            /\ \A i \in DOMAIN backlog' : i + 1 \in DOMAIN backlog /\ backlog'[i] = backlog[i + 1]
        BY <4>2
      <4> QED BY <4>2, <4>3 DEF Served
    <3> QED BY <1>3, <3>1, <3>2 DEF Accept, fdVars
  <2>3. InHandNums' = InHandNums
    BY <2>1 DEF InHandNums
  <2> QED BY <2>1, <2>2, <2>3, OrderQuiet
<1>4. CASE Select \/ IsSet \/ Serve \/ Drain \/ Deliver \/ End
  <2>1. /\ UNCHANGED <<buf_in, in, done, sent, backlog>> /\ cfd' \in {cfd, None}
        /\ spc # "put" /\ spc' # "put"
    BY <1>4 DEF Select, IsSet, Serve, Drain, Deliver, End, Goto, ClientClose, clientVars, netVars,
       simVars, fdVars
  <2>2. Served' \subseteq Served /\ InHandNums' = InHandNums
    BY <2>1 DEF Served, InHandNums, Conns, None
  <2> QED BY <2>1, <2>2, OrderQuiet
<1>5. CASE Answer \/ CloseSocket \/ Forget \/ Finish \/ Join \/ UNCHANGED vars
  <2>1. UNCHANGED <<buf_in, in, done, sent, backlog, spc, hand>> /\ cfd' \in {cfd, None}
    BY <1>5 DEF Answer, CloseSocket, Forget, Finish, Join, vars, clientVars, netVars, simVars,
       serverVars, fdVars
  <2>2. Served' \subseteq Served /\ InHandNums' = InHandNums
    BY <2>1 DEF Served, InHandNums, Conns, None
  <2> QED BY <2>1, <2>2, OrderQuiet
<1> QED BY <1>1, <1>2, <1>3, <1>4, <1>5, OrderRead, OrderPut, OrderTick
    DEF Next, Process, Server, Simulation, Commands

LEMMA HeldAre ==
    ASSUME TypeInv
    PROVE  /\ Held \in Seq(Cmds) /\ InHand("put") \in Seq(Cmds)
           /\ Nums(Held) = HeldNums
           /\ HeldSorted => Sorted(Held)
<1>1. buf_in \in Seq(Cmds) /\ (spc = "put" => hand \in Cmds)
  BY DEF TypeInv, TypeOK, HandInv
<1>2. /\ InHand("put") \in Seq(Cmds) /\ Nums(InHand("put")) = InHandNums /\ Sorted(InHand("put"))
  <2>1. CASE spc = "put"
    <3>1. Append(<<>>, hand) = <<hand>> /\ <<hand>> \in Seq(Cmds) /\ <<>> \in Seq(Cmds)
      BY <1>1, <2>1
    <3>2. Nums(<<hand>>) = Nums(<<>>) \cup {hand.n} /\ (Before({}, {hand.n}) => Sorted(<<hand>>))
      BY <1>1, <2>1, <3>1, NumsAppend, NumsEmpty
    <3> QED BY <2>1, <3>1, <3>2, NumsEmpty DEF InHand, InHandNums, Before
  <2>2. CASE spc # "put"
    BY <2>2, NumsEmpty, EmptySeq DEF InHand, InHandNums
  <2> QED BY <2>1, <2>2
<1> DEFINE t == InHand("put")
<1>3. Held = buf_in \o t
  BY DEF Held
<1> HIDE DEF t
<1>4. t \in Seq(Cmds) /\ Nums(t) = InHandNums /\ Sorted(t)
  BY <1>2 DEF t
<1>5. buf_in \o t \in Seq(Cmds)
  BY <1>1, <1>4, ConcatProperties
<1>6. Nums(buf_in \o t) = Nums(buf_in) \cup Nums(t)
      /\ (Sorted(buf_in) /\ Before(Nums(buf_in), Nums(t)) => Sorted(buf_in \o t))
  BY <1>1, <1>4, NumsConcat
<1> QED BY <1>2, <1>3, <1>4, <1>5, <1>6 DEF HeldNums, HeldSorted

LEMMA CmdsAreNumbered == \A e \in Cmds : e.n \in Nat
<1>1. \A e \in Cmds : e.n \in 1 .. MaxCmds
  BY DEF Cmds
<1> QED BY <1>1

LEMMA AscendsFromNums ==
    ASSUME NEW cs \in Seq(Cmds), Sorted(cs), Before({done}, Nums(cs)), done \in Nat
    PROVE  Ascends(cs)
<1>1. DOMAIN cs = 1 .. Len(cs)
  OBVIOUS
<1>2. \A i \in 1 .. Len(cs) : cs[i].n \in Nat
  BY CmdsAreNumbered
<1>3. \A i \in 1 .. Len(cs) : done < cs[i].n
  BY DEF Before, Nums
<1> QED BY <1>1, <1>2, <1>3 DEF Ascends, Sorted

LEMMA HasIsInNums == ASSUME NEW cs \in Seq(Cmds), NEW n PROVE n \in Nums(cs) => Has(cs, n)
<1>1. DOMAIN cs = 1 .. Len(cs)
  OBVIOUS
<1> QED BY <1>1 DEF Has, Nums

LEMMA OrderImplies == TypeInv /\ OrderInv => CommandsInOrder
<1> SUFFICES ASSUME TypeInv, OrderInv
             PROVE  CommandsInOrder
  OBVIOUS
<1>1. Held \in Seq(Cmds) /\ Nums(Held) = HeldNums /\ Sorted(Held)
  BY HeldAre DEF OrderInv
<1>2. done \in Nat /\ in \in [Conns -> Seq(Cmds)] /\ Served \subseteq Conns
  BY DEF TypeInv, TypeOK, Served
<1>3. Ascends(Held)
  BY <1>1, <1>2, AscendsFromNums DEF OrderInv, HeldSorted
<1>4. ASSUME NEW c \in Served
      PROVE  Ascends(Held \o in[c])
  <2>1. in[c] \in Seq(Cmds) /\ Sorted(in[c]) /\ Before({done} \cup HeldNums, Nums(in[c]))
    BY <1>2 DEF OrderInv, ConnSorted, ServedLater
  <2> DEFINE s == Held
             t == in[c]
  <2> HIDE DEF s, t
  <2>2. s \in Seq(Cmds) /\ t \in Seq(Cmds) /\ Nums(s) = HeldNums /\ Sorted(s) /\ Sorted(t)
        /\ Before({done} \cup HeldNums, Nums(t)) /\ Before({done}, HeldNums)
    BY <1>1, <2>1 DEF s, t, OrderInv, HeldSorted
  <2>3. Nums(s \o t) = Nums(s) \cup Nums(t) /\ (Before(Nums(s), Nums(t)) => Sorted(s \o t))
        /\ s \o t \in Seq(Cmds)
    BY <2>2, NumsConcat, ConcatProperties
  <2>4. Before(Nums(s), Nums(t)) /\ Before({done}, Nums(s) \cup Nums(t))
    BY <2>2 DEF Before
  <2> DEFINE w == s \o t
  <2> HIDE DEF w
  <2>5. w \in Seq(Cmds) /\ Sorted(w) /\ Before({done}, Nums(w))
    BY <2>3, <2>4 DEF w
  <2>6. Ascends(w)
    BY <1>2, <2>5, AscendsFromNums
  <2> QED BY <2>6 DEF w, s, t
<1>5. ASSUME NEW n \in done + 1 .. sent
      PROVE  Has(Held, n) \/ \E c \in Conns : Has(in[c], n)
  <2>1. n \in HeldNums \/ \E c \in Conns : n \in Nums(in[c])
    BY DEF OrderInv, NoneMissing
  <2>2. n \in HeldNums => Has(Held, n)
    BY <1>1, HasIsInNums
  <2>3. \A c \in Conns : n \in Nums(in[c]) => Has(in[c], n)
    BY <1>2, HasIsInNums
  <2> QED BY <2>1, <2>2, <2>3
<1> QED BY <1>3, <1>4, <1>5 DEF CommandsInOrder

-------------------------------------------------------------------------------
\* Every variable of the server stays in its type, and what a thread has in hand
\* is a command where it puts it and an answer where it sends it.
THEOREM JtagTypeCorrect == Spec => [](TypeOK /\ HandInv)
<1>1. Init => TypeInv
  BY TypeInit
<1>2. TypeInv /\ [Next]_vars => TypeInv'
  BY TypeStep
<1>3. TypeInv => TypeOK /\ HandInv
  BY DEF TypeInv
<1> QED BY <1>1, <1>2, <1>3, PTL DEF Spec

\* The order of commands: what the thread holds comes after what is executed, and what
\* is still on a connection to be served comes after both, from one connection to the
\* next; a command sent and not executed is in one of those places, or on a connection
\* that has been lost.
THEOREM JtagOrder == Spec => [](TypeInv /\ NetInv /\ OrderInv)
<1>1. Init => TypeInv /\ NetInv /\ OrderInv
  BY TypeInit, NetInit, OrderInit
<1>2. TypeInv /\ NetInv /\ OrderInv /\ [Next]_vars => TypeInv' /\ NetInv' /\ OrderInv'
  BY TypeStep, NetStep, OrderStep
<1> QED BY <1>1, <1>2, PTL DEF Spec

\* tcp_server and tcp_server_read between them execute every command once, in order.
THEOREM JtagCommandsInOrder == Spec => []CommandsInOrder
<1>1. TypeInv /\ NetInv /\ OrderInv => CommandsInOrder
  BY OrderImplies
<1> QED BY <1>1, JtagOrder, PTL

-------------------------------------------------------------------------------
(* Five queues in a row, as an answer passes through them: on its connection,  *)
(* in the hand of the socket thread, in buf_out, in the hand of the simulation,*)
(* and the commands that will give one.                                        *)

Cat(s, t) == s \o t
Row(a, b, c, d, e) == Cat(Cat(Cat(Cat(a, b), c), d), e)

LEMMA CatProperties ==
    ASSUME NEW S
    PROVE  /\ <<>> \in Seq(S)
           /\ \A s, t \in Seq(S) : Cat(s, t) \in Seq(S) /\ Len(Cat(s, t)) = Len(s) + Len(t)
           /\ \A s \in Seq(S) : Cat(s, <<>>) = s /\ Cat(<<>>, s) = s
           /\ \A s, t, u \in Seq(S) : Cat(Cat(s, t), u) = Cat(s, Cat(t, u))
BY EmptySeq, ConcatProperties, ConcatEmptySeq, ConcatAssociative DEF Cat

LEMMA RowType ==
    ASSUME NEW S, NEW a \in Seq(S), NEW b \in Seq(S), NEW c \in Seq(S), NEW d \in Seq(S), NEW e \in Seq(S)
    PROVE  /\ Row(a, b, c, d, e) \in Seq(S)
           /\ Len(Row(a, b, c, d, e)) = Len(a) + Len(b) + Len(c) + Len(d) + Len(e)
<1> DEFINE ab == Cat(a, b)
           abc == Cat(ab, c)
           abcd == Cat(abc, d)
<1>1. ab \in Seq(S)
  BY CatProperties
<1>2. Len(ab) = Len(a) + Len(b)
  BY CatProperties
<1> HIDE DEF ab
<1>3. abc \in Seq(S)
  BY <1>1, CatProperties
<1>4. Len(abc) = Len(ab) + Len(c)
  BY <1>1, CatProperties
<1> HIDE DEF abc
<1>5. abcd \in Seq(S)
  BY <1>3, CatProperties
<1>6. Len(abcd) = Len(abc) + Len(d)
  BY <1>3, CatProperties
<1> HIDE DEF abcd
<1>7. Cat(abcd, e) \in Seq(S)
  BY <1>5, CatProperties
<1>8. Len(Cat(abcd, e)) = Len(abcd) + Len(e)
  BY <1>5, CatProperties
<1>9. Row(a, b, c, d, e) = Cat(abcd, e)
  BY DEF Row, ab, abc, abcd
<1> QED BY <1>2, <1>4, <1>6, <1>7, <1>8, <1>9

\* A row is empty when each of its queues is.
LEMMA RowEmpty ==
    ASSUME NEW S, NEW a \in Seq(S), NEW b \in Seq(S), NEW c \in Seq(S), NEW d \in Seq(S), NEW e \in Seq(S)
    PROVE  Row(a, b, c, d, e) = <<>> <=>
               a = <<>> /\ b = <<>> /\ c = <<>> /\ d = <<>> /\ e = <<>>
<1>1. \A s \in Seq(S) : Len(s) \in Nat /\ (s = <<>> <=> Len(s) = 0)
  OBVIOUS
<1> DEFINE r == Row(a, b, c, d, e)
<1>2. r \in Seq(S) /\ Len(r) = Len(a) + Len(b) + Len(c) + Len(d) + Len(e)
  BY RowType
<1> HIDE DEF r
<1>3. r = <<>> <=> Len(r) = 0
  BY <1>1, <1>2
<1>4. Len(r) = 0 <=> Len(a) = 0 /\ Len(b) = 0 /\ Len(c) = 0 /\ Len(d) = 0 /\ Len(e) = 0
  BY <1>1, <1>2
<1>5. r = <<>> <=> a = <<>> /\ b = <<>> /\ c = <<>> /\ d = <<>> /\ e = <<>>
  BY <1>1, <1>3, <1>4
<1> QED BY <1>5 DEF r

\* What passes from one queue to the next: what the client takes, what is sent, what the
\* socket thread takes, what the simulation answers, what it executes, what is asked.
LEMMA RowMoves ==
    ASSUME NEW S, NEW a \in Seq(S), NEW b \in Seq(S), NEW c \in Seq(S), NEW d \in Seq(S), NEW e \in Seq(S),
           NEW w \in Seq(S)
    PROVE  /\ Row(Cat(w, a), b, c, d, e) = Cat(w, Row(a, b, c, d, e))
           /\ Row(Cat(a, w), <<>>, c, d, e) = Row(a, w, c, d, e)
           /\ Row(a, <<>>, Cat(w, c), d, e) = Row(a, w, c, d, e)
           /\ Row(a, b, Cat(c, w), <<>>, e) = Row(a, b, c, w, e)
           /\ Row(a, b, c, <<>>, Cat(w, e)) = Row(a, b, c, w, e)
           /\ Row(a, b, c, d, Cat(e, w)) = Cat(Row(a, b, c, d, e), w)
<1> DEFINE ab == Cat(a, b)
           abc == Cat(ab, c)
           abcd == Cat(abc, d)
<1>1. ab \in Seq(S)
  BY CatProperties
<1> HIDE DEF ab
<1>2. abc \in Seq(S)
  BY <1>1, CatProperties
<1> HIDE DEF abc
<1>3. abcd \in Seq(S)
  BY <1>2, CatProperties
<1> HIDE DEF abcd
<1>4. Row(Cat(w, a), b, c, d, e) = Cat(w, Row(a, b, c, d, e))
  <2>1. Cat(Cat(w, a), b) = Cat(w, ab)
    BY CatProperties DEF ab
  <2>2. Cat(Cat(w, ab), c) = Cat(w, abc)
    BY <1>1, CatProperties DEF abc
  <2>3. Cat(Cat(w, abc), d) = Cat(w, abcd)
    BY <1>2, CatProperties DEF abcd
  <2>4. Cat(Cat(w, abcd), e) = Cat(w, Cat(abcd, e))
    BY <1>3, CatProperties
  <2> QED BY <2>1, <2>2, <2>3, <2>4 DEF Row, ab, abc, abcd
<1>5. Row(Cat(a, w), <<>>, c, d, e) = Row(a, w, c, d, e)
  BY CatProperties DEF Row
<1>6. Row(a, <<>>, Cat(w, c), d, e) = Row(a, w, c, d, e)
  BY CatProperties DEF Row
<1>7. Row(a, b, Cat(c, w), <<>>, e) = Row(a, b, c, w, e)
  <2>1. Cat(ab, Cat(c, w)) = Cat(abc, w)
    BY <1>1, CatProperties DEF abc
  <2>2. Cat(abc, w) \in Seq(S)
    BY <1>2, CatProperties
  <2>3. Cat(Cat(abc, w), <<>>) = Cat(abc, w)
    BY <2>2, CatProperties
  <2> QED BY <2>1, <2>3 DEF Row, ab, abc
<1>8. Row(a, b, c, <<>>, Cat(w, e)) = Row(a, b, c, w, e)
  <2>1. Cat(abc, <<>>) = abc
    BY <1>2, CatProperties
  <2>2. Cat(Cat(abc, w), e) = Cat(abc, Cat(w, e))
    BY <1>2, CatProperties
  <2> QED BY <2>1, <2>2 DEF Row, ab, abc
<1>9. Row(a, b, c, d, Cat(e, w)) = Cat(Row(a, b, c, d, e), w)
  <2>1. Cat(Cat(abcd, e), w) = Cat(abcd, Cat(e, w))
    BY <1>3, CatProperties
  <2> QED BY <2>1 DEF Row, ab, abc, abcd
<1> QED BY <1>4, <1>5, <1>6, <1>7, <1>8, <1>9

\* What joins the last queue joins the row.
LEMMA RowGrows ==
    ASSUME NEW S, NEW a \in Seq(S), NEW b \in Seq(S), NEW c \in Seq(S), NEW d \in Seq(S), NEW e \in Seq(S),
           NEW w \in Seq(S)
    PROVE  Row(a, b, c, d, Cat(e, w)) = Cat(Row(a, b, c, d, e), w)
BY RowMoves

-------------------------------------------------------------------------------
(* Every answer the client waits for is in one place, in order.              *)

Got == IF conn = 0 THEN <<>> ELSE out[conn]
Unread == IF conn = 0 THEN <<>> ELSE in[conn]
Sending == IF spc = "send" THEN <<hand.n>> ELSE <<>>
Answering == IF sim = "answer" THEN <<done>> ELSE <<>>
Asked == Held \o Unread

InReads == waiting = Row(Got, Sending, buf_out, Answering, Reads(Asked))
\* Only the latest connection has asked.
OthersQuiet == \A c \in Conns : c # conn => Reads(in[c]) = <<>>
\* Until it is accepted, nothing is on its way to it.
Fresh ==
    Accepted # conn =>
        Got = <<>> /\ Sending = <<>> /\ buf_out = <<>> /\ Answering = <<>> /\ Reads(Held) = <<>>

ClientInv == Len(waiting) <= Window /\ (~up => waiting = <<>>)
AnswerInv == ClientInv /\ (spc # "aborted" => InReads /\ OthersQuiet /\ Fresh)

LEMMA NumbersAreNat == ASSUME NEW s \in Seq(1 .. MaxCmds) PROVE s \in Seq(Nat)
<1> DEFINE N == 1 .. MaxCmds
<1>1. N \subseteq Nat /\ s \in Seq(N)
  OBVIOUS
<1> HIDE DEF N
<1> QED BY <1>1, SeqMonotonic

LEMMA ReadsType == \A cs \in Seq(Cmds) : Reads(cs) \in Seq(Nat)
<1> SUFFICES ASSUME NEW cs \in Seq(Cmds)
             PROVE  Reads(cs) \in Seq(Nat)
  OBVIOUS
<1>1. CASE cs = <<>>
  BY <1>1, ReadsEmpty, EmptySeq
<1>2. CASE cs # <<>>
  <2>1. Head(cs) \in Cmds
    BY <1>2, HeadAndTail
  <2> QED BY <2>1, CmdsAreNumbered, ReadsAppend
<1> QED BY <1>1, <1>2

LEMMA ReadsOfOne ==
    ASSUME NEW e \in Cmds
    PROVE  /\ <<e>> \in Seq(Cmds)
           /\ Reads(<<e>>) = IF e.op = "read" THEN <<e.n>> ELSE <<>>
<1>1. <<e>> \in Seq(Cmds) /\ <<>> \in Seq(Cmds) /\ Append(<<>>, e) = <<e>> /\ Append(<<>>, e.n) = <<e.n>>
  OBVIOUS
<1>2. Reads(Append(<<>>, e)) = IF e.op = "read" THEN Append(Reads(<<>>), e.n) ELSE Reads(<<>>)
  BY <1>1, CmdsAreNumbered, ReadsAppend
<1> QED BY <1>1, <1>2, ReadsEmpty

LEMMA ReadsOfTwo ==
    ASSUME NEW s \in Seq(Cmds), NEW t \in Seq(Cmds)
    PROVE  /\ s \o t \in Seq(Cmds) /\ Reads(s \o t) = Reads(s) \o Reads(t)
           /\ Reads(s \o t) = <<>> <=> Reads(s) = <<>> /\ Reads(t) = <<>>
<1>1. s \o t \in Seq(Cmds) /\ Reads(s \o t) = Reads(s) \o Reads(t)
  BY CmdsAreNumbered, ReadsConcat, ConcatProperties
<1> DEFINE x == Reads(s)
           y == Reads(t)
<1>2. x \in Seq(Nat) /\ y \in Seq(Nat)
  BY ReadsType
<1> HIDE DEF x, y
<1>3. x \o y = <<>> <=> x = <<>> /\ y = <<>>
  <2>1. Len(x \o y) = Len(x) + Len(y) /\ x \o y \in Seq(Nat)
    BY <1>2, ConcatProperties
  <2>2. \A s1 \in Seq(Nat) : Len(s1) \in Nat /\ (s1 = <<>> <=> Len(s1) = 0)
    OBVIOUS
  <2>3. Len(x) + Len(y) = 0 <=> Len(x) = 0 /\ Len(y) = 0
    BY <1>2, <2>2
  <2> QED BY <1>2, <2>1, <2>2, <2>3
<1> QED BY <1>1, <1>3 DEF x, y

LEMMA AnswerTypes ==
    ASSUME TypeInv
    PROVE  /\ Got \in Seq(Nat) /\ Sending \in Seq(Nat) /\ buf_out \in Seq(Nat) /\ Answering \in Seq(Nat)
           /\ Held \in Seq(Cmds) /\ Unread \in Seq(Cmds) /\ Asked \in Seq(Cmds)
           /\ Reads(Asked) \in Seq(Nat) /\ Reads(Held) \in Seq(Nat)
           /\ waiting \in Seq(Nat) /\ Len(waiting) \in Nat
           /\ conn # 0 => conn \in Conns
           /\ conn \in Nat /\ done \in Nat /\ sent \in Nat
           /\ Window \in Nat /\ Window > 0 /\ BufSize \in Nat
<1>1. /\ conn \in 0 .. MaxConns /\ MaxConns \in Nat /\ in \in [Conns -> Seq(Cmds)]
      /\ out \in [Conns -> Seq(1 .. MaxCmds)]
      /\ buf_out \in Seq(1 .. MaxCmds) /\ waiting \in Seq(1 .. MaxCmds)
      /\ done \in Nat /\ sent \in Nat /\ (spc = "send" => hand \in Answers)
  BY JtagAssumption DEF TypeInv, TypeOK, HandInv
<1>2. conn # 0 => conn \in Conns
  BY <1>1 DEF Conns
<1>3. conn # 0 => out[conn] \in Seq(1 .. MaxCmds) /\ in[conn] \in Seq(Cmds)
  BY <1>1, <1>2
<1>4. Got \in Seq(Nat) /\ Unread \in Seq(Cmds)
  BY <1>3, NumbersAreNat, EmptySeq DEF Got, Unread
<1>5. Sending \in Seq(Nat)
  <2>1. spc = "send" => hand.n \in Nat
    BY <1>1 DEF Answers
  <2> QED BY <2>1 DEF Sending
<1>6. Answering \in Seq(Nat) /\ buf_out \in Seq(Nat) /\ waiting \in Seq(Nat)
  BY <1>1, NumbersAreNat DEF Answering
<1>7. Held \in Seq(Cmds) /\ Asked \in Seq(Cmds)
  BY <1>4, HeldAre, ConcatProperties DEF Asked
<1>8. Reads(Asked) \in Seq(Nat) /\ Reads(Held) \in Seq(Nat)
  BY <1>7, ReadsType
<1>9. Len(waiting) \in Nat
  BY <1>6
<1> QED BY <1>1, <1>2, <1>4, <1>5, <1>6, <1>7, <1>8, <1>9, JtagAssumption

LEMMA AnswerInit == Init => AnswerInv
<1> SUFFICES ASSUME Init
             PROVE  AnswerInv
  OBVIOUS
<1>1. /\ Got = <<>> /\ Sending = <<>> /\ buf_out = <<>> /\ Answering = <<>> /\ waiting = <<>>
      /\ Held = <<>> \o <<>> /\ Unread = <<>> /\ Asked = (<<>> \o <<>>) \o <<>>
  BY DEF Init, Got, Sending, Answering, Held, InHand, Unread, Asked
<1>2. <<>> \o <<>> = <<>> /\ <<>> \in Seq(Nat)
  BY EmptySeq, ConcatEmptySeq
<1>3. Reads(Asked) = <<>> /\ Reads(Held) = <<>>
  BY <1>1, <1>2, ReadsEmpty
<1>4. InReads
  BY <1>1, <1>2, <1>3 DEF InReads, Row, Cat
<1>5. OthersQuiet
  BY ReadsEmpty DEF Init, OthersQuiet
<1>6. Len(waiting) = 0 /\ Window \in Nat
  BY <1>1, JtagAssumption
<1> QED BY <1>1, <1>3, <1>4, <1>5, <1>6 DEF AnswerInv, ClientInv, Fresh

\* Steps that move no answer, read or command that will be one.
LEMMA AnswerQuiet ==
    ASSUME InReads, OthersQuiet, Fresh, UNCHANGED <<waiting, conn, in, out, buf_out, spc = "send", Answering>>,
           spc = "send" => hand' = hand, Held' = Held,
           Accepted' # conn' => Accepted # conn
    PROVE  InReads' /\ OthersQuiet' /\ Fresh'
<1>1. Got' = Got /\ Unread' = Unread /\ Sending' = Sending
  BY DEF Got, Unread, Sending
<1>2. Asked' = Asked
  BY <1>1 DEF Asked
<1>3. InReads' /\ Fresh'
  BY <1>1, <1>2 DEF InReads, Fresh
<1>4. OthersQuiet'
  BY DEF OthersQuiet
<1> QED BY <1>3, <1>4

LEMMA ConnIsNew ==
    ASSUME TypeInv, NetInv, ClientInv, InReads, OthersQuiet, Connect
    PROVE  InReads' /\ OthersQuiet' /\ Fresh'
<1>1. /\ UNCHANGED <<waiting, in, out, buf_out, spc, hand, sim, done, buf_in>> /\ conn' = conn + 1
      /\ conn + 1 \in Conns /\ conn \in Nat /\ waiting = <<>>
      /\ in[conn + 1] = <<>> /\ out[conn + 1] = <<>>
  BY AnswerTypes, JtagAssumption
     DEF Connect, serverVars, simVars, Conns, NetInv, ClientInv
<1>2. Held' = Held /\ Sending' = Sending /\ Answering' = Answering /\ Got' = <<>> /\ Unread' = <<>>
  BY <1>1 DEF Held, InHand, Sending, Answering, Got, Unread
<1>3. Sending = <<>> /\ buf_out = <<>> /\ Answering = <<>> /\ Reads(Asked) = <<>> /\ Got = <<>>
  <2> DEFINE a == Got
             b == Sending
             d == Answering
             r == Reads(Asked)
  <2>1. a \in Seq(Nat) /\ b \in Seq(Nat) /\ buf_out \in Seq(Nat) /\ d \in Seq(Nat) /\ r \in Seq(Nat)
    BY AnswerTypes
  <2>2. Row(a, b, buf_out, d, r) = <<>>
    BY <1>1 DEF InReads
  <2> HIDE DEF a, b, d, r
  <2>3. a = <<>> /\ b = <<>> /\ buf_out = <<>> /\ d = <<>> /\ r = <<>>
    BY <2>1, <2>2, RowEmpty
  <2> QED BY <2>3 DEF a, b, d, r
<1>4. Reads(Held) = <<>> /\ Reads(Unread) = <<>>
  BY <1>3, AnswerTypes, ReadsOfTwo DEF Asked
<1>5. Asked' = Held
  BY <1>2, AnswerTypes, ConcatEmptySeq DEF Asked
<1>6. InReads'
  BY <1>1, <1>2, <1>3, <1>4, <1>5, EmptySeq, ConcatEmptySeq DEF InReads, Row
<1>7. OthersQuiet'
  <2> SUFFICES ASSUME NEW c \in Conns, c # conn + 1
               PROVE  Reads(in[c]) = <<>>
    BY <1>1 DEF OthersQuiet
  <2>1. c = conn => Reads(in[c]) = <<>>
    BY <1>4 DEF Unread, Conns
  <2> QED BY <2>1 DEF OthersQuiet
<1> QED BY <1>1, <1>2, <1>3, <1>4, <1>6, <1>7 DEF Fresh

LEMMA AskedGrows ==
    ASSUME TypeInv, NetInv, InReads, OthersQuiet, Fresh, NEW op \in Ops, Send(op)
    PROVE  InReads' /\ OthersQuiet' /\ Fresh'
<1> DEFINE e == [n |-> sent', op |-> op]
<1>1. /\ UNCHANGED <<conn, backlog, out, buf_out, spc, hand, sim, done, buf_in>>
      /\ in' = [in EXCEPT ![conn] = Append(@, e)]
      /\ conn \in Conns /\ conn # 0 /\ sent' \in 1 .. MaxCmds /\ in \in [Conns -> Seq(Cmds)]
      /\ waiting' = IF e.op = "read" THEN Append(waiting, e.n) ELSE waiting
  BY AnswerTypes, JtagAssumption
     DEF Send, serverVars, simVars, TypeInv, TypeOK, NetInv
<1>2. e \in Cmds /\ e.n \in Nat
  BY <1>1 DEF Cmds
<1>3. in'[conn] = Append(in[conn], e) /\ \A c \in Conns : c # conn => in'[c] = in[c]
  BY <1>1
<1> HIDE DEF e
<1>4. /\ Held' = Held /\ Sending' = Sending /\ Answering' = Answering /\ Got' = Got
      /\ Unread' = Append(Unread, e) /\ Accepted' = Accepted
  BY <1>1, <1>3 DEF Held, InHand, Sending, Answering, Got, Unread, Accepted
<1>5. Asked' = Append(Asked, e)
  <2> DEFINE h == Held
             u == Unread
  <2>1. h \in Seq(Cmds) /\ u \in Seq(Cmds)
    BY AnswerTypes
  <2>2. Asked' = h \o Append(u, e) /\ Asked = h \o u
    BY <1>4 DEF Asked
  <2> HIDE DEF h, u
  <2> QED BY <1>2, <2>1, <2>2, ConcatAppends
<1>6. Reads(Asked') = IF e.op = "read" THEN Append(Reads(Asked), e.n) ELSE Reads(Asked)
  <2> DEFINE q == Asked
  <2>1. q \in Seq(Cmds)
    BY AnswerTypes
  <2> HIDE DEF q
  <2>2. Reads(Append(q, e)) = IF e.op = "read" THEN Append(Reads(q), e.n) ELSE Reads(q)
    BY <1>2, <2>1, CmdsAreNumbered, ReadsAppend
  <2> QED BY <1>5, <2>2 DEF q
<1>7. InReads'
  <2>1. CASE e.op = "read"
    <3> DEFINE a == Got
               b == Sending
               d == Answering
               r == Reads(Asked)
    <3>1. a \in Seq(Nat) /\ b \in Seq(Nat) /\ buf_out \in Seq(Nat) /\ d \in Seq(Nat) /\ r \in Seq(Nat)
      BY AnswerTypes
    <3>2. waiting = Row(a, b, buf_out, d, r) /\ waiting' = Append(waiting, e.n)
      BY <1>1, <2>1 DEF InReads
    <3>3. InReads' <=> waiting' = Row(a, b, buf_out, d, Append(r, e.n))
      BY <1>1, <1>4, <1>6, <2>1 DEF InReads
    <3> DEFINE x == e.n
    <3>4. x \in Nat
      BY <1>2
    <3> DEFINE w == <<x>>
    <3>5. w \in Seq(Nat)
      BY <3>4
    <3>6. Append(r, x) = Cat(r, w)
      BY <3>1, <3>4, AppendIsConcat DEF Cat
    <3>7. Append(waiting, x) = Cat(waiting, w)
      BY <3>4, AnswerTypes, AppendIsConcat DEF Cat
    <3> HIDE DEF a, b, d, r, w
    <3>8. Row(a, b, buf_out, d, Cat(r, w)) = Cat(Row(a, b, buf_out, d, r), w)
      <4> DEFINE c == buf_out
      <4>1. c \in Seq(Nat)
        BY <3>1
      <4> HIDE DEF c, x
      <4>2. Row(a, b, c, d, Cat(r, w)) = Cat(Row(a, b, c, d, r), w)
        BY <3>1, <3>5, <4>1, RowGrows
      <4> QED BY <4>2 DEF c
    <3> QED BY <3>2, <3>3, <3>6, <3>7, <3>8
  <2>2. CASE e.op # "read"
    BY <1>1, <1>4, <1>6, <2>2 DEF InReads
  <2> QED BY <2>1, <2>2
<1>8. OthersQuiet'
  BY <1>1, <1>3 DEF OthersQuiet
<1>9. Fresh'
  BY <1>1, <1>4 DEF Fresh
<1> QED BY <1>7, <1>8, <1>9

LEMMA FirstTaken ==
    ASSUME TypeInv, NetInv, InReads, OthersQuiet, Fresh, Receive
    PROVE  InReads' /\ OthersQuiet' /\ Fresh'
<1>1. /\ UNCHANGED <<conn, backlog, in, buf_out, spc, hand, sim, done, buf_in>>
      /\ out' = [out EXCEPT ![conn] = Tail(@)] /\ out[conn] # <<>> /\ conn \in Conns /\ conn # 0
      /\ out \in [Conns -> Seq(1 .. MaxCmds)]
      /\ waiting' = IF waiting = <<>> THEN <<>> ELSE Tail(waiting)
  BY AnswerTypes DEF Receive, serverVars, simVars, NetInv, TypeInv, TypeOK
<1>2. /\ Held' = Held /\ Sending' = Sending /\ Answering' = Answering /\ Got # <<>> /\ Got' = Tail(Got)
      /\ Unread' = Unread /\ Accepted' = Accepted
  BY <1>1 DEF Held, InHand, Sending, Answering, Got, Unread, Accepted
<1>3. Asked' = Asked
  BY <1>2 DEF Asked
<1>4. Tail(waiting) = Row(Tail(Got), Sending, buf_out, Answering, Reads(Asked)) /\ waiting # <<>>
  <2> DEFINE a == Got
             b == Sending
             d == Answering
             r == Reads(Asked)
  <2>1. a \in Seq(Nat) /\ b \in Seq(Nat) /\ buf_out \in Seq(Nat) /\ d \in Seq(Nat) /\ r \in Seq(Nat)
    BY AnswerTypes
  <2>2. waiting = Row(a, b, buf_out, d, r) /\ a # <<>>
    BY <1>2 DEF InReads
  <2> DEFINE t == Tail(a)
             w == <<Head(a)>>
  <2>3. t \in Seq(Nat) /\ w \in Seq(Nat)
    BY <2>1, <2>2, HeadAndTail
  <2>4. a = Cat(w, t)
    BY <2>1, <2>2, HeadAndTail DEF Cat
  <2> DEFINE h == Head(a)
             q == Row(t, b, buf_out, d, r)
  <2>5. h \in Nat /\ w = <<h>>
    BY <2>1, <2>2, HeadAndTail
  <2> HIDE DEF a, b, d, r, t, w, h
  <2>6. waiting = Cat(w, q)
    <3>1. Row(Cat(w, t), b, buf_out, d, r) = Cat(w, Row(t, b, buf_out, d, r))
      <4>1. b \in Seq(Nat) /\ buf_out \in Seq(Nat) /\ d \in Seq(Nat) /\ r \in Seq(Nat)
        BY <2>1
      <4> QED BY <2>3, <4>1, RowMoves
    <3> QED BY <2>2, <2>4, <3>1
  <2>7. q \in Seq(Nat)
    BY <2>1, <2>3, RowType
  <2> HIDE DEF q
  <2>8. Tail(<<h>> \o q) = q /\ <<h>> \o q # <<>>
    BY <2>5, <2>7
  <2> QED BY <2>5, <2>6, <2>8 DEF a, b, d, r, t, q, Cat
<1>5. InReads'
  BY <1>1, <1>2, <1>3, <1>4 DEF InReads
<1>6. OthersQuiet' /\ Fresh'
  BY <1>1, <1>2 DEF OthersQuiet, Fresh
<1> QED BY <1>5, <1>6

LEMMA HandFilled ==
    ASSUME TypeInv, NetInv, InReads, OthersQuiet, Fresh, Read, spc' = "put"
    PROVE  InReads' /\ OthersQuiet' /\ Fresh'
<1>1. /\ UNCHANGED <<conn, backlog, out, buf_out, sim, done, buf_in, cfd, waiting>> /\ spc = "read"
      /\ cfd # None /\ in[cfd] # <<>> /\ hand' = Head(in[cfd]) /\ in' = [in EXCEPT ![cfd] = Tail(@)]
  BY DEF Read, Goto, clientVars, simVars, fdVars
<1>2. /\ cfd \in Conns /\ in[cfd] \in Seq(Cmds) /\ in \in [Conns -> Seq(Cmds)] /\ cfd = Accepted /\ cfd # 0
      /\ buf_in \in Seq(Cmds)
  BY <1>1 DEF TypeInv, TypeOK, NetInv, None
<1>3. in'[cfd] = Tail(in[cfd]) /\ \A c \in Conns : c # cfd => in'[c] = in[c]
  BY <1>1, <1>2
<1> DEFINE t == Tail(in[cfd])
           h == Head(in[cfd])
           q == in[cfd]
<1>4. /\ t \in Seq(Cmds) /\ h \in Cmds /\ <<h>> \in Seq(Cmds) /\ q = <<h>> \o t /\ q \in Seq(Cmds) /\ q # <<>>
  BY <1>1, <1>2, HeadAndTail
<1>5. /\ Sending' = Sending /\ Answering' = Answering /\ Got' = Got /\ Accepted' = Accepted
      /\ Held = buf_in \o <<>> /\ Held' = buf_in \o <<h>>
  BY <1>1 DEF Held, InHand, Sending, Answering, Got, Accepted
<1>6. Held = buf_in
  BY <1>2, <1>5, ConcatEmptySeq
<1>7. CASE cfd = conn
  <2>1. Unread = q /\ Unread' = t
    BY <1>1, <1>2, <1>3, <1>7 DEF Unread
  <2>2. Asked = buf_in \o q /\ Asked' = (buf_in \o <<h>>) \o t
    BY <1>5, <1>6, <2>1 DEF Asked
  <2>3. (buf_in \o <<h>>) \o t = buf_in \o q
    <3> HIDE DEF t, h, q
    <3> DEFINE w == <<h>>
    <3>1. w \in Seq(Cmds) /\ t \in Seq(Cmds) /\ q = w \o t
      BY <1>4
    <3> HIDE DEF w
    <3>2. (buf_in \o w) \o t = buf_in \o q
      BY <1>2, <3>1, ConcatAssociative
    <3> QED BY <3>2 DEF w
  <2>4. InReads'
    BY <1>1, <1>5, <2>2, <2>3 DEF InReads
  <2>5. OthersQuiet'
    BY <1>1, <1>3, <1>7 DEF OthersQuiet
  <2>6. Fresh'
    BY <1>1, <1>2, <1>5, <1>7 DEF Fresh
  <2> QED BY <2>4, <2>5, <2>6
<1>8. CASE cfd # conn
  <2>1. Reads(q) = <<>>
    BY <1>2, <1>8 DEF OthersQuiet
  <2> HIDE DEF t, h, q
  <2>2. Reads(<<h>>) = <<>> /\ Reads(t) = <<>>
    <3> DEFINE w == <<h>>
    <3>1. w \in Seq(Cmds) /\ t \in Seq(Cmds) /\ q = w \o t
      BY <1>4
    <3> HIDE DEF w
    <3>2. Reads(w) = <<>> /\ Reads(t) = <<>>
      BY <2>1, <3>1, ReadsOfTwo
    <3> QED BY <3>2 DEF w
  <2>3. Reads(Held') = Reads(Held)
    <3>1. Reads(buf_in \o <<h>>) = Reads(buf_in) \o <<>>
      BY <1>2, <1>4, <2>2, ReadsOfTwo
    <3>2. Reads(buf_in) \in Seq(Nat)
      BY <1>2, ReadsType
    <3> QED BY <1>5, <1>6, <3>1, <3>2, ConcatEmptySeq
  <2>4. Unread' = Unread /\ Held' \in Seq(Cmds)
    BY <1>1, <1>2, <1>3, <1>4, <1>5, <1>8, AnswerTypes, ConcatProperties DEF Unread, Conns
  <2>5. Reads(Asked') = Reads(Asked)
    <3> DEFINE x == Held
               y == Held'
               u == Unread
    <3>1. x \in Seq(Cmds) /\ y \in Seq(Cmds) /\ u \in Seq(Cmds) /\ Asked = x \o u /\ Asked' = y \o u
          /\ Reads(x) = Reads(y)
      BY <2>3, <2>4, AnswerTypes DEF Asked
    <3> HIDE DEF x, y, u
    <3>2. Reads(x \o u) = Reads(x) \o Reads(u)
      BY <3>1, ReadsOfTwo
    <3>3. Reads(y \o u) = Reads(y) \o Reads(u)
      BY <3>1, ReadsOfTwo
    <3> QED BY <3>1, <3>2, <3>3
  <2>6. InReads'
    BY <1>1, <1>5, <2>5 DEF InReads
  <2>7. OthersQuiet'
    <3>1. Reads(in'[cfd]) = <<>>
      BY <1>3, <2>2 DEF t
    <3> QED BY <1>1, <1>3, <3>1 DEF OthersQuiet
  <2>8. Fresh'
    BY <1>1, <1>5, <2>3 DEF Fresh
  <2> QED BY <2>6, <2>7, <2>8
<1> QED BY <1>7, <1>8

LEMMA OldestExecuted ==
    ASSUME TypeInv, NetInv, InReads, OthersQuiet, Fresh, Tick
    PROVE  InReads' /\ OthersQuiet' /\ Fresh'
<1> DEFINE h == Head(buf_in)
           r == Reads(<<h>>)
<1>1. /\ UNCHANGED <<waiting, conn, backlog, in, out, buf_out, spc, hand>>
      /\ sim = "run" /\ buf_in # <<>> /\ buf_in' = Tail(buf_in) /\ done' = h.n /\ buf_in \in Seq(Cmds)
      /\ sim' = [write |-> "run", read |-> "answer", quit |-> "close"][h.op]
  BY DEF Tick, clientVars, netVars, serverVars, TypeInv, TypeOK
<1>2. h \in Cmds /\ buf_in' \in Seq(Cmds) /\ <<h>> \in Seq(Cmds) /\ buf_in = <<h>> \o buf_in'
  BY <1>1, HeadAndTail
<1>3. h.op \in {"write", "read", "quit"} /\ h.n \in Nat
  BY <1>2, CmdsAreNumbered DEF Cmds, Ops
<1>4. Answering = <<>> /\ Answering' = IF h.op = "read" THEN <<h.n>> ELSE <<>>
  BY <1>1, <1>3 DEF Answering
<1> HIDE DEF h
<1>5. r = Answering' /\ r \in Seq(Nat)
  BY <1>2, <1>4, ReadsOfOne, ReadsType
<1>6. /\ Sending' = Sending /\ Got' = Got /\ Unread' = Unread /\ Accepted' = Accepted
      /\ InHand("put")' = InHand("put")
  BY <1>1 DEF InHand, Sending, Got, Unread, Accepted
<1> DEFINE w == <<h>>
           hp == InHand("put")
           u == Unread
           q == buf_in'
<1>7. w \in Seq(Cmds) /\ hp \in Seq(Cmds) /\ u \in Seq(Cmds) /\ q \in Seq(Cmds)
  BY <1>2, HeldAre, AnswerTypes
<1>8. /\ Held = Cat(Cat(w, q), hp) /\ Held' = Cat(q, hp)
      /\ Asked = Cat(Cat(Cat(w, q), hp), u) /\ Asked' = Cat(Cat(q, hp), u)
  BY <1>2, <1>6 DEF Held, Asked, Cat
<1>9. Reads(w) = r
  OBVIOUS
<1> HIDE DEF w, hp, u, q, r
<1>10. Cat(q, hp) \in Seq(Cmds)
  BY <1>7, CatProperties
<1>11. Cat(Cat(q, hp), u) \in Seq(Cmds)
  BY <1>7, <1>10, CatProperties
<1>12. Held = Cat(w, Held')
  BY <1>7, <1>8, CatProperties
<1>13. Asked = Cat(w, Asked')
  <2>1. Cat(Cat(w, Cat(q, hp)), u) = Cat(w, Cat(Cat(q, hp), u))
    BY <1>7, <1>10, CatProperties
  <2> QED BY <1>8, <1>12, <2>1
<1>14. Reads(Asked) = Cat(r, Reads(Asked')) /\ Reads(Asked') \in Seq(Nat)
  <2> DEFINE x == Asked'
  <2>1. x \in Seq(Cmds) /\ Asked = w \o x
    BY <1>8, <1>11, <1>13 DEF Cat
  <2> HIDE DEF x
  <2>2. Reads(w \o x) = Reads(w) \o Reads(x) /\ Reads(x) \in Seq(Nat)
    BY <1>7, <2>1, ReadsOfTwo, ReadsType
  <2> QED BY <1>9, <2>1, <2>2 DEF Cat, x
<1>15. Reads(Held) = <<>> => Reads(Held') = <<>> /\ r = <<>>
  <2> DEFINE x == Held'
  <2>1. x \in Seq(Cmds) /\ Held = w \o x
    BY <1>8, <1>10, <1>12 DEF Cat
  <2> HIDE DEF x
  <2>2. Reads(w \o x) = <<>> <=> Reads(w) = <<>> /\ Reads(x) = <<>>
    BY <1>7, <2>1, ReadsOfTwo
  <2> QED BY <1>9, <2>1, <2>2 DEF x
<1>16. InReads'
  <2> DEFINE a == Got
             b == Sending
             e == Reads(Asked')
  <2>1. a \in Seq(Nat) /\ b \in Seq(Nat) /\ buf_out \in Seq(Nat) /\ e \in Seq(Nat) /\ r \in Seq(Nat)
    BY <1>5, <1>14, AnswerTypes
  <2>2. waiting = Row(a, b, buf_out, <<>>, Cat(r, e))
    BY <1>4, <1>14 DEF InReads
  <2>3. InReads' <=> waiting = Row(a, b, buf_out, r, e)
    BY <1>1, <1>5, <1>6 DEF InReads
  <2> HIDE DEF a, b, e
  <2>4. Row(a, b, buf_out, <<>>, Cat(r, e)) = Row(a, b, buf_out, r, e)
    BY <2>1, RowMoves
  <2> QED BY <2>2, <2>3, <2>4
<1>17. OthersQuiet'
  BY <1>1 DEF OthersQuiet
<1>18. Fresh'
  BY <1>1, <1>5, <1>6, <1>15 DEF Fresh
<1> QED BY <1>16, <1>17, <1>18

LEMMA AnswerStored ==
    ASSUME TypeInv, NetInv, InReads, OthersQuiet, Fresh, Answer
    PROVE  InReads' /\ OthersQuiet' /\ Fresh'
<1>1. /\ UNCHANGED <<waiting, conn, backlog, in, out, spc, hand, buf_in, done>>
      /\ sim = "answer" /\ sim' = "run" /\ buf_out' = Append(buf_out, done)
  BY DEF Answer, clientVars, netVars, serverVars
<1>2. /\ Sending' = Sending /\ Got' = Got /\ Unread' = Unread /\ Accepted' = Accepted /\ Held' = Held
      /\ Answering = <<done>> /\ Answering' = <<>>
  BY <1>1 DEF Held, InHand, Sending, Got, Unread, Accepted, Answering
<1>3. Asked' = Asked
  BY <1>2 DEF Asked
<1> DEFINE a == Got
           b == Sending
           e == Reads(Asked)
           w == <<done>>
<1>4. a \in Seq(Nat) /\ b \in Seq(Nat) /\ buf_out \in Seq(Nat) /\ e \in Seq(Nat) /\ w \in Seq(Nat) /\ done \in Nat
  BY AnswerTypes
<1>5. buf_out' = Cat(buf_out, w)
  BY <1>1, <1>4, AppendIsConcat DEF Cat
<1>6. waiting = Row(a, b, buf_out, w, e)
  BY <1>2 DEF InReads
<1>7. InReads' <=> waiting = Row(a, b, Cat(buf_out, w), <<>>, e)
  BY <1>1, <1>2, <1>3, <1>5 DEF InReads
<1>8. Answering # <<>>
  BY <1>2
<1> HIDE DEF a, b, e, w
<1>9. Row(a, b, Cat(buf_out, w), <<>>, e) = Row(a, b, buf_out, w, e)
  BY <1>4, RowMoves
<1>10. OthersQuiet' /\ Fresh'
  BY <1>1, <1>2, <1>8 DEF OthersQuiet, Fresh
<1> QED BY <1>6, <1>7, <1>9, <1>10

LEMMA HandDrained ==
    ASSUME TypeInv, NetInv, InReads, OthersQuiet, Fresh, Drain, buf_out # <<>>
    PROVE  InReads' /\ OthersQuiet' /\ Fresh'
<1>1. /\ UNCHANGED <<waiting, conn, backlog, in, out, buf_in, sim, done>>
      /\ spc = "drain" /\ spc' = "send" /\ hand' = [n |-> Head(buf_out), op |-> "answer"]
      /\ buf_out' = Tail(buf_out)
  BY DEF Drain, Goto, clientVars, netVars, simVars
<1>2. /\ Sending = <<>> /\ Sending' = <<Head(buf_out)>> /\ Got' = Got /\ Unread' = Unread
      /\ Accepted' = Accepted /\ Held' = Held /\ Answering' = Answering
  BY <1>1 DEF Held, InHand, Sending, Got, Unread, Accepted, Answering
<1>3. Asked' = Asked
  BY <1>2 DEF Asked
<1> DEFINE a == Got
           d == Answering
           e == Reads(Asked)
           w == <<Head(buf_out)>>
           t == Tail(buf_out)
<1>4. a \in Seq(Nat) /\ d \in Seq(Nat) /\ e \in Seq(Nat)
  BY AnswerTypes
<1>5. t \in Seq(Nat) /\ w \in Seq(Nat) /\ buf_out = Cat(w, t)
  BY AnswerTypes, HeadAndTail DEF Cat
<1>6. waiting = Row(a, <<>>, Cat(w, t), d, e)
  BY <1>2, <1>5 DEF InReads
<1>7. InReads' <=> waiting = Row(a, w, t, d, e)
  BY <1>1, <1>2, <1>3 DEF InReads
<1> HIDE DEF a, d, e, w, t
<1>8. Row(a, <<>>, Cat(w, t), d, e) = Row(a, w, t, d, e)
  <2>1. t \in Seq(Nat) /\ w \in Seq(Nat)
    BY <1>5
  <2> QED BY <1>4, <2>1, RowMoves
<1>9. OthersQuiet' /\ Fresh'
  BY <1>1, <1>2 DEF OthersQuiet, Fresh
<1> QED BY <1>6, <1>7, <1>8, <1>9

LEMMA HandSent ==
    ASSUME TypeInv, NetInv, ClientInv, InReads, OthersQuiet, Fresh, Deliver, spc' # "aborted"
    PROVE  InReads' /\ OthersQuiet' /\ Fresh'
<1>1. /\ UNCHANGED <<waiting, up, conn, backlog, in, buf_in, buf_out, sim, done>>
      /\ spc = "send" /\ cfd \in isOpen /\ hand' = NoByte
  BY DEF Deliver, Goto, clientVars, simVars
<1> DEFINE x == hand.n
           w == <<x>>
           a == Got
           d == Answering
           e == Reads(Asked)
<1>2. Sending = w /\ w # <<>> /\ x \in Nat /\ w \in Seq(Nat)
  <2>1. x \in Nat
    BY <1>1 DEF TypeInv, HandInv, Answers
  <2> QED BY <1>1, <2>1 DEF Sending
<1>3. a \in Seq(Nat) /\ buf_out \in Seq(Nat) /\ d \in Seq(Nat) /\ e \in Seq(Nat)
  BY AnswerTypes
<1>4. waiting = Row(a, w, buf_out, d, e)
  BY <1>2 DEF InReads
<1>5. up
  <2> HIDE DEF a, w, d, e
  <2>1. Row(a, w, buf_out, d, e) = <<>> => w = <<>>
    BY <1>2, <1>3, RowEmpty
  <2> QED BY <1>2, <1>4, <2>1 DEF ClientInv
<1>6. cfd = conn /\ conn \in Conns /\ conn # 0
  <2>1. conn = Accepted
    BY <1>2 DEF Fresh
  <2>2. cfd \in Conns /\ cfd # 0
    BY <1>1 DEF TypeInv, TypeOK, Conns
  <2> QED BY <2>1, <2>2 DEF NetInv, None
<1>7. /\ out' = [out EXCEPT ![cfd] = Append(@, x)] /\ spc' = "drain" /\ UNCHANGED <<isOpen, cfd>>
      /\ out \in [Conns -> Seq(1 .. MaxCmds)]
  BY <1>1, <1>5, <1>6 DEF Deliver, Goto, fdVars, TypeInv, TypeOK
<1>8. /\ Sending' = <<>> /\ Got' = Append(a, x) /\ Unread' = Unread
      /\ Accepted' = Accepted /\ Held' = Held /\ Answering' = Answering
  BY <1>1, <1>6, <1>7 DEF Held, InHand, Sending, Got, Unread, Accepted, Answering
<1>9. Asked' = Asked
  BY <1>8 DEF Asked
<1>10. Append(a, x) = Cat(a, w)
  BY <1>2, <1>3, AppendIsConcat DEF Cat
<1>11. InReads' <=> waiting = Row(Cat(a, w), <<>>, buf_out, d, e)
  BY <1>1, <1>8, <1>9, <1>10 DEF InReads
<1>12. OthersQuiet' /\ Fresh'
  BY <1>1, <1>2, <1>8 DEF OthersQuiet, Fresh
<1> HIDE DEF a, w, d, e
<1>13. Row(Cat(a, w), <<>>, buf_out, d, e) = Row(a, w, buf_out, d, e)
  BY <1>2, <1>3, RowMoves
<1> QED BY <1>4, <1>11, <1>12, <1>13

\* The client never waits for more answers than its window, nor once it is gone.
LEMMA ClientStep ==
    ASSUME TypeInv, AnswerInv, [Next]_vars
    PROVE  ClientInv'
<1>1. waiting \in Seq(Nat) /\ Len(waiting) \in Nat /\ Window \in Nat
  BY AnswerTypes
<1>2. Len(waiting) <= Window /\ (~up => waiting = <<>>)
  BY DEF AnswerInv, ClientInv
<1>3. CASE Connect
  BY <1>2, <1>3 DEF Connect, ClientInv
<1>4. ASSUME NEW op \in Ops, Send(op)
      PROVE  ClientInv'
  <2>1. CASE op = "read"
    <3>1. Len(waiting) < Window /\ waiting' = Append(waiting, sent') /\ up'
      BY <1>4, <2>1 DEF Send
    <3>2. Len(waiting') = Len(waiting) + 1
      BY <1>1, <3>1
    <3> QED BY <1>1, <3>1, <3>2 DEF ClientInv
  <2>2. CASE op # "read"
    BY <1>2, <1>4, <2>2 DEF Send, ClientInv
  <2> QED BY <2>1, <2>2
<1>5. CASE Receive
  <2>1. up' = up /\ up /\ waiting' = IF waiting = <<>> THEN <<>> ELSE Tail(waiting)
    BY <1>5 DEF Receive
  <2>2. Len(waiting') <= Window
    <3>1. CASE waiting = <<>>
      BY <1>2, <2>1, <3>1
    <3>2. CASE waiting # <<>>
      <4>1. waiting' = Tail(waiting) /\ Len(Tail(waiting)) = Len(waiting) - 1
        BY <1>1, <2>1, <3>2
      <4> QED BY <1>1, <1>2, <4>1
    <3> QED BY <3>1, <3>2
  <2> QED BY <2>1, <2>2 DEF ClientInv
<1>6. CASE UNCHANGED clientVars
  BY <1>2, <1>6 DEF clientVars, ClientInv
<1>7. CASE Server \/ Simulation \/ UNCHANGED vars
  <2>1. UNCHANGED clientVars
    BY <1>7 DEF Server, Select, Accept, IsSet, Read, Put, Serve, Drain, Deliver, End, Simulation, Commands,
       Tick, Answer, CloseSocket, Forget, Finish, Join, vars
  <2> QED BY <1>6, <2>1
<1> QED BY <1>3, <1>4, <1>5, <1>7 DEF Next, Process, Client

LEMMA AnswerStep ==
    ASSUME TypeInv, NetInv, AnswerInv, [Next]_vars
    PROVE  AnswerInv'
<1>1. ClientInv'
  BY ClientStep
<1>2. SUFFICES ASSUME spc' # "aborted"
               PROVE  InReads' /\ OthersQuiet' /\ Fresh'
  BY <1>1 DEF AnswerInv
<1>3. spc # "aborted"
  <2>1. Client \/ UNCHANGED vars => spc' = spc
    BY DEF Client, Connect, Send, Receive, vars, serverVars
  <2> QED BY <1>2, <2>1 DEF Next, Process
<1>4. InReads /\ OthersQuiet /\ Fresh /\ ClientInv
  BY <1>3 DEF AnswerInv
<1>5. CASE Client
  BY <1>4, <1>5, ConnIsNew, AskedGrows, FirstTaken DEF Client
<1>6. CASE Put
  <2>1. /\ UNCHANGED <<waiting, conn, in, out, buf_out, sim, done, backlog>> /\ spc = "put" /\ spc' = "read"
        /\ buf_in' = Append(buf_in, hand)
    BY <1>6 DEF Put, Goto, clientVars, netVars, simVars
  <2>2. UNCHANGED <<Answering, Accepted, spc = "send">>
    BY <2>1 DEF Answering, Accepted
  <2>3. Held = buf_in \o <<hand>> /\ Held' = buf_in' \o <<>>
    BY <2>1 DEF Held, InHand
  <2>4. hand \in Cmds /\ buf_in \in Seq(Cmds)
    BY <2>1 DEF TypeInv, TypeOK, HandInv
  <2>5. Append(buf_in, hand) = buf_in \o <<hand>> /\ Append(buf_in, hand) \in Seq(Cmds)
    BY <2>4, AppendIsConcat, AppendProperties
  <2>6. buf_in' \o <<>> = buf_in'
    BY <2>1, <2>5, ConcatEmptySeq
  <2>7. Held' = Held
    BY <2>1, <2>3, <2>5, <2>6
  <2> QED BY <1>4, <2>1, <2>2, <2>7, AnswerQuiet
<1>7. CASE Read /\ spc' # "put"
  <2>1. /\ UNCHANGED <<waiting, conn, in, out, buf_in, buf_out, sim, done, backlog>> /\ spc = "read"
        /\ spc' \notin {"put", "send"}
    BY <1>7 DEF Read, Goto, clientVars, simVars
  <2>2. UNCHANGED <<Answering, Accepted, spc = "send", Held>>
    BY <1>7, <2>1 DEF Answering, Accepted, Held, InHand
  <2> QED BY <1>4, <2>1, <2>2, AnswerQuiet
<1>8. CASE Accept
  <2>1. /\ UNCHANGED <<waiting, conn, in, out, buf_in, buf_out, sim, done>> /\ spc = "accept"
        /\ spc' \notin {"put", "send"}
    BY <1>8 DEF Accept, Goto, clientVars, simVars
  <2>2. UNCHANGED <<Answering, spc = "send", Held>>
    BY <2>1 DEF Answering, Held, InHand
  <2>3. Accepted' # conn' => Accepted # conn
    <3>1. CASE backlog' = backlog
      BY <2>1, <3>1 DEF Accepted
    <3>2. CASE backlog # <<>>
      <4>1. Len(backlog) \in Nat /\ Len(backlog) # 0 /\ conn \in Nat
        BY <3>2, AnswerTypes DEF TypeInv, TypeOK
      <4> QED BY <4>1 DEF Accepted
    <3> QED BY <1>8, <3>1, <3>2 DEF Accept
  <2> QED BY <1>4, <2>1, <2>2, <2>3, AnswerQuiet
<1>9. CASE Select \/ IsSet \/ Serve \/ End \/ (Drain /\ buf_out = <<>>)
  <2>1. /\ UNCHANGED <<waiting, conn, in, out, buf_in, buf_out, sim, done, backlog>>
        /\ spc \notin {"put", "send"} /\ spc' \notin {"put", "send"}
    BY <1>9 DEF Select, IsSet, Serve, Drain, End, Goto, clientVars, netVars, simVars
  <2>2. UNCHANGED <<Answering, Accepted, spc = "send", Held>>
    BY <2>1 DEF Answering, Accepted, Held, InHand
  <2> QED BY <1>4, <2>1, <2>2, AnswerQuiet
<1>10. CASE CloseSocket \/ Forget \/ Finish \/ Join \/ UNCHANGED vars
  <2>1. /\ UNCHANGED <<waiting, conn, in, out, buf_in, buf_out, done, backlog, spc, hand>>
        /\ \/ sim' = sim
           \/ sim # "answer" /\ sim' # "answer"
    BY <1>10 DEF CloseSocket, Forget, Finish, Join, vars, clientVars, netVars, simVars, serverVars
  <2>2. UNCHANGED <<Answering, Accepted, spc = "send", Held>>
    BY <2>1 DEF Answering, Accepted, Held, InHand
  <2> QED BY <1>4, <2>1, <2>2, AnswerQuiet
<1>11. CASE (Read /\ spc' = "put") \/ Tick \/ Answer \/ (Drain /\ buf_out # <<>>) \/ Deliver
  BY <1>2, <1>4, <1>11, HandFilled, OldestExecuted, AnswerStored, HandDrained, HandSent
<1> QED BY <1>5, <1>6, <1>7, <1>8, <1>9, <1>10, <1>11
    DEF Next, Process, Server, Simulation, Commands

\* The client's window leaves room in buf_out for the answer to every read.
WindowFits == Window <= BufSize - 1

LEMMA RoomFor ==
    ASSUME TypeInv, AnswerInv, spc # "aborted", WindowFits
    PROVE  SimNeverBlocks
<1> SUFFICES ASSUME sim = "answer"
             PROVE  Len(buf_out) < BufSize - 1
  BY DEF SimNeverBlocks, HasRoom
<1> DEFINE a == Got
           b == Sending
           d == Answering
           e == Reads(Asked)
<1>1. a \in Seq(Nat) /\ b \in Seq(Nat) /\ buf_out \in Seq(Nat) /\ d \in Seq(Nat) /\ e \in Seq(Nat)
  BY AnswerTypes
<1>2. d = <<done>> /\ waiting = Row(a, b, buf_out, d, e) /\ Len(waiting) <= Window
  BY DEF Answering, AnswerInv, InReads, ClientInv
<1>3. Len(d) = 1
  BY <1>2
<1> HIDE DEF a, b, d, e
<1>4. Len(waiting) = Len(a) + Len(b) + Len(buf_out) + Len(d) + Len(e)
  <2>1. Len(Row(a, b, buf_out, d, e)) = Len(a) + Len(b) + Len(buf_out) + Len(d) + Len(e)
    BY <1>1, RowType
  <2> QED BY <1>2, <2>1
<1>5. Len(a) \in Nat /\ Len(b) \in Nat /\ Len(buf_out) \in Nat /\ Len(e) \in Nat
  BY <1>1
<1>6. Window \in Nat /\ BufSize \in Nat
  BY AnswerTypes
<1> QED BY <1>2, <1>3, <1>4, <1>5, <1>6 DEF WindowFits

\* An assertion that fails stops the simulation where it is.
RoomInv == spc = "aborted" => SimNeverBlocks

LEMMA RoomStep ==
    ASSUME TypeInv, AnswerInv, RoomInv, [Next]_vars, WindowFits
    PROVE  RoomInv'
<1> SUFFICES ASSUME spc' = "aborted"
             PROVE  SimNeverBlocks'
  BY DEF RoomInv
<1>1. SimNeverBlocks
  BY RoomFor DEF RoomInv
<1>2. UNCHANGED <<sim, buf_out>>
  BY DEF Next, Process, Client, Connect, Send, Receive, Server, Select, Accept, IsSet, Read, Put, Serve,
         Drain, Deliver, End, Goto, Simulation, Commands, Tick, Answer, CloseSocket, Forget, Finish, Join,
         vars, simVars, serverVars
<1> QED BY <1>1, <1>2 DEF SimNeverBlocks, HasRoom

LEMMA AnswerImplies == TypeInv /\ NetInv /\ AnswerInv => AnswersInOrder
<1> SUFFICES ASSUME TypeInv, NetInv, AnswerInv, up, spc # "aborted"
             PROVE  waiting = Answered \o Reads(Held \o in[conn])
  BY DEF AnswersInOrder
<1>1. conn # 0
  BY DEF NetInv
<1>2. Got = out[conn] /\ Asked = Held \o in[conn]
  BY <1>1 DEF Got, Asked, Unread
<1>3. waiting = Row(Got, Sending, buf_out, Answering, Reads(Asked))
  BY DEF AnswerInv, InReads
<1> QED BY <1>2, <1>3 DEF Row, Cat, Answered, Sending, Answering

\* Where answers are: the client's outstanding reads are, oldest first, the answers on
\* its connection, in the hand of the socket thread, in buf_out, the one the simulation
\* has ready, and the reads among the commands that are still to be executed; only its
\* latest connection carries any.
THEOREM JtagAnswers == Spec => [](TypeInv /\ NetInv /\ AnswerInv)
<1>1. Init => TypeInv /\ NetInv /\ AnswerInv
  BY TypeInit, NetInit, AnswerInit
<1>2. TypeInv /\ NetInv /\ AnswerInv /\ [Next]_vars => TypeInv' /\ NetInv' /\ AnswerInv'
  BY TypeStep, NetStep, AnswerStep
<1> QED BY <1>1, <1>2, PTL DEF Spec

\* tcp_server_write and get_byte lose no answer, double none and reorder none.
THEOREM JtagAnswersInOrder == Spec => []AnswersInOrder
<1>1. TypeInv /\ NetInv /\ AnswerInv => AnswersInOrder
  BY AnswerImplies
<1> QED BY <1>1, JtagAnswers, PTL

\* tcp_server_write finds room for its byte at the first attempt, when the client keeps
\* no more reads outstanding than buf_out holds.
THEOREM JtagSimNeverBlocks ==
    ASSUME WindowFits
    PROVE  Spec => []SimNeverBlocks
<1>1. Init => RoomInv
  BY DEF Init, RoomInv
<1>2. TypeInv /\ AnswerInv /\ RoomInv /\ [Next]_vars => RoomInv'
  BY WindowFits, RoomStep
<1>3. TypeInv /\ AnswerInv /\ RoomInv => SimNeverBlocks
  BY WindowFits, RoomFor DEF RoomInv
<1> QED BY <1>1, <1>2, <1>3, JtagAnswers, PTL DEF Spec

-------------------------------------------------------------------------------
(* The byte buffer of the two queues, for every BUFSIZE_BYTE and every build: *)
(* whatever the order of the accesses, and however often a pointer is stored  *)
(* or loaded, until a check looks at a pointer in the middle of an update     *)
(* bytes come out in order, the writer keeps off the cell being read, and the *)
(* buffer is a queue of bytes.                                                *)

\* The empty buffer.
LEMMA InitStep == ASSUME BufInit PROVE IInv
<1> USE BufAssumption
<1>0. torn \in BOOLEAN  BY DEF BufInit
<1>1. BufTypeOK  BY <1>0 DEF BufInit, BufTypeOK, Cells
<1>2. Seat = 0 /\ Free = 0  BY DEF BufInit, Seat, Free, Wrapped
<1>3. PointersAgree /\ BytesStored
  BY <1>2 DEF BufInit, PointersAgree, BytesStored, Cells
<1>4. WriterHasRoom /\ ReaderHasByte
  BY <1>2 DEF BufInit, WriterHasRoom, ReaderHasByte, SeenBefore
<1> QED  BY <1>1, <1>3, <1>4 DEF IInv, Whole

\* Where the oldest byte is, and where the next one goes.
LEMMA SeatCell ==
    ASSUME BufTypeOK
    PROVE  /\ Seat \in Cells /\ Seat = IF rptr = BUFSIZE_BYTE THEN 0 ELSE rptr
           /\ Free \in Cells /\ Free = IF wptr = BUFSIZE_BYTE THEN 0 ELSE wptr
BY BufAssumption DEF Seat, Free, Wrapped, Cells, BufTypeOK

\* Each pointer is within the array whenever its own thread uses it.
LEMMA BufTypeStep == ASSUME BufTypeOK, [BufNext]_bufVars PROVE BufTypeOK'
<1> USE BufAssumption DEF BufTypeOK
<1>1. CASE PutCompare  BY <1>1 DEF PutCompare, readerVars
<1>2. CASE PutSubtract
  <2>1. wptr \in Cells  BY <1>2 DEF PutSubtract, Cells
  <2>2. torn' \in BOOLEAN /\ wat' \in Cells /\ wpc' \in {"check", "store", "bump"}
        /\ (wpc' = "store" => StoreFirst)
    BY <1>2, <2>1 DEF PutSubtract, LapBetween
  <2> QED  BY <1>2, <2>1, <2>2 DEF PutSubtract, readerVars, Cells
<1>3. CASE PutStore
  <2>1. puts \in Nat /\ puts + 1 \in Nat  OBVIOUS
  <2>2. buf' \in [Cells -> Nat]  BY <1>3, <2>1 DEF PutStore
  <2>3. wptr = BUFSIZE_BYTE => ~StoreFirst  BY <1>3 DEF PutStore
  <2> QED  BY <1>3, <2>2, <2>3 DEF PutStore, readerVars
<1>4. CASE PutBump
  <2>1. wptr \in Cells  BY <1>4 DEF PutBump, Cells
  <2>2. wptr' \in 0 .. BUFSIZE_BYTE
    BY <1>4, <2>1 DEF PutBump, Bumped, Wrapped, Cells
  <2> QED  BY <1>4, <2>1, <2>2 DEF PutBump, readerVars
<1>5. CASE PutWrap
  <2>1. wptr' \in Cells  BY <1>5 DEF PutWrap, Wrapped, Cells
  <2> QED  BY <1>5, <2>1 DEF PutWrap, readerVars, Cells
<1>6. CASE GetCheck
  <2>1. rptr \in Cells  BY <1>6 DEF GetCheck, Cells
  <2>2. torn' \in BOOLEAN  BY <1>6 DEF GetCheck, HalfPut
  <2> QED  BY <1>6, <2>1, <2>2 DEF GetCheck, writerVars, Cells
<1>7. CASE GetLoad
  <2>1. rptr = BUFSIZE_BYTE => ~LoadFirst  BY <1>7 DEF GetLoad
  <2> QED  BY <1>7, <2>1 DEF GetLoad, writerVars
<1>8. CASE GetBump
  <2>1. rptr \in Cells  BY <1>8 DEF GetBump, Cells
  <2>2. rptr' \in 0 .. BUFSIZE_BYTE
    BY <1>8, <2>1 DEF GetBump, Bumped, Wrapped, Cells
  <2>3. gets' \in Nat  BY <1>8 DEF GetBump
  <2> QED  BY <1>8, <2>2, <2>3 DEF GetBump, writerVars
<1>9. CASE GetWrap
  <2>1. rptr' \in Cells  BY <1>9 DEF GetWrap, Wrapped, Cells
  <2> QED  BY <1>9, <2>1 DEF GetWrap, writerVars, Cells
<1>10. CASE UNCHANGED bufVars
  BY <1>10 DEF bufVars, writerVars, readerVars
<1> QED
  BY <1>1, <1>2, <1>3, <1>4, <1>5, <1>6, <1>7, <1>8, <1>9, <1>10
     DEF BufNext, Writer, Reader

\* What is torn stays torn.
LEMMA TornStep == ASSUME [BufNext]_bufVars, ~torn', BufTypeOK PROVE ~torn
BY DEF BufNext, Writer, Reader, bufVars, BufTypeOK, PutCompare, PutSubtract, PutStore,
   PutBump, PutWrap, GetCheck, GetLoad, GetBump, GetWrap

\* The writer notes what rptr is, as seen from wptr.
LEMMA PutCompareStep == ASSUME BufTypeOK, Whole, PutCompare PROVE Whole'
<1> USE BufAssumption DEF Whole, PutCompare, readerVars
<1>1. Seat' = Seat /\ Free' = Free  BY DEF Seat, Free, Wrapped
<1>2. \A c \in Cells : Byte(c)' = Byte(c)  BY DEF Byte
<1>3. PointersAgree' /\ BytesStored'  BY <1>1, <1>2 DEF PointersAgree, BytesStored
<1>4. wptr \in Cells  BY DEF BufTypeOK, Cells
<1>5. WriterHasRoom'  BY <1>4 DEF WriterHasRoom, SeenBefore, BufTypeOK, Cells
<1>6. ReaderHasByte'  BY <1>1 DEF ReaderHasByte
<1> QED  BY <1>3, <1>5, <1>6

\* FullAt tells the writer there is room, even while rptr is one past the end, and
\* however old the rptr is that it goes by, unless it compared it there and subtracts it
\* here.
LEMMA PutSubtractStep == ASSUME BufTypeOK, Whole, PutSubtract, ~torn' PROVE Whole'
<1> USE BufAssumption DEF Whole, readerVars
<1>1. Seat' = Seat /\ Free' = Free  BY DEF PutSubtract, Seat, Free, Wrapped
<1>2. \A c \in Cells : Byte(c)' = Byte(c)  BY DEF PutSubtract, Byte
<1>3. PointersAgree' /\ BytesStored'
  BY <1>1, <1>2 DEF PutSubtract, PointersAgree, BytesStored
<1>4. ReaderHasByte'  BY <1>1 DEF PutSubtract, ReaderHasByte
<1>5. WriterHasRoom'
  <2> DEFINE r == IF Reread THEN rptr ELSE seen
  <2>1. /\ wptr \in Cells /\ Seat \in Cells /\ r \in 0 .. BUFSIZE_BYTE
        /\ Seat = IF rptr = BUFSIZE_BYTE THEN 0 ELSE rptr
        /\ rptr \in 0 .. BUFSIZE_BYTE /\ seen \in 0 .. BUFSIZE_BYTE
    BY SeatCell DEF PutSubtract, BufTypeOK, Cells
  <2>2. CASE FullAt(r)  BY <2>2 DEF PutSubtract, WriterHasRoom, SeenBefore
  <2>3. CASE ~FullAt(r)
    <3>1. /\ wat' = wptr /\ wpc' = IF StoreFirst THEN "store" ELSE "bump"
          /\ ~LapBetween(r) /\ SeenBefore /\ puts < MaxBytes /\ wpc \in {"ahead", "behind"}
      BY <2>3 DEF PutSubtract, WriterHasRoom
    <3>2. RoomAt(wptr)
      <4>1. CASE wpc = "ahead"  BY <2>1, <2>3, <3>1, <4>1 DEF FullAt, SeenBefore, RoomAt, Cells
      <4>2. CASE wpc = "behind" /\ Reread
        BY <2>1, <2>3, <3>1, <4>2 DEF FullAt, LapBetween, SeenBefore, RoomAt, Cells
      <4>3. CASE wpc = "behind" /\ ~Reread
        BY <2>1, <2>3, <3>1, <4>3 DEF FullAt, SeenBefore, RoomAt, Cells
      <4> QED  BY <3>1, <4>1, <4>2, <4>3
    <3>3. RoomAt(wptr)'  BY <1>1, <3>2 DEF PutSubtract, RoomAt
    <3> QED  BY <3>1, <3>3 DEF PutSubtract, WriterHasRoom, SeenBefore
  <2> QED  BY <2>2, <2>3
<1> QED  BY <1>3, <1>4, <1>5

\* The byte goes into the spare cell, or into that of the newest byte, which the reader
\* is not at: no other byte in the ring, and not the one the reader may be loading.
LEMMA PutStoreStep == ASSUME BufTypeOK, Whole, PutStore PROVE Whole'
<1> USE BufAssumption
<1>0. /\ UNCHANGED <<wptr, rptr, wat, puts, seen, rpc, rat, dat, gets>> /\ wpc = "store"
      /\ buf' = [buf EXCEPT ![wat] = IF StoreFirst THEN puts + 1 ELSE puts]
      /\ wpc' = IF StoreFirst THEN "bump" ELSE "wrap"
      /\ PointersAgree /\ BytesStored /\ WriterHasRoom /\ ReaderHasByte
  BY DEF Whole, PutStore, readerVars
<1>1. Seat' = Seat /\ Free' = Free  BY <1>0 DEF Seat, Free, Wrapped
<1>2. /\ Seat \in Cells /\ Seat = IF rptr = BUFSIZE_BYTE THEN 0 ELSE rptr
      /\ Free \in Cells /\ Free = IF wptr = BUFSIZE_BYTE THEN 0 ELSE wptr
  BY SeatCell
<1>3. /\ buf \in [Cells -> Nat] /\ wat \in Cells /\ rat \in Cells
      /\ puts \in Nat /\ gets \in Nat
  BY DEF BufTypeOK
<1>4. PointersAgree'  BY <1>0, <1>1 DEF PointersAgree
<1>5. /\ StoreFirst => wat = wptr /\ wat = Free /\ RoomAt(wat) /\ puts < MaxBytes
      /\ ~StoreFirst => Free = Wrapped(wat + 1) /\ Free # Seat
  BY <1>0, <1>2, <1>3 DEF WriterHasRoom, Cells
<1>6. BytesStored'
  <2>1. CASE StoreFirst
    <3>1. \A c \in Cells : c # Free => Byte(c)' = Byte(c)
      BY <1>0, <1>3, <1>5, <2>1 DEF Byte
    <3> SUFFICES ASSUME NEW c \in Cells
                 PROVE  /\ c >= Seat /\ (c < Free \/ Free < Seat)
                             => Byte(c)' = gets + 1 + (c - Seat)
                        /\ c < Free /\ Free < Seat
                             => Byte(c)' = gets + 1 + (c - Seat) + BUFSIZE_BYTE
      BY <1>0, <1>1 DEF BytesStored
    <3>2. /\ c >= Seat /\ (c < Free \/ Free < Seat) => Byte(c) = gets + 1 + (c - Seat)
          /\ c < Free /\ Free < Seat => Byte(c) = gets + 1 + (c - Seat) + BUFSIZE_BYTE
      BY <1>0 DEF BytesStored
    <3>3. CASE c = Free
      <4>1. Seat \in Int /\ Free \in Int  BY <1>2 DEF Cells
      <4> QED  BY <3>3, <4>1
    <3>4. CASE c # Free
      <4>1. Byte(c)' = Byte(c)  BY <3>1, <3>4
      <4> QED  BY <3>2, <4>1
    <3> QED  BY <3>3, <3>4
  <2>2. CASE ~StoreFirst
    <3>1. \A c \in Cells : Byte(c)' = Byte(c)
      BY <1>0, <1>3, <2>2 DEF Byte
    <3> QED  BY <1>0, <1>1, <3>1 DEF BytesStored
  <2> QED  BY <2>1, <2>2
<1>7. WriterHasRoom'  BY <1>0, <1>1, <1>3, <1>5 DEF WriterHasRoom, RoomAt, SeenBefore
<1>8. ASSUME rpc = "load", ~LoadFirst PROVE buf'[rat] = gets
  <2>1. buf[rat] = gets /\ (rat + 1 = Seat \/ (rat = BUFSIZE_BYTE - 1 /\ Seat = 0))
    BY <1>0, <1>8 DEF ReaderHasByte
  <2>2. wat # rat
    <3>1. CASE StoreFirst  BY <1>5, <2>1, <3>1 DEF RoomAt
    <3>2. CASE ~StoreFirst
      <4>1. Wrapped(wat + 1) # Seat  BY <1>5, <3>2
      <4>2. rat \in 0 .. BUFSIZE_BYTE - 1 /\ Seat \in 0 .. BUFSIZE_BYTE - 1
        BY <1>2, <1>3 DEF Cells
      <4>3. Wrapped(rat + 1) = Seat  BY <2>1, <4>2 DEF Wrapped
      <4> QED  BY <4>1, <4>3
    <3> QED  BY <3>1, <3>2
  <2> QED  BY <1>0, <1>3, <2>1, <2>2
<1>9. ReaderHasByte'  BY <1>0, <1>1, <1>8 DEF ReaderHasByte
<1> QED  BY <1>4, <1>6, <1>7, <1>9 DEF Whole

\* The byte just stored, or the one about to be, becomes the newest of the ring.
LEMMA PutBumpStep == ASSUME BufTypeOK, Whole, PutBump PROVE Whole'
<1> USE BufAssumption
<1>0. /\ UNCHANGED <<rptr, wat, seen, rpc, rat, dat, gets, buf>> /\ wpc = "bump"
      /\ wptr' = Bumped(wptr, PutTwice) /\ puts' = puts + 1
      /\ wpc' = IF StoreFirst THEN "wrap" ELSE "store"
      /\ PointersAgree /\ BytesStored /\ WriterHasRoom /\ ReaderHasByte
  BY DEF Whole, PutBump, readerVars
<1>1. /\ wptr \in Cells /\ Free = wptr /\ Seat \in Cells /\ Seat' = Seat
      /\ Seat = IF rptr = BUFSIZE_BYTE THEN 0 ELSE rptr
      /\ rptr \in 0 .. BUFSIZE_BYTE /\ puts \in Nat /\ gets \in Nat
  BY <1>0, SeatCell DEF BufTypeOK, Cells, Seat
<1>2. Free' = (IF wptr = BUFSIZE_BYTE - 1 THEN 0 ELSE wptr + 1) /\ Free' \in Cells
  BY <1>0, <1>1 DEF Free, Bumped, Wrapped, Cells
<1>3. /\ wat = wptr /\ wptr + 1 # Seat /\ ~(wptr = BUFSIZE_BYTE - 1 /\ Seat = 0)
      /\ puts < MaxBytes
  BY <1>0 DEF WriterHasRoom, RoomAt
<1>4. /\ Free >= Seat => puts = gets + (Free - Seat)
      /\ Free < Seat => puts = gets + (Free - Seat) + BUFSIZE_BYTE
  BY <1>0 DEF PointersAgree
<1>5. PointersAgree'
  <2>1. puts' = puts + 1 /\ gets' = gets  BY <1>0
  <2> QED  BY <1>1, <1>2, <1>3, <1>4, <2>1 DEF PointersAgree, Cells
<1>6. BytesStored'
  <2>1. \A c \in Cells : c # wptr => Byte(c)' = Byte(c)
    BY <1>0, <1>1, <1>3 DEF Byte
  <2>2. \A c \in Cells : c = wptr => Byte(c)' = puts + 1
    <3>1. CASE StoreFirst
      <4>1. buf[wptr] = puts + 1  BY <1>0, <3>1 DEF WriterHasRoom
      <4> QED  BY <1>0, <3>1, <4>1 DEF Byte
    <3>2. CASE ~StoreFirst  BY <1>0, <1>3, <3>2 DEF Byte
    <3> QED  BY <3>1, <3>2
  <2> SUFFICES ASSUME NEW c \in Cells
               PROVE  /\ c >= Seat /\ (c < Free' \/ Free' < Seat)
                           => Byte(c)' = gets + 1 + (c - Seat)
                      /\ c < Free' /\ Free' < Seat
                           => Byte(c)' = gets + 1 + (c - Seat) + BUFSIZE_BYTE
    BY <1>0, <1>1 DEF BytesStored
  <2>3. /\ c >= Seat /\ (c < Free \/ Free < Seat) => Byte(c) = gets + 1 + (c - Seat)
        /\ c < Free /\ Free < Seat => Byte(c) = gets + 1 + (c - Seat) + BUFSIZE_BYTE
    BY <1>0 DEF BytesStored
  <2>4. CASE c = wptr
    BY <1>1, <1>2, <1>3, <1>4, <2>2, <2>4 DEF Cells
  <2>5. CASE c # wptr
    BY <1>1, <1>2, <1>3, <2>1, <2>3, <2>5 DEF Cells
  <2> QED  BY <2>4, <2>5
<1>7. WriterHasRoom'
  <2>1. Free' = Wrapped(wat + 1) /\ Free' # Seat
    BY <1>1, <1>2, <1>3 DEF Wrapped, Cells
  <2> QED  BY <1>0, <1>1, <2>1 DEF WriterHasRoom, SeenBefore
<1>8. ASSUME rpc = "bump" \/ (rpc = "load" /\ LoadFirst) PROVE rptr # Free' /\ rptr # wat
  <2>1. rptr # Free  BY <1>0, <1>8 DEF ReaderHasByte
  <2>2. rptr \in Cells  BY <1>8 DEF BufTypeOK, Cells
  <2> QED  BY <1>1, <1>2, <1>3, <2>1, <2>2 DEF Cells
<1>9. ReaderHasByte'  BY <1>0, <1>1, <1>8 DEF ReaderHasByte
<1> QED  BY <1>5, <1>6, <1>7, <1>9 DEF Whole

\* The cell of the next put does not move.
LEMMA PutWrapStep == ASSUME BufTypeOK, Whole, PutWrap PROVE Whole'
<1> USE BufAssumption DEF Whole, PutWrap, readerVars
<1>1. Seat' = Seat  BY DEF Seat, Wrapped
<1>2. Free' = Free  BY DEF Free, Wrapped, BufTypeOK
<1>3. \A c \in Cells : Byte(c)' = Byte(c)  BY DEF Byte
<1>4. PointersAgree' /\ BytesStored'
  BY <1>1, <1>2, <1>3 DEF PointersAgree, BytesStored
<1>5. WriterHasRoom' /\ ReaderHasByte'
  BY <1>1, <1>2 DEF WriterHasRoom, ReaderHasByte, SeenBefore
<1> QED  BY <1>4, <1>5

\* Empty tells the reader there is a byte at rptr, unless its put is half done.
LEMMA GetCheckStep == ASSUME BufTypeOK, Whole, GetCheck, ~torn' PROVE Whole'
<1> USE BufAssumption DEF Whole, GetCheck, writerVars
<1>1. /\ Seat' = Seat /\ Free' = Free /\ rptr \in Cells
      /\ Free = IF wptr = BUFSIZE_BYTE THEN 0 ELSE wptr
  BY SeatCell DEF Seat, Free, Wrapped, BufTypeOK, Cells
<1>2. rptr # Free /\ ~(wpc = "store" /\ ~StoreFirst /\ rptr = wat)
  BY <1>1 DEF Empty, HalfPut, BufTypeOK
<1>3. \A c \in Cells : Byte(c)' = Byte(c)  BY DEF Byte
<1>4. PointersAgree' /\ BytesStored'
  BY <1>1, <1>3 DEF PointersAgree, BytesStored
<1>5. WriterHasRoom'  BY <1>1 DEF WriterHasRoom, RoomAt, SeenBefore
<1>6. ReaderHasByte'  BY <1>1, <1>2 DEF ReaderHasByte
<1> QED  BY <1>4, <1>5, <1>6

\* The oldest byte is in its cell.
LEMMA OldestByte ==
    ASSUME BufTypeOK, Whole, rptr \in Cells, rptr # Free,
           ~(wpc = "store" /\ ~StoreFirst /\ rptr = wat)
    PROVE  buf[rptr] = gets + 1 /\ gets < puts /\ gets < MaxBytes
<1> USE BufAssumption DEF Whole
<1>1. Seat = rptr /\ Free \in Cells /\ puts \in Nat /\ gets \in Nat
  BY SeatCell DEF BufTypeOK, Cells
<1>2. Byte(rptr) = buf[rptr]  BY DEF Byte
<1>3. rptr < Free \/ Free < rptr  BY <1>1 DEF Cells
<1>4. Byte(rptr) = gets + 1 + (rptr - Seat)  BY <1>1, <1>3 DEF BytesStored, Cells
<1> QED  BY <1>1, <1>2, <1>3, <1>4 DEF PointersAgree, BufTypeOK, Cells

\* The byte at the cell is the next one, whether rptr has moved or not.
LEMMA GetLoadStep == ASSUME BufTypeOK, Whole, GetLoad PROVE Whole'
<1> USE BufAssumption DEF Whole, GetLoad, writerVars
<1>1. Seat' = Seat /\ Free' = Free  BY DEF Seat, Free, Wrapped
<1>2. \A c \in Cells : Byte(c)' = Byte(c)  BY DEF Byte
<1>3. PointersAgree' /\ BytesStored'
  BY <1>1, <1>2 DEF PointersAgree, BytesStored
<1>4. WriterHasRoom'  BY <1>1 DEF WriterHasRoom, RoomAt, SeenBefore
<1>5. ReaderHasByte'
  <2>1. CASE LoadFirst
    <3>1. rptr # Free /\ rat = rptr /\ rptr \in Cells
          /\ ~(wpc = "store" /\ ~StoreFirst /\ rptr = wat)
      BY <2>1 DEF ReaderHasByte, BufTypeOK
    <3>2. dat' = gets + 1  BY <3>1, OldestByte
    <3> QED  BY <1>1, <2>1, <3>1, <3>2 DEF ReaderHasByte
  <2>2. CASE ~LoadFirst  BY <1>1, <2>2 DEF ReaderHasByte
  <2> QED  BY <2>1, <2>2
<1> QED  BY <1>3, <1>4, <1>5

\* The oldest byte leaves the ring.
LEMMA GetBumpStep == ASSUME BufTypeOK, Whole, GetBump PROVE Whole'
<1> USE BufAssumption
<1>0. /\ UNCHANGED <<wptr, wpc, wat, puts, seen, rat, dat, buf>> /\ rpc = "bump"
      /\ rptr' = Bumped(rptr, GetTwice)
      /\ rpc' = IF LoadFirst THEN "wrap" ELSE "load"
      /\ PointersAgree /\ BytesStored /\ WriterHasRoom /\ ReaderHasByte
  BY DEF Whole, GetBump, writerVars
<1>1. rptr # Free /\ rat = rptr /\ rptr \in Cells
  BY <1>0 DEF ReaderHasByte, BufTypeOK
<1>2. wpc = "store" /\ ~StoreFirst => rptr # wat
  BY <1>0 DEF ReaderHasByte
<1>3. buf[rptr] = gets + 1 /\ gets < puts /\ gets' = gets + 1
  BY <1>1, <1>2, OldestByte DEF GetBump
<1>4. /\ Seat = rptr /\ Free' = Free /\ Free \in Cells
      /\ puts \in Nat /\ gets \in Nat
  BY <1>0, <1>1, SeatCell DEF Free, Wrapped, BufTypeOK, Cells
<1>5. /\ rptr' \in 0 .. BUFSIZE_BYTE
      /\ Seat' = IF rptr = BUFSIZE_BYTE - 1 THEN 0 ELSE rptr + 1
      /\ Seat' \in Cells
      /\ (rptr' = BUFSIZE_BYTE /\ rptr = BUFSIZE_BYTE - 1) \/ rptr' = Seat'
  BY <1>0, <1>1 DEF Bumped, Wrapped, Seat, Cells
<1>6. PointersAgree'
  <2>1. /\ puts <= MaxBytes
        /\ Free >= Seat => puts = gets + (Free - Seat)
        /\ Free < Seat => puts = gets + (Free - Seat) + BUFSIZE_BYTE
    BY <1>0 DEF PointersAgree
  <2>2. puts' = puts  BY <1>0
  <2> QED  BY <1>1, <1>3, <1>4, <1>5, <2>1, <2>2 DEF PointersAgree, Cells
<1>7. BytesStored'
  <2>1. \A c \in Cells : Byte(c)' = Byte(c)  BY <1>0 DEF Byte
  <2> SUFFICES ASSUME NEW c \in Cells
               PROVE  /\ c >= Seat' /\ (c < Free \/ Free < Seat')
                           => Byte(c) = gets + 2 + (c - Seat')
                      /\ c < Free /\ Free < Seat'
                           => Byte(c) = gets + 2 + (c - Seat') + BUFSIZE_BYTE
    BY <1>3, <1>4, <2>1 DEF BytesStored
  <2>2. /\ c >= Seat /\ (c < Free \/ Free < Seat) => Byte(c) = gets + 1 + (c - Seat)
        /\ c < Free /\ Free < Seat => Byte(c) = gets + 1 + (c - Seat) + BUFSIZE_BYTE
    BY <1>0 DEF BytesStored
  <2>3. CASE rptr = BUFSIZE_BYTE - 1
    BY <1>1, <1>4, <1>5, <2>2, <2>3 DEF Cells
  <2>4. CASE rptr # BUFSIZE_BYTE - 1
    BY <1>1, <1>4, <1>5, <2>2, <2>4 DEF Cells
  <2> QED  BY <2>3, <2>4
<1>8. WriterHasRoom'
  <2>1. wptr # BUFSIZE_BYTE => wptr \in Cells /\ Free = wptr
    BY SeatCell DEF BufTypeOK, Cells
  <2>2. SeenBefore'
    <3> SUFFICES ASSUME wpc \in {"ahead", "behind"} PROVE SeenBefore'
      BY <1>0 DEF SeenBefore
    <3>1. wptr # BUFSIZE_BYTE /\ seen \in 0 .. BUFSIZE_BYTE /\ SeenBefore
      BY <1>0 DEF BufTypeOK, WriterHasRoom
    <3>2. wpc' = wpc /\ seen' = seen /\ wptr' = wptr  BY <1>0
    <3> QED  BY <1>1, <1>5, <2>1, <3>1, <3>2 DEF SeenBefore, Cells
  <2>3. (wpc = "store" /\ StoreFirst) \/ wpc = "bump" => RoomAt(wptr)'
    <3> SUFFICES ASSUME (wpc = "store" /\ StoreFirst) \/ wpc = "bump" PROVE RoomAt(wptr)'
      OBVIOUS
    <3>1. wptr # BUFSIZE_BYTE /\ RoomAt(wptr) /\ wptr' = wptr
      BY <1>0 DEF BufTypeOK, WriterHasRoom
    <3> QED  BY <1>1, <1>4, <1>5, <2>1, <3>1 DEF RoomAt, Cells
  <2>4. wpc = "store" /\ ~StoreFirst => Free # Seat'
    <3> SUFFICES ASSUME wpc = "store", ~StoreFirst PROVE Free # Seat'  OBVIOUS
    <3>1. Free = Wrapped(wat + 1) /\ wat \in Cells  BY <1>0 DEF WriterHasRoom, BufTypeOK
    <3>2. rptr # wat  BY <1>2
    <3>3. Seat' = Wrapped(rptr + 1)  BY <1>1, <1>5 DEF Wrapped, Cells
    <3> QED  BY <1>1, <3>1, <3>2, <3>3 DEF Wrapped, Cells
  <2> QED  BY <1>0, <1>4, <2>2, <2>3, <2>4 DEF WriterHasRoom
<1>9. ReaderHasByte'
  <2>1. rat + 1 = Seat' \/ (rat = BUFSIZE_BYTE - 1 /\ Seat' = 0)  BY <1>1, <1>5
  <2> QED  BY <1>0, <1>1, <1>3, <2>1 DEF ReaderHasByte
<1> QED  BY <1>6, <1>7, <1>8, <1>9 DEF Whole

\* The seat of the oldest byte does not move.
LEMMA GetWrapStep == ASSUME BufTypeOK, Whole, GetWrap PROVE Whole'
<1> USE BufAssumption DEF Whole, GetWrap, writerVars
<1>1. Seat' = Seat /\ rptr' = Seat /\ Seat \in Cells /\ Free' = Free
      /\ Seat = IF rptr = BUFSIZE_BYTE THEN 0 ELSE rptr
  BY SeatCell DEF Seat, Free, Wrapped, Cells, BufTypeOK
<1>2. \A c \in Cells : Byte(c)' = Byte(c)  BY DEF Byte
<1>3. PointersAgree' /\ BytesStored'
  BY <1>1, <1>2 DEF PointersAgree, BytesStored
<1>4. WriterHasRoom'
  <2>1. SeenBefore'
    BY <1>1 DEF WriterHasRoom, SeenBefore, BufTypeOK, Cells
  <2> QED  BY <1>1, <2>1 DEF WriterHasRoom, RoomAt
<1>5. ReaderHasByte'
  BY <1>1 DEF ReaderHasByte, Cells
<1> QED  BY <1>3, <1>4, <1>5

\* The invariant is about the variables only.
LEMMA StutterStep == ASSUME Whole, UNCHANGED bufVars PROVE Whole'
<1> USE DEF bufVars, writerVars, readerVars, Whole
<1>1. Seat' = Seat /\ Free' = Free  BY DEF Seat, Free
<1>2. \A c \in Cells : Byte(c)' = Byte(c)  BY DEF Byte
<1>3. PointersAgree' /\ BytesStored'  BY <1>1, <1>2 DEF PointersAgree, BytesStored
<1>4. WriterHasRoom' /\ ReaderHasByte'
  BY <1>1 DEF WriterHasRoom, ReaderHasByte, RoomAt, SeenBefore
<1> QED  BY <1>3, <1>4

\* The invariant, in every build: each thread uses its pointer within the array; and
\* until a check falls in the middle of an update every cell between the pointers holds
\* the byte of its place, and each thread in the middle of a call has what it checked for.
THEOREM BufInvariant == BufSpec => []IInv
<1>1. BufInit => IInv  BY InitStep
<1>2. IInv /\ [BufNext]_bufVars => IInv'
  <2> SUFFICES ASSUME IInv, [BufNext]_bufVars PROVE IInv'  OBVIOUS
  <2>1. BufTypeOK /\ BufTypeOK'  BY BufTypeStep DEF IInv
  <2>2. ASSUME ~torn' PROVE Whole'
    <3>1. Whole  BY <2>1, <2>2, TornStep DEF IInv
    <3>2. CASE Writer
      BY <2>1, <2>2, <3>1, <3>2, PutCompareStep, PutSubtractStep, PutStoreStep,
         PutBumpStep, PutWrapStep DEF Writer
    <3>3. CASE Reader
      BY <2>1, <2>2, <3>1, <3>3, GetCheckStep, GetLoadStep, GetBumpStep, GetWrapStep
         DEF Reader
    <3>4. CASE UNCHANGED bufVars  BY <3>1, <3>4, StutterStep
    <3> QED  BY <3>2, <3>3, <3>4 DEF BufNext
  <2> QED  BY <2>1, <2>2 DEF IInv
<1> QED  BY <1>1, <1>2, PTL DEF BufSpec

\* In every build the pointers stay within the array, one past its end for the moment
\* between a pointer's two stores included, and every cell accessed is a cell.
THEOREM BufTypeCorrect == BufSpec => []BufTypeOK
<1>1. IInv => BufTypeOK  BY DEF IInv
<1> QED  BY <1>1, BufInvariant, PTL

\* What tcp_buffer_get_byte returns is what tcp_buffer_put_byte was given, in order,
\* in every build until a check falls in the middle of an update.
THEOREM BufKeepsOrder == BufSpec => []BytesInOrder
<1>1. IInv => BytesInOrder  BY DEF IInv, Whole, ReaderHasByte, BytesInOrder
<1> QED  BY <1>1, BufInvariant, PTL

\* The writer keeps off the cell the reader is reading, even one rptr has left, in every
\* build until a check falls in the middle of an update.
THEOREM BufNeverOverwrites == BufSpec => []NoOverwrite
<1>1. IInv => NoOverwrite
  <2> SUFFICES ASSUME BufTypeOK, Whole, wpc = "store", rpc = "load", wat = rat
               PROVE  FALSE
    BY DEF NoOverwrite, IInv
  <2> USE BufAssumption DEF Whole, WriterHasRoom, ReaderHasByte, BufTypeOK, RoomAt, Cells
  <2>1. /\ Seat \in Cells /\ Free \in Cells
        /\ Free = IF wptr = BUFSIZE_BYTE THEN 0 ELSE wptr
    BY SeatCell
  <2>2. CASE LoadFirst  BY <2>1, <2>2
  <2>3. CASE ~LoadFirst /\ StoreFirst  BY <2>1, <2>3
  <2>4. CASE ~LoadFirst /\ ~StoreFirst  BY <2>1, <2>4 DEF Wrapped
  <2> QED  BY <2>2, <2>3, <2>4
<1> QED  BY <1>1, BufInvariant, PTL

-------------------------------------------------------------------------------
(* Which builds are safe.                                                    *)

\* The byte is stored first and wptr once, and is_full compares and subtracts one value
\* of rptr or never sees it past the end.
Tight == StoreFirst /\ ~PutTwice /\ ~(GetTwice /\ Reread)

\* The pointers never leave the array where the other thread could see it.
PointersWithin ==
    /\ ~torn /\ wptr \in Cells
    /\ ~GetTwice => rptr \in Cells /\ (wpc \in {"ahead", "behind"} => seen \in Cells)

\* A build that stores the byte before wptr, and wptr once, and in which is_full cannot
\* see rptr change its lap, is never torn: there the buffer is a queue for good.
THEOREM BufNeverTorn == ASSUME Tight PROVE BufSpec => []~torn
<1> USE BufAssumption DEF Tight
<1>1. BufInit => PointersWithin
  BY DEF BufInit, PointersWithin, Cells
<1>2. IInv /\ PointersWithin /\ [BufNext]_bufVars => PointersWithin'
  <2> SUFFICES ASSUME IInv, BufTypeOK, PointersWithin, [BufNext]_bufVars
               PROVE  PointersWithin'
    BY DEF IInv
  <2> USE DEF PointersWithin
  <2>1. CASE PutCompare  BY <2>1 DEF PutCompare, readerVars
  <2>2. CASE PutSubtract
    BY <2>2 DEF PutSubtract, readerVars, LapBetween, BufTypeOK, Cells
  <2>3. CASE PutStore  BY <2>3 DEF PutStore, readerVars
  <2>4. CASE PutBump
    BY <2>4 DEF PutBump, readerVars, Bumped, Wrapped, Cells
  <2>5. CASE PutWrap
    BY <2>5 DEF PutWrap, readerVars, Wrapped, Cells
  <2>6. CASE GetCheck
    BY <2>6 DEF GetCheck, writerVars, HalfPut, Cells
  <2>7. CASE GetLoad  BY <2>7 DEF GetLoad, writerVars
  <2>8. CASE GetBump
    BY <2>8 DEF GetBump, writerVars, Bumped, Wrapped, Cells
  <2>9. CASE GetWrap
    BY <2>9 DEF GetWrap, writerVars, Wrapped, Cells
  <2>10. CASE UNCHANGED bufVars
    BY <2>10 DEF bufVars, writerVars, readerVars
  <2> QED
    BY <2>1, <2>2, <2>3, <2>4, <2>5, <2>6, <2>7, <2>8, <2>9, <2>10
       DEF BufNext, Writer, Reader
<1>3. PointersWithin => ~torn  BY DEF PointersWithin
<1> QED  BY <1>1, <1>2, <1>3, BufInvariant, PTL DEF BufSpec

-------------------------------------------------------------------------------
(* The buffer is a queue.                                                    *)

\* What the buffer holds, oldest byte first, and the byte the reader got last: the
\* expressions Queue puts for queue and hand.
Contents == [i \in 1 .. Used |-> Byte(Wrapped(Wrapped(rptr) + i - 1))]
Hand == CASE rpc = "load" /\ ~LoadFirst -> buf[rat]
          [] rpc = "bump" /\ LoadFirst -> gets
          [] OTHER -> dat

\* The bytes put and not got, in order.
Numbers(got, n) == [i \in 1 .. n - got |-> got + i]

\* The bytes of a queue of consecutive numbers.
LEMMA NumbersQueue ==
    ASSUME NEW got \in Nat, NEW n \in Nat, got <= n
    PROVE  /\ Numbers(got, n) \in Seq(Nat) /\ Len(Numbers(got, n)) = n - got
           /\ Append(Numbers(got, n), n + 1) = Numbers(got, n + 1)
           /\ got < n => /\ Numbers(got, n) # <<>> /\ Head(Numbers(got, n)) = got + 1
                         /\ Tail(Numbers(got, n)) = Numbers(got + 1, n)
<1>1. Numbers(got, n) \in Seq(Nat) /\ Len(Numbers(got, n)) = n - got
  BY DEF Numbers
<1>2. Append(Numbers(got, n), n + 1) = Numbers(got, n + 1)
  BY DEF Numbers
<1>3. ASSUME got < n
      PROVE  /\ Numbers(got, n) # <<>> /\ Head(Numbers(got, n)) = got + 1
             /\ Tail(Numbers(got, n)) = Numbers(got + 1, n)
  <2>1. Numbers(got, n) # <<>>
    BY <1>1, <1>3
  <2>2. Head(Numbers(got, n)) = got + 1
    BY <1>1, <1>3, <2>1 DEF Numbers
  <2>3. Tail(Numbers(got, n)) = Numbers(got + 1, n)
    <3>1. /\ Tail(Numbers(got, n)) \in Seq(Nat) /\ Len(Tail(Numbers(got, n))) = n - got - 1
          /\ \A i \in 1 .. n - got - 1 : Tail(Numbers(got, n))[i] = Numbers(got, n)[i + 1]
      BY <1>1, <1>3, <2>1, HeadTailProperties
    <3>2. /\ Numbers(got + 1, n) \in Seq(Nat) /\ Len(Numbers(got + 1, n)) = n - got - 1
          /\ \A i \in 1 .. n - got - 1 : Numbers(got + 1, n)[i] = got + 1 + i
      BY <1>3 DEF Numbers
    <3>3. \A i \in 1 .. n - got - 1 : Numbers(got, n)[i + 1] = got + 1 + i
      BY DEF Numbers
    <3>4. \A i \in 1 .. n - got - 1 : Tail(Numbers(got, n))[i] = Numbers(got + 1, n)[i]
      BY <3>1, <3>2, <3>3
    <3>5. Len(Tail(Numbers(got, n))) = Len(Numbers(got + 1, n))
      BY <3>1, <3>2
    <3> QED  BY <3>1, <3>2, <3>4, <3>5, SeqEqual
  <2> QED  BY <2>1, <2>2, <2>3
<1> QED  BY <1>1, <1>2, <1>3

\* The cells from rptr to wptr hold the bytes put and not got.
LEMMA ContentsAre ==
    ASSUME BufTypeOK, Whole
    PROVE  /\ Used \in Nat /\ Used = puts - gets /\ gets <= puts
           /\ Contents = Numbers(gets, puts)
<1> USE BufAssumption
<1>1. Free \in Cells /\ Seat \in Cells /\ puts \in Nat /\ gets \in Nat
  BY SeatCell DEF BufTypeOK
<1>2. Used = IF Free >= Seat THEN Free - Seat ELSE Free - Seat + BUFSIZE_BYTE
  BY DEF Used, Seat, Free
<1>3. Used \in Nat /\ Used = puts - gets /\ Used < BUFSIZE_BYTE /\ gets <= puts
  BY <1>1, <1>2 DEF Whole, PointersAgree, Cells
<1>4. ASSUME NEW i \in 1 .. Used
      PROVE  Byte(Wrapped(Wrapped(rptr) + i - 1)) = gets + i
  <2> DEFINE c == Wrapped(Seat + i - 1)
  <2>1. c \in Cells
    BY <1>1, <1>3 DEF Wrapped, Cells
  <2>2. /\ c >= Seat /\ (c < Free \/ Free < Seat) => Byte(c) = gets + 1 + (c - Seat)
        /\ c < Free /\ Free < Seat => Byte(c) = gets + 1 + (c - Seat) + BUFSIZE_BYTE
    BY <2>1 DEF Whole, BytesStored
  <2>3. Byte(c) = gets + i
    <3>1. CASE Seat + i - 1 < BUFSIZE_BYTE
      <4>1. c = Seat + i - 1
        BY <3>1 DEF Wrapped
      <4>2. c >= Seat /\ (c < Free \/ Free < Seat)
        BY <1>1, <1>2, <1>3, <4>1 DEF Cells
      <4> HIDE DEF c
      <4> QED  BY <1>1, <2>2, <4>1, <4>2 DEF Cells
    <3>2. CASE ~ (Seat + i - 1 < BUFSIZE_BYTE)
      <4>1. c = Seat + i - 1 - BUFSIZE_BYTE
        BY <1>1, <3>2 DEF Wrapped, Cells
      <4>2. c < Free /\ Free < Seat
        BY <1>1, <1>2, <1>3, <3>2, <4>1 DEF Cells
      <4> HIDE DEF c
      <4> QED  BY <1>1, <2>2, <4>1, <4>2 DEF Cells
    <3> QED  BY <3>1, <3>2
  <2> QED  BY <2>3 DEF Seat
<1>5. Contents = [i \in 1 .. puts - gets |-> gets + i]
  BY <1>3, <1>4 DEF Contents
<1> QED  BY <1>3, <1>5 DEF Numbers

\* What the buffer shows of itself as a queue: the reader holds the last byte it took.
Shown == Contents = Numbers(gets, puts) /\ Hand = gets

LEMMA ShownIs == ASSUME BufTypeOK, Whole PROVE Shown
BY ContentsAre DEF Shown, Hand, Whole, ReaderHasByte, BufTypeOK

\* In every build, until a check falls in the middle of an update, the buffer implements
\* the bounded queue: a put takes effect where wptr moves, a get where rptr does, and
\* every other access is invisible.
THEOREM BufIsQueue == BufSpec => QueueSpec
<1>1. BufInit /\ IInv => Queue!Init
  <2> SUFFICES ASSUME BufInit, IInv PROVE Queue!Init  OBVIOUS
  <2>1. puts = 0 /\ gets = 0 /\ dat = 0 /\ rpc = "check" /\ BufTypeOK /\ Whole
    BY DEF BufInit, IInv
  <2>2. Contents = Numbers(0, 0)
    BY <2>1, ContentsAre
  <2>3. Numbers(0, 0) = <<>>
    BY NumbersQueue
  <2> QED  BY <2>1, <2>2, <2>3 DEF Queue!Init, Contents
<1>2. IInv /\ IInv' /\ [BufNext]_bufVars => [torn' \/ Queue!Step]_bufVars
  <2> SUFFICES ASSUME IInv, IInv', BufNext, ~torn' PROVE Queue!Step  OBVIOUS
  <2>1. BufTypeOK /\ Whole
    BY TornStep DEF IInv
  <2>2. /\ Contents = Numbers(gets, puts) /\ Hand = gets
        /\ puts \in Nat /\ gets \in Nat /\ gets <= puts /\ Used = puts - gets
    BY <2>1, ShownIs, ContentsAre DEF Shown, BufTypeOK
  <2>3. Contents' = Numbers(gets', puts') /\ Hand' = gets'
    <3>1. (BufTypeOK /\ Whole => Shown)'
      BY ShownIs, PTL
    <3> QED  BY <3>1 DEF Shown, IInv, Numbers
  <2>4. CASE PutBump
    <3>1. puts' = puts + 1 /\ gets' = gets
      BY <2>4 DEF PutBump, readerVars
    <3>2. Used < BUFSIZE_BYTE - 1
      <4>1. Free = wptr /\ Seat \in Cells /\ wptr \in Cells
        BY <2>1, <2>4, SeatCell DEF PutBump, BufTypeOK, Cells
      <4>2. RoomAt(wptr)
        BY <2>1, <2>4 DEF PutBump, Whole, WriterHasRoom
      <4> QED  BY <4>1, <4>2, BufAssumption DEF Used, Free, Seat, RoomAt, Cells
    <3>3. Len(Contents) < BUFSIZE_BYTE - 1
      BY <2>2, <3>2, NumbersQueue
    <3>4. Contents' = Append(Contents, puts')
      BY <2>2, <2>3, <3>1, NumbersQueue
    <3>5. Queue!Put
      BY <2>2, <2>3, <3>1, <3>3, <3>4 DEF Queue!Put, Contents, Hand
    <3> QED  BY <3>5 DEF Queue!Step
  <2>5. CASE GetBump
    <3>1. puts' = puts /\ gets' = gets + 1 /\ gets < puts
      <4>1. /\ rptr \in Cells /\ rptr # Free
            /\ ~(wpc = "store" /\ ~StoreFirst /\ rptr = wat)
        BY <2>1, <2>5 DEF GetBump, Whole, ReaderHasByte, BufTypeOK
      <4> QED  BY <2>1, <2>5, <4>1, OldestByte DEF GetBump, writerVars
    <3>2. Contents # <<>> /\ Hand' = Head(Contents) /\ Contents' = Tail(Contents)
      BY <2>2, <2>3, <3>1, NumbersQueue
    <3>3. Queue!Get
      BY <3>1, <3>2 DEF Queue!Get, Contents, Hand
    <3> QED  BY <3>3 DEF Queue!Step
  <2>6. CASE ~PutBump /\ ~GetBump
    <3>1. puts' = puts /\ gets' = gets
      BY <2>6 DEF BufNext, Writer, Reader, PutCompare, PutSubtract, PutStore, PutWrap,
         GetCheck, GetLoad, GetWrap, writerVars, readerVars
    <3>2. UNCHANGED <<Contents, puts, Hand>>
      BY <2>2, <2>3, <3>1
    <3> QED  BY <3>2 DEF Queue!Step, Contents, Hand
  <2> QED  BY <2>4, <2>5, <2>6
<1>3. QueueSpec <=> Queue!Init /\ [][torn' \/ Queue!Step]_bufVars
  BY DEF QueueSpec
<1> QED  BY <1>1, <1>2, <1>3, BufInvariant, PTL DEF BufSpec

\* A build that is never torn implements the queue without a proviso: what JtagServer
\* takes its two buffers for.
THEOREM TightBufIsQueue == ASSUME Tight PROVE BufSpec => Queue!Spec
<1>1. ~torn' /\ [torn' \/ Queue!Step]_bufVars => [Queue!Put \/ Queue!Get]_<<Contents, puts, Hand>>
  <2>1. Queue!Step <=> [Queue!Put \/ Queue!Get]_<<Contents, puts, Hand>>
    BY DEF Queue!Step, Contents, Hand
  <2>2. UNCHANGED bufVars => UNCHANGED <<Contents, puts, Hand>>
    BY DEF bufVars, writerVars, readerVars, Contents, Hand, Used, Byte
  <2> QED  BY <2>1, <2>2
<1>2. Queue!Spec <=> Queue!Init /\ [][Queue!Put \/ Queue!Get]_<<Contents, puts, Hand>>
  <2>1. Queue!Step <=> [Queue!Put \/ Queue!Get]_<<Contents, puts, Hand>>
    BY DEF Queue!Step, Contents, Hand
  <2>2. Queue!Spec <=> Queue!Init /\ [][Queue!Step]_<<Contents, puts, Hand>>
    BY DEF Queue!Spec, Contents, Hand
  <2> QED  BY <2>1, <2>2, PTL
<1>3. QueueSpec <=> Queue!Init /\ [][torn' \/ Queue!Step]_bufVars
  BY DEF QueueSpec
<1> QED  BY <1>1, <1>2, <1>3, BufNeverTorn, BufIsQueue, PTL
===============================================================================
