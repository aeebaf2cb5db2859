------------------------------ MODULE JtagServer ------------------------------
(***************************************************************************)
(* The remote-bitbang connection of the ibex debug testbench: the socket   *)
(* thread of tcp_server, the simulation thread that executes one command   *)
(* in a tick of jtagdpi, and the client, OpenOCD (external).  The two byte *)
(* buffers are queues of BufSize - 1 bytes, which TcpBuf shows them to be  *)
(* as long as no check falls in the middle of an update of a pointer.      *)
(*                                                                         *)
(* A command is its number; what it asks is chosen when it is sent.  A     *)
(* connection is its number too, and stands for the file descriptor of its *)
(* end in the server; 0 is no client, and standard input.                  *)
(***************************************************************************)
EXTENDS Naturals, Sequences

CONSTANTS
    BufSize,    \* BUFSIZE_BYTE
    Window,     \* reads the client sends before it takes an answer
    MaxCmds,    \* bound of a run: commands
    MaxConns    \* bound of a run: connections, one after the other

ASSUME JtagAssumption ==
    /\ BufSize \in Nat /\ BufSize > 1
    /\ Window \in Nat \ {0} /\ MaxCmds \in Nat \ {0} /\ MaxConns \in Nat \ {0}

Conns == 1 .. MaxConns
Ops == {"write", "read", "quit"}
Cmds == [n : 1 .. MaxCmds, op : Ops]
Answers == [n : 1 .. MaxCmds, op : {"answer"}]

VARIABLES
    up, conn,       \* the client: connected or not, its latest connection,
    sent, waiting,  \* commands sent, reads it has no answer to
    backlog,        \* connections not accepted
    in, out,        \* bytes on their way on each connection
    isOpen,         \* connections whose server end is open
    cfd,            \* ctx->cfd
    socket_run,     \* ctx->socket_run
    spc, hand,      \* the socket thread: where it is, xfer_data
    listening, ready,   \* what select returned: sfd readable, the readable cfd
    buf_in, buf_out,
    sim, done       \* the simulation thread: where it is, the latest command executed

clientVars == <<up, conn, sent, waiting>>
netVars    == <<backlog, in, out>>
fdVars     == <<isOpen, cfd>>
serverVars == <<spc, hand, listening, ready>>
simVars    == <<sim, done, socket_run>>
vars == <<clientVars, netVars, fdVars, serverVars, simVars, buf_in, buf_out>>

None == 0
NoByte == [n |-> 0, op |-> "none"]
M_HasRoom(buf) == Len(buf) < BufSize - 2    \* two spare cells
HasRoom(buf) == Len(buf) < BufSize - 1

Init ==
    /\ up = FALSE /\ conn = 0 /\ sent = 0 /\ waiting = <<>>
    /\ backlog = <<>> /\ in = [c \in Conns |-> <<>>] /\ out = [c \in Conns |-> <<>>]
    /\ isOpen = {} /\ cfd = None
    /\ spc = "select" /\ hand = NoByte /\ listening = FALSE /\ ready = None
    /\ sim = "run" /\ done = 0 /\ socket_run = TRUE
    /\ buf_in = <<>> /\ buf_out = <<>>

-------------------------------------------------------------------------------
(* The client.                                                               *)

Connect ==
    /\ ~up /\ conn < MaxConns /\ spc # "done"
    /\ up' = TRUE /\ conn' = conn + 1
    /\ backlog' = Append(backlog, conn')
    /\ UNCHANGED <<sent, waiting, in, out, fdVars, serverVars, simVars, buf_in, buf_out>>

Send(op) ==
    /\ up /\ sent < MaxCmds
    /\ op = "read" => Len(waiting) < Window
    /\ op = "quit" => waiting = <<>>
    /\ sent' = sent + 1
    /\ waiting' = IF op = "read" THEN Append(waiting, sent') ELSE waiting
    /\ in' = [in EXCEPT ![conn] = Append(@, [n |-> sent', op |-> op])]
    /\ up' = (op # "quit")      \* it closes its end after `Q'
    /\ UNCHANGED <<conn, backlog, out, fdVars, serverVars, simVars, buf_in, buf_out>>

Receive ==
    /\ up /\ out[conn] # <<>>
    /\ waiting' = IF waiting = <<>> THEN <<>> ELSE Tail(waiting)
    /\ out' = [out EXCEPT ![conn] = Tail(@)]
    /\ UNCHANGED <<up, conn, sent, backlog, in, fdVars, serverVars, simVars, buf_in, buf_out>>

Client == Connect \/ (\E op \in Ops : Send(op)) \/ Receive

-------------------------------------------------------------------------------
(* The socket thread.                                                        *)

Goto(pc) == spc' = pc /\ UNCHANGED <<listening, ready>>

\* tcp_server_client_close, by the socket thread.
ClientClose == isOpen' = isOpen \ {cfd} /\ cfd' = None

\* select, or its timeout.  It fails on a descriptor the other thread has closed:
\* the sets then stay as they were passed.
Select ==
    /\ spc = "select" /\ socket_run
    /\ spc' = "accept"
    /\ IF cfd # None /\ cfd \notin isOpen
       THEN ClientClose /\ listening' = TRUE /\ ready' = cfd
       ELSE /\ listening' = (backlog # <<>>)
            /\ ready' = IF cfd # None /\ (in[cfd] # <<>> \/ ~up \/ conn # cfd)
                        THEN cfd ELSE None
            /\ UNCHANGED fdVars
    /\ UNCHANGED <<hand, clientVars, netVars, simVars, buf_in, buf_out>>

\* client_tryaccept and its assertion, then FD_ISSET on what cfd is by now.
Accept ==
    /\ spc = "accept"
    /\ IF listening /\ cfd # None THEN Goto("aborted") ELSE Goto("isset")
    /\ IF listening /\ cfd = None /\ backlog # <<>>
       THEN /\ cfd' = Head(backlog) /\ isOpen' = isOpen \cup {cfd'}
            /\ backlog' = Tail(backlog)
       ELSE UNCHANGED <<fdVars, backlog>>
    /\ UNCHANGED <<hand, in, out, clientVars, simVars, buf_in, buf_out>>

IsSet ==
    /\ spc = "isset"
    /\ Goto(IF cfd # None /\ cfd = ready THEN "read" ELSE "serve")
    /\ UNCHANGED <<hand, clientVars, netVars, fdVars, simVars, buf_in, buf_out>>

\* get_byte: what is there, nothing (EAGAIN, or the client's end is closed), or
\* EBADF.  If the other thread has set cfd to 0 it reads standard input, which has
\* nothing to say: the call returns at once or never.
Read ==
    /\ spc = "read"
    /\ IF cfd = None
       THEN /\ \E pc \in {"serve", "stdin"} : Goto(pc)
            /\ UNCHANGED <<hand, in, fdVars>>
       ELSE IF cfd \notin isOpen
       THEN ClientClose /\ Goto("serve") /\ UNCHANGED <<hand, in>>
       ELSE IF in[cfd] = <<>>
       THEN Goto("serve") /\ UNCHANGED <<hand, in, fdVars>>
       ELSE /\ hand' = Head(in[cfd])
            /\ in' = [in EXCEPT ![cfd] = Tail(@)]
            /\ Goto("put")
            /\ UNCHANGED fdVars
    /\ UNCHANGED <<backlog, out, clientVars, simVars, buf_in, buf_out>>

\* tcp_buffer_put_byte(buf_in), which goes round while the buffer is full.
M_Put ==        \* a byte that finds no room is dropped
    /\ spc = "put"
    /\ buf_in' = IF HasRoom(buf_in) THEN Append(buf_in, hand) ELSE buf_in
    /\ hand' = NoByte
    /\ Goto("read")
    /\ UNCHANGED <<clientVars, netVars, fdVars, simVars, buf_out>>
Put ==
    /\ spc = "put" /\ HasRoom(buf_in)
    /\ buf_in' = Append(buf_in, hand) /\ hand' = NoByte
    /\ Goto("read")
    /\ UNCHANGED <<clientVars, netVars, fdVars, simVars, buf_out>>

\* cfd is looked at once, before the loop that sends.
M_Serve ==      \* answers are sent only after a command has come
    /\ spc = "serve"
    /\ Goto(IF cfd # None /\ cfd = ready THEN "drain" ELSE IF socket_run THEN "select" ELSE "end")
    /\ UNCHANGED <<hand, clientVars, netVars, fdVars, simVars, buf_in, buf_out>>
Serve ==
    /\ spc = "serve"
    /\ Goto(IF cfd # None THEN "drain" ELSE IF socket_run THEN "select" ELSE "end")
    /\ UNCHANGED <<hand, clientVars, netVars, fdVars, simVars, buf_in, buf_out>>

M_Drain ==      \* the loop is around the get only: the last byte is sent
    /\ spc = "drain"
    /\ IF buf_out # <<>>
       THEN hand' = [n |-> buf_out[Len(buf_out)], op |-> "answer"] /\ buf_out' = <<>> /\ Goto("send")
       ELSE Goto(IF socket_run THEN "select" ELSE "end") /\ UNCHANGED <<hand, buf_out>>
    /\ UNCHANGED <<clientVars, netVars, fdVars, simVars, buf_in>>
Drain ==
    /\ spc = "drain"
    /\ IF buf_out # <<>>
       THEN hand' = [n |-> Head(buf_out), op |-> "answer"] /\ buf_out' = Tail(buf_out) /\ Goto("send")
       ELSE Goto(IF socket_run THEN "select" ELSE "end") /\ UNCHANGED <<hand, buf_out>>
    /\ UNCHANGED <<clientVars, netVars, fdVars, simVars, buf_in>>

\* put_byte.  A descriptor that is closed or no socket is an error it asserts not
\* to meet.
Deliver ==
    /\ spc = "send" /\ hand' = NoByte
    /\ IF cfd \notin isOpen
       THEN Goto("aborted") /\ UNCHANGED <<out, fdVars>>
       ELSE IF ~up \/ conn # cfd
       THEN Goto("drain") /\ ClientClose /\ UNCHANGED out
       ELSE Goto("drain") /\ out' = [out EXCEPT ![cfd] = Append(@, hand.n)] /\ UNCHANGED fdVars
    /\ UNCHANGED <<backlog, in, clientVars, simVars, buf_in, buf_out>>

\* The loop is left, and the clean-up after it.
M_End ==        \* socket_run is looked at after a pass only: select has no timeout
    /\ spc = "end"
    /\ ClientClose /\ Goto("done")
    /\ UNCHANGED <<hand, clientVars, netVars, simVars, buf_in, buf_out>>
End ==
    /\ spc = "end" \/ (spc = "select" /\ ~socket_run)
    /\ ClientClose /\ Goto("done")
    /\ UNCHANGED <<hand, clientVars, netVars, simVars, buf_in, buf_out>>

Server == Select \/ Accept \/ IsSet \/ Read \/ Put \/ Serve \/ Drain \/ Deliver \/ End

-------------------------------------------------------------------------------
(* The simulation thread.                                                    *)

\* jtagdpi_tick with a command to execute.
Tick ==
    /\ sim = "run" /\ buf_in # <<>>
    /\ buf_in' = Tail(buf_in)
    /\ done' = Head(buf_in).n
    /\ sim' = [write |-> "run", read |-> "answer", quit |-> "close"][Head(buf_in).op]
    /\ UNCHANGED <<socket_run, clientVars, netVars, fdVars, serverVars, buf_out>>

\* tcp_server_write: tdo after the latest command executed.
Answer ==
    /\ sim = "answer" /\ HasRoom(buf_out)
    /\ buf_out' = Append(buf_out, done)
    /\ sim' = "run"
    /\ UNCHANGED <<done, socket_run, clientVars, netVars, fdVars, serverVars, buf_in>>

\* tcp_server_client_close, by the simulation thread: two steps.
CloseSocket ==
    /\ sim = "close"
    /\ isOpen' = isOpen \ {cfd}
    /\ sim' = IF cfd = None THEN "run" ELSE "forget"
    /\ UNCHANGED <<cfd, done, socket_run, clientVars, netVars, serverVars, buf_in, buf_out>>

Forget ==
    /\ sim = "forget"
    /\ cfd' = None /\ sim' = "run"
    /\ UNCHANGED <<isOpen, done, socket_run, clientVars, netVars, serverVars, buf_in, buf_out>>

\* jtagdpi_close at the end of the simulation.
Finish ==
    /\ sim = "run" /\ socket_run
    /\ socket_run' = FALSE /\ sim' = "join"
    /\ UNCHANGED <<done, clientVars, netVars, fdVars, serverVars, buf_in, buf_out>>

Join ==
    /\ sim = "join" /\ spc = "done"
    /\ sim' = "freed"
    /\ UNCHANGED <<done, socket_run, clientVars, netVars, fdVars, serverVars, buf_in, buf_out>>

Commands == Tick \/ Answer \/ CloseSocket \/ Forget
Simulation == Commands \/ Finish \/ Join

\* An assertion that fails ends both threads.
Process == spc # "aborted" /\ (Server \/ Simulation)

Next == Process \/ Client

Spec == Init /\ [][Next]_vars

\* The threads run, and the client takes the answers that come.
Fairness ==
    /\ WF_vars(spc # "aborted" /\ Server)
    /\ WF_vars(spc # "aborted" /\ (Commands \/ Join))
    /\ WF_vars(Receive)

LiveSpec == Spec /\ Fairness

-------------------------------------------------------------------------------
(* Properties.                                                               *)

TypeOK ==
    /\ up \in BOOLEAN /\ conn \in 0 .. MaxConns /\ sent \in 0 .. MaxCmds
    /\ waiting \in Seq(1 .. MaxCmds)
    /\ backlog \in Seq(Conns)
    /\ in \in [Conns -> Seq(Cmds)] /\ out \in [Conns -> Seq(1 .. MaxCmds)]
    /\ isOpen \subseteq Conns /\ cfd \in Conns \cup {None}
    /\ spc \in {"select", "accept", "isset", "read", "stdin", "put", "serve", "drain",
                "send", "end", "done", "aborted"}
    /\ hand \in Cmds \cup Answers \cup {NoByte}
    /\ listening \in BOOLEAN /\ ready \in Conns \cup {None}
    /\ buf_in \in Seq(Cmds) /\ buf_out \in Seq(1 .. MaxCmds)
    /\ sim \in {"run", "answer", "close", "forget", "join", "freed"}
    /\ done \in 0 .. MaxCmds /\ socket_run \in BOOLEAN

InHand(pc) == IF spc = pc THEN <<hand>> ELSE <<>>    \* xfer_data

\* Commands the server has read and not executed, oldest first.
Held == buf_in \o InHand("put")

\* The connections the server is to read: its own, and those to be accepted.
Served == {c \in Conns : c = cfd \/ \E i \in DOMAIN backlog : backlog[i] = c}

Ascends(cs) ==
    \A i \in DOMAIN cs : cs[i].n > done /\ \A j \in 1 .. i - 1 : cs[j].n < cs[i].n
Has(cs, n) == \E i \in DOMAIN cs : cs[i].n = n

\* The simulation executes commands in the order they were sent and none twice,
\* from one connection after another, however full the buffer gets, and skips none
\* but those left unread on a connection whose descriptor has been lost (one that is
\* accepted between CloseSocket and Forget).
CommandsInOrder ==
    /\ Ascends(Held)
    /\ \A c \in Served : Ascends(Held \o in[c])
    /\ \A n \in done + 1 .. sent : Has(Held, n) \/ \E c \in Conns : Has(in[c], n)

\* The reads among some commands, oldest first.
Reads(cs) ==
    LET reads[i \in 0 .. Len(cs)] ==
            IF i = 0 THEN <<>>
            ELSE IF cs[i].op = "read" THEN Append(reads[i - 1], cs[i].n)
            ELSE reads[i - 1]
    IN  reads[Len(cs)]

\* Every answer the client still waits for is in exactly one place, in order.
Answered ==
    out[conn] \o (IF spc = "send" THEN <<hand.n>> ELSE <<>>) \o buf_out
        \o (IF sim = "answer" THEN <<done>> ELSE <<>>)
AnswersInOrder ==
    up /\ spc # "aborted" => waiting = Answered \o Reads(Held \o in[conn])

\* The simulation never waits for the socket: a client that keeps fewer reads
\* outstanding than the buffer is long leaves room for every answer.
SimNeverBlocks == sim = "answer" => HasRoom(buf_out)

\* Neither thread waits for the other or for more commands: while the simulation
\* runs, every read of the first connection is answered.  (A later one may never be
\* served: its descriptor is lost if it is accepted between CloseSocket and Forget.)
EveryReadAnswered ==
    \A n \in 1 .. MaxCmds :
        conn = 1 /\ (\E i \in DOMAIN waiting : waiting[i] = n)
            ~> (~\E i \in DOMAIN waiting : waiting[i] = n) \/ ~socket_run

\* client_tryaccept: `assert(ctx->cfd == 0)', and put_byte: `Error writing to client.'
NoAssertionFails == spc # "aborted"

\* Once told to stop, the server is joined and freed (tcp_server_close), unless the
\* socket thread is caught where it cannot see socket_run: in put with the buffer
\* full and nobody reading, or reading standard input, or has failed an assertion.
ServerShutsDown ==
    ~socket_run ~> \/ sim = "freed"
                   \/ spc = "put" /\ ~HasRoom(buf_in)
                   \/ spc \in {"stdin", "aborted"}
==============================================================================
