---------------------------- MODULE ControlSocket ----------------------------
(***************************************************************************)
(* The control socket of cpworker (cpworker/src/unix-manager.c) and the Go *)
(* client that cpdaemon and cpctl use (cpgolib/cpworker/unix_client.go).   *)
(*                                                                         *)
(* One thread serves every connection: it selects, serves the clients that *)
(* are readable, then accepts one connection, whose greeting it waits for. *)
(* The socket is a stream: what a client writes is a sequence of pieces,   *)
(* and a read returns some of the pieces at its front.  Clients follow the *)
(* protocol; peers are other programs that connect and write what they     *)
(* like, when they like.                                                   *)
(*                                                                         *)
(* Sizes are counted in pieces.  A reply the peer does not drain is not    *)
(* modelled; a send that fails because the other end is closed is.         *)
(***************************************************************************)
EXTENDS Naturals, Sequences, FiniteSets

CONSTANTS
    Clients,        \* users of unix_client.go
    Peers,          \* other programs on the socket
    BufLen,         \* pieces that do not fit the request buffer
    MaxTries,       \* waits for the rest of a request: 3
    MaxConns,       \* bound: connections ever made
    MaxRequests,    \* bound: requests of the clients
    MaxPieces,      \* bound: writes of the peers
    MaxTimeouts     \* bound: calls that time out and errors of select

ASSUME SocketAssumption ==
    /\ Clients \cap Peers = {}
    /\ {BufLen, MaxTries, MaxConns, MaxRequests, MaxPieces, MaxTimeouts} \subseteq Nat
    /\ BufLen > 2

VARIABLES
    conns,      \* the connections: both ends and the bytes between them
    server,     \* the thread of unix_manager_run
    client,     \* the UnixClient of each client
    ran,        \* how often each request was executed
    issued,     \* requests sent so far
    written,    \* writes of the peers so far
    timeouts    \* calls that have timed out, and errors of select

vars == <<conns, server, client, ran, issued, written, timeouts>>

Conns == 1..MaxConns
NoConn == 0
Requests == 1..MaxRequests
NoReq == 0

(***************************************************************************)
(* A piece is the whole or a part of a line; last says that it ends with   *)
(* the newline.  Peers write pieces of requests that have no number.       *)
(***************************************************************************)
Kinds == {"hello", "known", "unknown"}
Pieces == [req : Requests \cup {NoReq}, kind : Kinds, last : BOOLEAN]
Piece(r, k, l) == [req |-> r, kind |-> k, last |-> l]

Replies == [req : Requests \cup {NoReq}, ok : BOOLEAN]

(***************************************************************************)
(* srv is the worker's end of a connection, cli whether the other end is   *)
(* open.                                                                   *)
(***************************************************************************)
FreshConn ==
    [owner |-> NoConn, srv |-> "none", cli |-> FALSE, up |-> <<>>, down |-> <<>>]

IdleServer ==
    [pc |-> "select", ready |-> {}, acc |-> FALSE, cur |-> NoConn, got |-> <<>>, try |-> 0]

(***************************************************************************)
(* req is the last request of a client and answer the last reply it took.  *)
(***************************************************************************)
IdleClient ==
    [pc |-> "idle", conn |-> NoConn, req |-> NoReq, answer |-> [req |-> NoReq, ok |-> TRUE]]

Init ==
    /\ conns = [c \in Conns |-> FreshConn]
    /\ server = IdleServer
    /\ client = [k \in Clients |-> IdleClient]
    /\ ran = [r \in Requests |-> 0]
    /\ issued = 0
    /\ written = 0
    /\ timeouts = 0

-----------------------------------------------------------------------------
(***************************************************************************)
(* The server.                                                             *)
(***************************************************************************)
InList == {c \in Conns : conns[c].srv = "open"}

Backlog == {c \in Conns : conns[c].srv = "backlog"}

Oldest(S) == {c \in S : \A d \in S : c <= d}

Readable(c) == conns[c].up # <<>> \/ ~conns[c].cli

(***************************************************************************)
(* unix_client_delete, and the close of a connection that is not accepted. *)
(* Nothing of a connection matters once both ends are closed.              *)
(***************************************************************************)
Spent == [FreshConn EXCEPT !.srv = "closed"]

Deleted(c) ==
    [conns EXCEPT ![c] = IF @.cli THEN [@ EXCEPT !.srv = "closed", !.up = <<>>] ELSE Spent]

(***************************************************************************)
(* select of unix_manager_main.  A timeout or a signal only repeats it.    *)
(***************************************************************************)
Select ==
    /\ server.pc = "select"
    /\ \/ \E c \in InList : Readable(c)
       \/ Backlog # {}
    /\ server' = [server EXCEPT !.pc = "serve",
                                !.ready = {c \in InList : Readable(c)},
                                !.acc = Backlog # {}]
    /\ UNCHANGED <<conns, client, ran, issued, written, timeouts>>

(***************************************************************************)
(* A fatal error of select: every client is closed and the thread ends.    *)
(***************************************************************************)
SelectFails ==
    /\ server.pc = "select"
    /\ timeouts < MaxTimeouts
    /\ timeouts' = timeouts + 1
    /\ conns' = [c \in Conns |-> IF c \in InList THEN Deleted(c)[c] ELSE conns[c]]
    /\ server' = [IdleServer EXCEPT !.pc = "dead"]
    /\ UNCHANGED <<client, ran, issued, written>>

(***************************************************************************)
(* unix_command_execute, on the first request of what was read: a line     *)
(* that is no command deletes the client, an unknown command is answered   *)
(* with an error, and a command may itself fail.  A client that cannot be  *)
(* answered is deleted.                                                    *)
(***************************************************************************)
WellFormed(got) ==
    LET end == CHOOSE j \in 1..Len(got) : got[j].last /\ \A i \in 1..(j - 1) : ~got[i].last
    IN \A i \in 1..end : got[i].req = got[1].req /\ got[i].kind = got[1].kind

Execute(c, got) ==
    LET line == got[1]
        known == line.kind = "known"
        valid == WellFormed(got) /\ line.kind \in {"known", "unknown"}
    IN /\ \/ ~valid /\ conns' = Deleted(c)
          \/ valid /\ ~conns[c].cli /\ conns' = Deleted(c)
          \/ /\ valid /\ conns[c].cli
             /\ \E ok \in IF known THEN BOOLEAN ELSE {FALSE} :
                  conns' = [conns EXCEPT ![c].up = SubSeq(@, Len(got) - Len(server.got) + 1, Len(@)),
                                         ![c].down = IF conns[c].owner \in Clients
                                                     THEN Append(@, [req |-> line.req, ok |-> ok])
                                                     ELSE @]
       /\ ran' = IF valid /\ known /\ line.req # NoReq
                 THEN [ran EXCEPT ![line.req] = @ + 1] ELSE ran

(***************************************************************************)
(* One recv of unix_client_recv on connection c, with what was read of the *)
(* request before.  The end of the stream and a request that is too long   *)
(* delete the client; a request without its newline makes the thread wait. *)
(* try counts the selects made for the rest of the request.                *)
(***************************************************************************)
Done(c) == [server EXCEPT !.pc = "serve", !.ready = @ \ {c}, !.cur = NoConn, !.got = <<>>, !.try = 0]

RecvUnbounded(c, try) ==
    \/ /\ conns[c].up = <<>> /\ ~conns[c].cli
       /\ conns' = Deleted(c) /\ server' = Done(c) /\ UNCHANGED ran
    \/ \E n \in 1..Len(conns[c].up) :
         LET got == server.got \o SubSeq(conns[c].up, 1, n)
         IN \/ /\ got[Len(got)].last
               /\ Execute(c, got)
               /\ server' = Done(c)
            \/ /\ ~got[Len(got)].last
               /\ conns' = [conns EXCEPT ![c].up = SubSeq(@, n + 1, Len(@))]
               /\ server' = [server EXCEPT !.pc = "piece", !.cur = c, !.got = got, !.try = try]
               /\ UNCHANGED ran

Recv(c, try) ==
    \/ /\ conns[c].up = <<>> /\ ~conns[c].cli
       /\ conns' = Deleted(c) /\ server' = Done(c) /\ UNCHANGED ran
    \/ \E n \in 1..Len(conns[c].up) :
         LET got == server.got \o SubSeq(conns[c].up, 1, n)
         IN \/ /\ Len(got) >= BufLen
               /\ conns' = Deleted(c) /\ server' = Done(c) /\ UNCHANGED ran
            \/ /\ Len(got) < BufLen
               /\ got[Len(got)].last
               /\ Execute(c, got)
               /\ server' = Done(c)
            \/ /\ Len(got) < BufLen
               /\ ~got[Len(got)].last
               /\ conns' = [conns EXCEPT ![c].up = SubSeq(@, n + 1, Len(@))]
               /\ server' = [server EXCEPT !.pc = "piece", !.cur = c, !.got = got, !.try = try]
               /\ UNCHANGED ran

ServeClient ==
    /\ server.pc = "serve"
    /\ \E c \in server.ready : Recv(c, 0)
    /\ UNCHANGED <<client, issued, written, timeouts>>

(***************************************************************************)
(* The select on the one client whose request is incomplete: more of it    *)
(* came, or 500 ms passed.  The selects of the whole request are counted,  *)
(* so that only one wait is allowed after many pieces.                     *)
(***************************************************************************)
Tried == IF server.try < MaxTries THEN server.try + 1 ELSE MaxTries

PieceComes ==
    /\ server.pc = "piece"
    /\ Readable(server.cur)
    /\ Recv(server.cur, Tried)
    /\ UNCHANGED <<client, issued, written, timeouts>>

PieceWaitForever ==
    /\ server.pc = "piece"
    /\ ~Readable(server.cur)
    /\ server' = [server EXCEPT !.try = Tried]
    /\ UNCHANGED <<conns, client, ran, issued, written, timeouts>>

PieceWait ==
    /\ server.pc = "piece"
    /\ ~Readable(server.cur)
    /\ IF Tried < MaxTries
       THEN server' = [server EXCEPT !.try = Tried] /\ UNCHANGED conns
       ELSE server' = Done(server.cur) /\ conns' = Deleted(server.cur)
    /\ UNCHANGED <<client, ran, issued, written, timeouts>>

(***************************************************************************)
(* unix_manager_accept: take the oldest connection and read its greeting,  *)
(* for a bounded time; only a short, well-formed one of the right version  *)
(* is answered and makes the connection a client.                          *)
(***************************************************************************)
ServedAll ==
    /\ server.pc = "serve" /\ server.ready = {}
    /\ IF server.acc
       THEN \E c \in Oldest(Backlog) : server' = [server EXCEPT !.pc = "accept", !.cur = c]
       ELSE server' = IdleServer
    /\ UNCHANGED <<conns, client, ran, issued, written, timeouts>>

Greeting(up) == Len(up) = 1 /\ up[1].kind = "hello" /\ up[1].last

Greet ==
    /\ server.pc = "accept"
    /\ Readable(server.cur)
    /\ LET c == server.cur
       IN conns' = IF Greeting(conns[c].up) /\ conns[c].cli
                   THEN [conns EXCEPT ![c].srv = "open", ![c].up = <<>>,
                                      ![c].down = IF conns[c].owner \in Clients
                                                  THEN Append(@, [req |-> NoReq, ok |-> TRUE])
                                                  ELSE @]
                   ELSE Deleted(c)
    /\ server' = IdleServer
    /\ UNCHANGED <<client, ran, issued, written, timeouts>>

GreetTimeout ==
    /\ server.pc = "accept"
    /\ ~Readable(server.cur)
    /\ conns' = Deleted(server.cur)
    /\ server' = IdleServer
    /\ UNCHANGED <<client, ran, issued, written, timeouts>>

-----------------------------------------------------------------------------
(***************************************************************************)
(* The Go client.                                                          *)
(***************************************************************************)
Unused == {c \in Conns : conns[c].srv = "none"}

Connected(c, owner) == [conns EXCEPT ![c] = [FreshConn EXCEPT !.owner = owner, !.srv = "backlog", !.cli = TRUE]]

(***************************************************************************)
(* A closed end is not read any more; what it wrote still is.              *)
(***************************************************************************)
Closed(c) ==
    [conns EXCEPT ![c] = IF @.srv = "closed" THEN Spent ELSE [@ EXCEPT !.cli = FALSE, !.down = <<>>]]

CloseConn(k) == conns' = Closed(client[k].conn) /\ client' = [client EXCEPT ![k] = IdleClient]

(***************************************************************************)
(* RunCommand without a connection dials: connect, then write the version. *)
(***************************************************************************)
Dial(k) ==
    /\ client[k].pc = "idle"
    /\ issued < MaxRequests
    /\ \E c \in Oldest(Unused) :
         /\ conns' = Connected(c, k)
         /\ client' = [client EXCEPT ![k] = [IdleClient EXCEPT !.pc = "dialed", !.conn = c]]
    /\ UNCHANGED <<server, ran, issued, written, timeouts>>

Write(c, ps) == [conns EXCEPT ![c].up = @ \o ps]

WriteFails(k) ==
    /\ client[k].pc \in {"dialed", "ready"}
    /\ conns[client[k].conn].srv = "closed"
    /\ CloseConn(k)
    /\ UNCHANGED <<server, ran, issued, written, timeouts>>

SendHello(k) ==
    /\ client[k].pc = "dialed"
    /\ conns[client[k].conn].srv # "closed"
    /\ conns' = Write(client[k].conn, <<Piece(NoReq, "hello", TRUE)>>)
    /\ client' = [client EXCEPT ![k].pc = "hello"]
    /\ UNCHANGED <<server, ran, issued, written, timeouts>>

(***************************************************************************)
(* RunCommand on an open connection writes the command, which may reach    *)
(* the worker in two pieces.                                               *)
(***************************************************************************)
SendCommand(k) ==
    /\ client[k].pc = "ready"
    /\ conns[client[k].conn].srv # "closed"
    /\ issued < MaxRequests
    /\ issued' = issued + 1
    /\ \E kind \in {"known", "unknown"}, parts \in {<<TRUE>>, <<FALSE, TRUE>>} :
         conns' = Write(client[k].conn, [i \in 1..Len(parts) |-> Piece(issued', kind, parts[i])])
    /\ client' = [client EXCEPT ![k].pc = "waiting", ![k].req = issued']
    /\ UNCHANGED <<server, ran, written, timeouts>>

(***************************************************************************)
(* recv: a line, an end of the stream, or the deadline.  An error closes   *)
(* the connection; an answer that is not OK keeps it.                      *)
(***************************************************************************)
TakeAnswer(k) ==
    LET c == client[k].conn
    IN /\ client[k].pc \in {"hello", "waiting"}
       /\ conns[c].down # <<>>
       /\ conns' = [conns EXCEPT ![c].down = Tail(@)]
       /\ client' = [client EXCEPT ![k].pc = "ready",
                                   ![k].answer = Head(conns[c].down)]
       /\ UNCHANGED <<server, ran, issued, written, timeouts>>

EndOfStream(k) ==
    /\ client[k].pc \in {"hello", "waiting"}
    /\ conns[client[k].conn].srv = "closed" /\ conns[client[k].conn].down = <<>>
    /\ CloseConn(k)
    /\ UNCHANGED <<server, ran, issued, written, timeouts>>

TimeoutKeepsConn(k) ==
    /\ client[k].pc \in {"hello", "waiting"}
    /\ timeouts < MaxTimeouts
    /\ timeouts' = timeouts + 1
    /\ client' = [client EXCEPT ![k] = [IdleClient EXCEPT !.pc = "ready", !.conn = client[k].conn]]
    /\ UNCHANGED <<conns, server, ran, issued, written>>

Timeout(k) ==
    /\ client[k].pc \in {"hello", "waiting"}
    /\ timeouts < MaxTimeouts
    /\ timeouts' = timeouts + 1
    /\ CloseConn(k)
    /\ UNCHANGED <<server, ran, issued, written>>

Close(k) ==
    /\ client[k].pc = "ready"
    /\ CloseConn(k)
    /\ UNCHANGED <<server, ran, issued, written, timeouts>>

-----------------------------------------------------------------------------
(***************************************************************************)
(* Peers: one connection at a time, on which a peer writes greetings and   *)
(* commands, whole, in part or longer than the request buffer, in any      *)
(* order.                                                                  *)
(***************************************************************************)
Overlong == [i \in 1..BufLen |-> FALSE]

PeerConnects(p) ==
    /\ \A c \in Conns : conns[c].owner = p => ~conns[c].cli
    /\ \E c \in Oldest(Unused) : conns' = Connected(c, p)
    /\ UNCHANGED <<server, client, ran, issued, written, timeouts>>

PeerWrites(p) ==
    /\ written < MaxPieces
    /\ written' = written + 1
    /\ \E c \in Conns, kind \in {"hello", "known"}, parts \in {<<TRUE>>, <<FALSE>>, Overlong} :
         /\ conns[c].owner = p /\ conns[c].cli /\ conns[c].srv # "closed"
         /\ conns' = Write(c, [i \in 1..Len(parts) |-> Piece(NoReq, kind, parts[i])])
    /\ UNCHANGED <<server, client, ran, issued, timeouts>>

PeerCloses(p) ==
    /\ \E c \in Conns : conns[c].owner = p /\ conns[c].cli /\ conns' = Closed(c)
    /\ UNCHANGED <<server, client, ran, issued, written, timeouts>>

-----------------------------------------------------------------------------
Serve == Select \/ ServeClient \/ PieceComes \/ PieceWait \/ ServedAll \/ Greet \/ GreetTimeout

ClientStep(k) == Dial(k) \/ SendHello(k) \/ WriteFails(k) \/ SendCommand(k) \/ TakeAnswer(k) \/ EndOfStream(k)

Next ==
    \/ Serve \/ SelectFails
    \/ \E k \in Clients : ClientStep(k) \/ Timeout(k) \/ Close(k)
    \/ \E p \in Peers : PeerConnects(p) \/ PeerWrites(p) \/ PeerCloses(p)

Spec == Init /\ [][Next]_vars

(***************************************************************************)
(* The thread is scheduled and its waits end; a client takes what it was   *)
(* answered.  No deadline of a client is assumed to fire.                  *)
(***************************************************************************)
FairSpec == Spec /\ WF_vars(Serve) /\ \A k \in Clients : WF_vars(TakeAnswer(k) \/ EndOfStream(k))

-----------------------------------------------------------------------------
(***************************************************************************)
(* Types, and that what the thread has read of a request always leaves     *)
(* room in its buffer (unix_client_recv).                                  *)
(***************************************************************************)
TypeOK ==
    /\ \A c \in Conns :
         /\ conns[c].srv \in {"none", "backlog", "open", "closed"}
         /\ conns[c].up \in Seq(Pieces) /\ conns[c].down \in Seq(Replies)
    /\ server.pc \in {"select", "serve", "piece", "accept", "dead"}
    /\ server.ready \subseteq InList
    /\ server.got \in Seq(Pieces) /\ Len(server.got) < BufLen
    /\ server.cur # NoConn => server.cur \in IF server.pc = "accept" THEN Backlog ELSE InList
    /\ \A k \in Clients : client[k].pc \in {"idle", "dialed", "hello", "ready", "waiting"}

(***************************************************************************)
(* The answer a client takes is the answer to the request it just sent,    *)
(* and OK means that the command ran, once: a call that failed or timed    *)
(* out closes its connection (unix_client.go RunCommand), so that no late  *)
(* answer is left for the next call.                                       *)
(***************************************************************************)
AnswerIsMine ==
    \A k \in Clients :
        client[k].pc = "ready" =>
            /\ client[k].answer.req = client[k].req
            /\ client[k].answer.ok /\ client[k].req # NoReq => ran[client[k].req] = 1

(***************************************************************************)
(* A client that waits for its greeting or its command gets an answer or   *)
(* an end of its connection, though no deadline of its own fires, whatever *)
(* peers connect, stall or write: every wait of the thread is bounded      *)
(* (unix-manager.c), and it accepts in every round.                        *)
(***************************************************************************)
CallsEnd ==
    \A k \in Clients :
        client[k].pc \in {"hello", "waiting"} ~>
            client[k].pc \notin {"hello", "waiting"} \/ server.pc = "dead"
=============================================================================
