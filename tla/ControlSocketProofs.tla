------------------------- MODULE ControlSocketProofs -------------------------
(***************************************************************************)
(* An answer belongs to the request of the call that takes it, for any     *)
(* number of clients, peers, connections, requests and timeouts.           *)
(*                                                                         *)
(* The invariant follows a request through its connection: it is written   *)
(* once, whole or in two pieces, is nowhere else, and its answer is the    *)
(* only one that its client can find.                                      *)
(***************************************************************************)
EXTENDS ControlSocket, SequenceTheorems, TLAPS

(***************************************************************************)
(* Types of all variables.                                                 *)
(***************************************************************************)
ConnType ==
    [owner : Clients \cup Peers \cup {NoConn}, srv : {"none", "backlog", "open", "closed"},
     cli : BOOLEAN, up : Seq(Pieces), down : Seq(Replies)]

ServerType ==
    [pc : {"select", "serve", "piece", "accept", "dead"}, ready : SUBSET Conns, acc : BOOLEAN,
     cur : Conns \cup {NoConn}, got : Seq(Pieces), try : Nat]

ClientType ==
    [pc : {"idle", "dialed", "hello", "ready", "waiting"}, conn : Conns \cup {NoConn},
     req : Requests \cup {NoReq}, answer : Replies]

Types ==
    /\ conns \in [Conns -> ConnType]
    /\ server \in ServerType
    /\ client \in [Clients -> ClientType]
    /\ ran \in [Requests -> Nat]
    /\ issued \in Nat /\ issued <= MaxRequests
    /\ written \in Nat
    /\ timeouts \in Nat

(***************************************************************************)
(* The thread: between its waits it holds no piece of a request; while it  *)
(* serves, the clients it has selected are in its list.                    *)
(***************************************************************************)
ServerInv ==
    /\ server.ready \subseteq InList
    /\ server.pc \in {"select", "dead"} =>
          server.ready = {} /\ server.cur = NoConn /\ server.got = <<>>
    /\ server.pc = "serve" => server.cur = NoConn /\ server.got = <<>>
    /\ server.pc = "piece" => server.cur \in server.ready /\ server.got # <<>>
    /\ server.pc = "accept" => server.cur \in Backlog /\ server.got = <<>> /\ server.ready = {}
    /\ Len(server.got) < BufLen

(***************************************************************************)
(* The ends of a connection: an open one of a client is the one the client *)
(* uses, and nobody else has an answer to read.                            *)
(***************************************************************************)
EndsInv ==
    /\ \A c \in Conns : conns[c].srv = "none" => conns[c] = FreshConn
    /\ \A c \in Conns : ~conns[c].cli => conns[c].down = <<>>
    /\ \A c \in Conns : conns[c].cli => conns[c].owner \in Clients \cup Peers
    /\ \A c \in Conns : conns[c].cli /\ conns[c].owner \in Clients =>
          client[conns[c].owner].pc # "idle" /\ client[conns[c].owner].conn = c
    /\ \A k \in Clients : client[k].pc # "idle" =>
          /\ client[k].conn \in Conns
          /\ conns[client[k].conn].owner = k
          /\ conns[client[k].conn].cli

(***************************************************************************)
(* The pieces that the thread holds of a request of c, and the requests    *)
(* that can still be executed for connection c.                            *)
(***************************************************************************)
Got(c) == IF server.pc = "piece" /\ server.cur = c THEN server.got ELSE <<>>

Pending(c) ==
    {conns[c].up[i].req : i \in 1 .. Len(conns[c].up)} \cup {Got(c)[i].req : i \in 1 .. Len(Got(c))}

(***************************************************************************)
(* A request is pending on one connection only, the one its client uses.   *)
(***************************************************************************)
PendingInv ==
    /\ \A c \in Conns : \A r \in Pending(c) :
          /\ r <= issued
          /\ r # NoReq => \A k \in Clients :
                client[k].pc # "idle" /\ client[k].req = r => client[k].conn = c
    /\ \A k \in Clients : client[k].req <= issued
    /\ \A r \in Requests : r > issued => ran[r] = 0

(***************************************************************************)
(* What is on the connection of a client, by what the client does.         *)
(***************************************************************************)
Silent(c) == conns[c].up = <<>> /\ Got(c) = <<>> /\ conns[c].down = <<>>

Greeted(c) ==
    /\ conns[c].up = <<>>
    /\ Got(c) = <<>>
    /\ conns[c].down = <<[req |-> NoReq, ok |-> TRUE]>>
    /\ conns[c].srv # "backlog"

Greets(c) ==
    /\ conns[c].srv = "backlog"
    /\ conns[c].up = <<Piece(NoReq, "hello", TRUE)>>
    /\ Got(c) = <<>>
    /\ conns[c].down = <<>>

Asks(c, r) ==
    /\ conns[c].srv = "open"
    /\ conns[c].down = <<>>
    /\ ran[r] = 0
    /\ \E kind \in {"known", "unknown"} :
         \/ Got(c) = <<>> /\ conns[c].up = <<Piece(r, kind, TRUE)>>
         \/ Got(c) = <<>> /\ conns[c].up = <<Piece(r, kind, FALSE), Piece(r, kind, TRUE)>>
         \/ Got(c) = <<Piece(r, kind, FALSE)>> /\ conns[c].up = <<Piece(r, kind, TRUE)>>

Answered(c, r) ==
    /\ conns[c].up = <<>>
    /\ Got(c) = <<>>
    /\ conns[c].srv # "backlog"
    /\ \E ok \in BOOLEAN : conns[c].down = <<[req |-> r, ok |-> ok]>> /\ (ok => ran[r] = 1)

CallInv(k) ==
    LET c == client[k].conn
    IN /\ client[k].pc \in {"idle", "dialed", "hello"} => client[k].req = NoReq
       /\ client[k].pc = "dialed" => conns[c].srv # "open" /\ Silent(c)
       /\ client[k].pc = "hello" =>
             Greets(c) \/ Greeted(c) \/ (conns[c].srv = "closed" /\ Silent(c))
       /\ client[k].pc = "ready" =>
             /\ conns[c].srv # "backlog" /\ Silent(c)
             /\ client[k].answer.req = client[k].req
             /\ client[k].answer.ok /\ client[k].req # NoReq => ran[client[k].req] = 1
       /\ client[k].pc = "waiting" =>
             /\ client[k].req # NoReq
             /\ \/ Asks(c, client[k].req)
                \/ Answered(c, client[k].req)
                \/ conns[c].srv = "closed" /\ Silent(c)

CInv ==
    /\ Types
    /\ ServerInv
    /\ EndsInv
    /\ PendingInv
    /\ \A k \in Clients : CallInv(k)

-----------------------------------------------------------------------------
(* A sequence is cut in two. *)
LEMMA Cut ==
    ASSUME NEW s \in Seq(Pieces), NEW n \in 1 .. Len(s)
    PROVE  /\ SubSeq(s, 1, n) \in Seq(Pieces)
           /\ Len(SubSeq(s, 1, n)) = n
           /\ \A i \in 1 .. n : SubSeq(s, 1, n)[i] = s[i]
           /\ SubSeq(s, n + 1, Len(s)) \in Seq(Pieces)
           /\ Len(SubSeq(s, n + 1, Len(s))) = Len(s) - n
           /\ \A i \in 1 .. (Len(s) - n) : SubSeq(s, n + 1, Len(s))[i] = s[n + i]
<1>1. Len(s) \in Nat /\ n \in Int /\ n + 1 \in Int /\ Len(s) \in Int /\ 1 \in Int
    OBVIOUS
<1>2. \A i \in 1 .. Len(s) : s[i] \in Pieces
    OBVIOUS
<1>3. (\A i \in 1 .. n : s[i] \in Pieces) /\ (\A i \in (n + 1) .. Len(s) : s[i] \in Pieces)
    BY <1>1, <1>2
<1>4. /\ SubSeq(s, 1, n) \in Seq(Pieces)
      /\ Len(SubSeq(s, 1, n)) = IF 1 <= n THEN n - 1 + 1 ELSE 0
      /\ \A i \in 1 .. n - 1 + 1 : SubSeq(s, 1, n)[i] = s[1 + i - 1]
    BY <1>1, <1>3, SubSeqProperties
<1>5. /\ SubSeq(s, n + 1, Len(s)) \in Seq(Pieces)
      /\ Len(SubSeq(s, n + 1, Len(s))) = IF n + 1 <= Len(s) THEN Len(s) - (n + 1) + 1 ELSE 0
      /\ \A i \in 1 .. Len(s) - (n + 1) + 1 : SubSeq(s, n + 1, Len(s))[i] = s[n + 1 + i - 1]
    BY <1>1, <1>3, SubSeqProperties
<1> QED BY <1>1, <1>4, <1>5

(* Two sequences are joined. *)
LEMMA Joined ==
    ASSUME NEW s \in Seq(Pieces), NEW t \in Seq(Pieces)
    PROVE  /\ s \o t \in Seq(Pieces)
           /\ Len(s \o t) = Len(s) + Len(t)
           /\ \A i \in 1 .. Len(s) : (s \o t)[i] = s[i]
           /\ \A i \in 1 .. Len(t) : (s \o t)[Len(s) + i] = t[i]
<1>1. /\ s \o t \in Seq(Pieces)
      /\ Len(s \o t) = Len(s) + Len(t)
      /\ \A i \in 1 .. Len(s) + Len(t) : (s \o t)[i] = IF i <= Len(s) THEN s[i] ELSE t[i - Len(s)]
    BY ConcatProperties, Zenon
<1>2. Len(s) \in Nat /\ Len(t) \in Nat
    OBVIOUS
<1>3. \A i \in 1 .. Len(s) : (s \o t)[i] = s[i]
    BY <1>1, <1>2
<1>4. ASSUME NEW i \in 1 .. Len(t) PROVE (s \o t)[Len(s) + i] = t[i]
  <2>1. Len(s) + i \in 1 .. Len(s) + Len(t) /\ ~(Len(s) + i <= Len(s)) /\ Len(s) + i - Len(s) = i
      BY <1>2
  <2> QED BY <1>1, <2>1
<1> QED BY <1>1, <1>3, <1>4, Zenon

(* A sequence of one element. *)
LEMMA One ==
    ASSUME NEW s \in Seq(Pieces), Len(s) = 1
    PROVE  s = <<s[1]>>
<1>1. <<s[1]>> \in Seq(Pieces) /\ Len(<<s[1]>>) = 1 /\ <<s[1]>>[1] = s[1]
    OBVIOUS
<1> QED BY <1>1, SeqEqual

(* A sequence of two. *)
LEMMA Two ==
    ASSUME NEW s \in Seq(Pieces), Len(s) = 2
    PROVE  s = <<s[1], s[2]>>
<1>1. s[1] \in Pieces /\ s[2] \in Pieces
    OBVIOUS
<1>2. /\ <<s[1], s[2]>> \in Seq(Pieces) /\ Len(<<s[1], s[2]>>) = 2
      /\ \A i \in 1 .. 2 : <<s[1], s[2]>>[i] = s[i]
    BY <1>1
<1> QED BY <1>2, SeqEqual, Zenon

-----------------------------------------------------------------------------
(* The call of a client is as it was when nothing of it or of its          *)
(* connection changed.                                                     *)
LEMMA CallFrame ==
    ASSUME NEW k \in Clients, CallInv(k), client'[k] = client[k],
           client[k].pc # "idle" =>
              /\ conns'[client[k].conn] = conns[client[k].conn]
              /\ \A c \in {client[k].conn} : Got(c)' = Got(c)
              /\ client[k].req # NoReq => ran'[client[k].req] = ran[client[k].req]
    PROVE  CallInv(k)'
<1> DEFINE c == client[k].conn
<1>1. CASE client[k].pc = "idle"
    BY <1>1, Zenon DEF CallInv
<1>2. CASE client[k].pc # "idle"
  <2>1. /\ conns'[c] = conns[c]
        /\ Got(c)' = Got(c)
        /\ c' = c
        /\ client[k].req # NoReq => ran'[client[k].req] = ran[client[k].req]
      BY <1>2, Zenon DEF Got
  <2>2. Silent(c)' = Silent(c) /\ Greeted(c)' = Greeted(c) /\ Greets(c)' = Greets(c)
      BY <2>1, Zenon DEF Silent, Greeted, Greets
  <2>3. client[k].req # NoReq =>
           Asks(c, client[k].req)' = Asks(c, client[k].req) /\ Answered(c, client[k].req)' = Answered(c, client[k].req)
      BY <2>1, Zenon DEF Asks, Answered
  <2> QED BY <2>1, <2>2, <2>3, Zenon DEF CallInv
<1> QED BY <1>1, <1>2, Zenon

(* What unix_client_delete leaves of a connection. *)
LEMMA DeletedConn ==
    ASSUME Types, NEW c \in Conns, conns' = Deleted(c)
    PROVE  /\ conns' \in [Conns -> ConnType]
           /\ \A d \in Conns : d # c => conns'[d] = conns[d]
           /\ conns'[c].srv = "closed" /\ conns'[c].up = <<>> /\ conns'[c].cli = conns[c].cli
           /\ conns[c].cli => conns'[c].owner = conns[c].owner /\ conns'[c].down = conns[c].down
           /\ ~conns[c].cli => conns'[c].down = <<>>
<1>1. conns[c] \in ConnType
    BY Zenon DEF Types
<1>. <<>> \in Seq(Pieces) /\ <<>> \in Seq(Replies)
    OBVIOUS
<1>2. Spent \in ConnType /\ Spent.srv = "closed" /\ Spent.up = <<>> /\ Spent.cli = FALSE /\ Spent.down = <<>>
    BY Zenon DEF Spent, FreshConn, ConnType
<1>3. /\ [conns[c] EXCEPT !.srv = "closed", !.up = <<>>] \in ConnType
      /\ [conns[c] EXCEPT !.srv = "closed", !.up = <<>>].srv = "closed"
      /\ [conns[c] EXCEPT !.srv = "closed", !.up = <<>>].up = <<>>
      /\ [conns[c] EXCEPT !.srv = "closed", !.up = <<>>].cli = conns[c].cli
      /\ [conns[c] EXCEPT !.srv = "closed", !.up = <<>>].owner = conns[c].owner
      /\ [conns[c] EXCEPT !.srv = "closed", !.up = <<>>].down = conns[c].down
    BY <1>1, Zenon DEF ConnType
<1>4. conns' = [conns EXCEPT ![c] = IF conns[c].cli THEN [conns[c] EXCEPT !.srv = "closed", !.up = <<>>]
                                   ELSE Spent]
    BY Zenon DEF Deleted
<1>5. conns'[c] = IF conns[c].cli THEN [conns[c] EXCEPT !.srv = "closed", !.up = <<>>] ELSE Spent
    BY <1>4, Zenon DEF Types
<1>6. \A d \in Conns : d # c => conns'[d] = conns[d]
    BY <1>4, Zenon DEF Types
<1>7. conns[c].cli \in BOOLEAN
    BY <1>1, Zenon DEF ConnType
<1>8. conns' \in [Conns -> ConnType]
    BY <1>2, <1>3, <1>4, Zenon DEF Types
<1> QED BY <1>2, <1>3, <1>5, <1>6, <1>7, <1>8, Zenon

(* A step that changes one connection and writes no request to it keeps    *)
(* the invariant if the client of that connection is served properly.      *)
LEMMA OneConn ==
    ASSUME CInv, NEW c \in Conns, conns' \in [Conns -> ConnType],
           \A d \in Conns : d # c => conns'[d] = conns[d] /\ Got(d)' = Got(d),
           conns'[c].srv # "none",
           ~conns'[c].cli => conns'[c].down = <<>>,
           conns'[c].cli => conns[c].cli /\ conns'[c].owner = conns[c].owner,
           conns[c].cli /\ conns[c].owner \in Clients => conns'[c].cli,
           UNCHANGED <<client, issued>>, written' \in Nat, timeouts' \in Nat,
           server' \in ServerType, ServerInv',
           ran' \in [Requests -> Nat],
           \A r \in Requests : r \notin Pending(c) => ran'[r] = ran[r],
           Pending(c)' \subseteq Pending(c) \cup {NoReq},
           \A k \in Clients : client[k].pc # "idle" /\ client[k].conn = c => CallInv(k)'
    PROVE  CInv'
<1>1. client' = client /\ issued' = issued
    OBVIOUS
<1>2. Types'
    BY <1>1, Zenon DEF CInv, Types
<1>3. EndsInv'
  <2>1. EndsInv
      BY Zenon DEF CInv
  <2>2. /\ \A d \in Conns : conns'[d].srv = "none" => conns'[d] = FreshConn
        /\ \A d \in Conns : ~conns'[d].cli => conns'[d].down = <<>>
      BY <2>1 DEF EndsInv
  <2>3. /\ \A d \in Conns : conns'[d].cli => conns'[d].owner \in Clients \cup Peers
        /\ \A d \in Conns : conns'[d].cli /\ conns'[d].owner \in Clients =>
              client'[conns'[d].owner].pc # "idle" /\ client'[conns'[d].owner].conn = d
      BY <1>1, <2>1 DEF EndsInv
  <2>4. \A k \in Clients : client[k].pc # "idle" =>
          /\ client[k].conn \in Conns
          /\ conns'[client[k].conn].owner = k
          /\ conns'[client[k].conn].cli
      BY <2>1 DEF EndsInv
  <2> QED BY <1>1, <2>2, <2>3, <2>4, Zenon DEF EndsInv
<1>4. \A d \in Conns : Pending(d)' \subseteq Pending(d) \cup {NoReq}
  <2>1. TAKE d \in Conns
  <2>2. CASE d # c
    <3>1. conns'[d] = conns[d] /\ Got(d)' = Got(d)
        BY <2>2, Zenon
    <3> QED BY <3>1 DEF Pending
  <2> QED BY <2>2, Zenon
<1>5. PendingInv'
  <2>1. PendingInv /\ issued \in Nat
      BY Zenon DEF CInv, Types
  <2>2. \A r \in Requests : r > issued => ran'[r] = 0
    <3>1. TAKE r \in Requests
    <3>2. SUFFICES ASSUME r > issued PROVE ran'[r] = 0
        OBVIOUS
    <3>3. r \notin Pending(c)
        BY <2>1, <3>2 DEF PendingInv, Requests
    <3> QED BY <2>1, <3>2, <3>3, Zenon DEF PendingInv
  <2>3. ASSUME NEW d \in Conns, NEW r \in Pending(d)'
        PROVE  /\ r <= issued
               /\ r # NoReq => \A k \in Clients :
                     client[k].pc # "idle" /\ client[k].req = r => client[k].conn = d
    <3>1. r \in Pending(d) \/ r = NoReq
        BY <1>4, <2>3, Zenon
    <3> QED BY <2>1, <3>1 DEF PendingInv, NoReq
  <2> QED BY <1>1, <2>1, <2>2, <2>3 DEF PendingInv
<1>6. ASSUME NEW k \in Clients PROVE CallInv(k)'
  <2>1. CallInv(k) /\ client[k] \in ClientType
      BY Zenon DEF CInv, Types
  <2>2. client[k].req # NoReq => client[k].req \in Requests
      BY <2>1, Zenon DEF ClientType
  <2>3. client[k].pc # "idle" => client[k].conn \in Conns
      BY Zenon DEF CInv, EndsInv
  <2>4. CASE client[k].pc = "idle" \/ client[k].conn # c
    <3>1. ASSUME client[k].pc # "idle", client[k].req # NoReq
          PROVE  client[k].req \notin Pending(c)
        BY <2>4, <3>1, Zenon DEF CInv, PendingInv
    <3>2. client[k].pc # "idle" =>
              /\ conns'[client[k].conn] = conns[client[k].conn]
              /\ \A d \in {client[k].conn} : Got(d)' = Got(d)
              /\ client[k].req # NoReq => ran'[client[k].req] = ran[client[k].req]
        BY <2>2, <2>3, <2>4, <3>1, Zenon
    <3> QED BY <1>1, <2>1, <3>2, CallFrame, Zenon
  <2>5. CASE client[k].pc # "idle" /\ client[k].conn = c
      BY <2>5, Zenon
  <2> QED BY <2>4, <2>5, Zenon
<1> QED BY <1>2, <1>3, <1>5, <1>6, Zenon DEF CInv

(* A client that has been deleted finds the end of the stream, after the   *)
(* answer it may have been given.                                          *)
LEMMA CallDeleted ==
    ASSUME CInv, NEW k \in Clients, client[k].pc # "idle", NEW c, client[k].conn = c,
           client' = client, conns'[c].down = conns[c].down, conns'[c].up = <<>>,
           conns'[c].srv = "closed", Got(c)' = <<>>,
           \A r \in Requests : r \notin Pending(c) => ran'[r] = ran[r]
    PROVE  CallInv(k)'
<1>1. CallInv(k) /\ client[k] \in ClientType
    BY Zenon DEF CInv, Types
<1>2. client[k].req # NoReq => client[k].req \in Requests
    BY <1>1, Zenon DEF ClientType
<1>3. Silent(c) => Silent(c)'
    BY Zenon DEF Silent
<1>4. Greets(c) => Silent(c)'
    BY Zenon DEF Greets, Silent
<1>5. Greeted(c) => Greeted(c)'
    BY Zenon DEF Greeted
<1>6. Asks(c, client[k].req) => Silent(c)'
    BY Zenon DEF Asks, Silent
<1>7. conns[c].up = <<>> /\ Got(c) = <<>> => Pending(c) = {}
    BY DEF Pending
<1>8. Silent(c) \/ Answered(c, client[k].req) =>
         (client[k].req # NoReq => ran'[client[k].req] = ran[client[k].req])
    BY <1>2, <1>7, Zenon DEF Silent, Answered
<1>9. client[k].req # NoReq => (Answered(c, client[k].req) => Answered(c, client[k].req)')
    BY <1>1, <1>8, Zenon DEF Answered
<1> QED BY <1>1, <1>3, <1>4, <1>5, <1>6, <1>8, <1>9, Zenon DEF CallInv

(* The deletion of a client, at the end of whatever made the thread delete *)
(* it, keeps the invariant: what was pending on its connection is lost.    *)
LEMMA DeleteKeeps ==
    ASSUME CInv, NEW c \in Conns, conns' = Deleted(c), conns[c].srv # "none",
           UNCHANGED <<client, issued, written, timeouts>>,
           server' \in ServerType, server'.pc # "piece", ServerInv',
           \A d \in Conns : d # c => Got(d) = <<>>,
           ran' \in [Requests -> Nat],
           \A r \in Requests : r \notin Pending(c) => ran'[r] = ran[r]
    PROVE  CInv'
<1>1. /\ conns' \in [Conns -> ConnType]
      /\ \A d \in Conns : d # c => conns'[d] = conns[d]
      /\ conns'[c].srv = "closed" /\ conns'[c].up = <<>> /\ conns'[c].cli = conns[c].cli
      /\ conns[c].cli => conns'[c].owner = conns[c].owner /\ conns'[c].down = conns[c].down
      /\ ~conns[c].cli => conns'[c].down = <<>>
    BY DeletedConn, Zenon DEF CInv
<1>2. client' = client
    OBVIOUS
<1>3. \A d \in Conns : Got(d)' = <<>>
    BY Zenon DEF Got
<1>4. Pending(c)' = {}
  <2>1. 1 .. Len(conns'[c].up) = {} /\ 1 .. Len(Got(c)') = {}
      BY <1>1, <1>3
  <2> QED BY <2>1, Zenon DEF Pending
<1>5. ASSUME NEW k \in Clients, client[k].pc # "idle", client[k].conn = c
      PROVE  CallInv(k)'
  <2>1. conns[c].cli
      BY <1>5, Zenon DEF CInv, EndsInv
  <2> QED BY <1>1, <1>2, <1>3, <1>5, <2>1, CallDeleted, Zenon
<1>6. written' \in Nat /\ timeouts' \in Nat /\ issued' = issued
    BY Zenon DEF CInv, Types
<1>7. \A d \in Conns : d # c => conns'[d] = conns[d] /\ Got(d)' = Got(d)
    BY <1>1, <1>3, Zenon
<1>8. /\ conns'[c].srv # "none"
      /\ ~conns'[c].cli => conns'[c].down = <<>>
      /\ conns'[c].cli => conns[c].cli /\ conns'[c].owner = conns[c].owner
      /\ conns[c].cli /\ conns[c].owner \in Clients => conns'[c].cli
    BY <1>1, Zenon
<1> QED BY <1>1, <1>2, <1>4, <1>5, <1>6, <1>7, <1>8, OneConn, Zenon

-----------------------------------------------------------------------------
(* What has been read of a request on c after a recv of n pieces, and what *)
(* that leaves.                                                            *)
Read(c, n) == server.got \o SubSeq(conns[c].up, 1, n)

Rest(c, n) == SubSeq(conns[c].up, n + 1, Len(conns[c].up))

(* All of it was pending. *)
LEMMA ReadPieces ==
    ASSUME Types, NEW c \in Conns, server.got = Got(c), NEW n \in 1 .. Len(conns[c].up)
    PROVE  /\ Read(c, n) \in Seq(Pieces) /\ Rest(c, n) \in Seq(Pieces)
           /\ Len(Read(c, n)) = Len(server.got) + n /\ Len(Rest(c, n)) = Len(conns[c].up) - n
           /\ \A i \in 1 .. Len(server.got) : Read(c, n)[i] = server.got[i]
           /\ \A i \in 1 .. n : Read(c, n)[Len(server.got) + i] = conns[c].up[i]
           /\ \A i \in 1 .. Len(Rest(c, n)) : Rest(c, n)[i] = conns[c].up[n + i]
           /\ \A i \in 1 .. Len(Read(c, n)) : Read(c, n)[i].req \in Pending(c)
           /\ \A i \in 1 .. Len(Rest(c, n)) : Rest(c, n)[i].req \in Pending(c)
<1> DEFINE up == conns[c].up
           new == SubSeq(up, 1, n)
           got == Read(c, n)
           rest == Rest(c, n)
<1>1. up \in Seq(Pieces) /\ server.got \in Seq(Pieces)
    BY Zenon DEF Types, ConnType, ServerType
<1>2. /\ new \in Seq(Pieces)
      /\ Len(new) = n
      /\ \A i \in 1 .. n : new[i] = up[i]
      /\ rest \in Seq(Pieces)
      /\ Len(rest) = Len(up) - n
      /\ \A i \in 1 .. (Len(up) - n) : rest[i] = up[n + i]
    BY <1>1, Cut, Zenon DEF Rest
<1>. HIDE DEF new, got, rest
<1>3. /\ got \in Seq(Pieces)
      /\ Len(got) = Len(server.got) + n
      /\ \A i \in 1 .. Len(server.got) : got[i] = server.got[i]
      /\ \A i \in 1 .. n : got[Len(server.got) + i] = new[i]
  <2>1. got = server.got \o new
      BY Zenon DEF new, got, Read
  <2> QED BY <1>1, <1>2, <2>1, Joined
<1>4. Len(up) \in Nat /\ Len(server.got) \in Nat /\ n \in Nat /\ n <= Len(up)
    BY <1>1
<1>5. \A i \in 1 .. n : up[i].req \in Pending(c)
    BY <1>4 DEF Pending
<1>6. \A i \in 1 .. Len(server.got) : server.got[i].req \in Pending(c)
    BY Zenon DEF Pending
<1>7. ASSUME NEW i \in 1 .. Len(got) PROVE got[i].req \in Pending(c)
  <2>1. CASE i <= Len(server.got)
      BY <1>3, <1>4, <1>6, <2>1
  <2>2. CASE i > Len(server.got)
    <3>1. PICK j \in 1 .. n : i = Len(server.got) + j
      <4>1. i - Len(server.got) \in 1 .. n /\ i = Len(server.got) + (i - Len(server.got))
          BY <1>3, <1>4, <2>2
      <4> QED BY <4>1, Zenon
    <3>2. got[i] = up[j]
        BY <1>2, <1>3, <3>1, Zenon
    <3> QED BY <1>5, <3>1, <3>2, Zenon
  <2> QED BY <2>1, <2>2, <1>3, <1>4
<1>8. ASSUME NEW i \in 1 .. Len(rest) PROVE rest[i].req \in Pending(c)
  <2>1. n + i \in 1 .. Len(up) /\ rest[i] = up[n + i]
      BY <1>2, <1>4
  <2> QED BY <2>1, Zenon DEF Pending
<1> QED BY <1>2, <1>3, <1>7, <1>8, Zenon DEF got, rest

(* A client whose connection is open and has something to read waits for   *)
(* the answer to it.                                                       *)
LEMMA Asking ==
    ASSUME CInv, NEW k \in Clients, client[k].pc # "idle", NEW c, c = client[k].conn,
           conns[c].srv = "open", conns[c].up # <<>>
    PROVE  client[k].pc = "waiting" /\ client[k].req \in Requests /\ Asks(c, client[k].req)
<1>1. CallInv(k) /\ client[k] \in ClientType
    BY Zenon DEF CInv, Types
<1>2. client[k].pc = "waiting" /\ client[k].req # NoReq /\ Asks(c, client[k].req)
    BY <1>1, Zenon DEF CallInv, Silent, Greeted, Greets, Answered, ClientType
<1> QED BY <1>1, <1>2, Zenon DEF ClientType

(* A request is read whole, or its first piece is. *)
LEMMA WholeOrPart ==
    ASSUME Types, NEW c \in Conns, server.got = Got(c), NEW n \in 1 .. Len(conns[c].up),
           NEW r \in Requests, Asks(c, r)
    PROVE  LET got == Read(c, n)
           IN /\ got[1].req = r
              /\ got[Len(got)].last => Rest(c, n) = <<>>
              /\ ~got[Len(got)].last => \E kind \in {"known", "unknown"} :
                    got = <<Piece(r, kind, FALSE)>> /\ Rest(c, n) = <<Piece(r, kind, TRUE)>>
<1> DEFINE got == Read(c, n)
           rest == Rest(c, n)
<1> SUFFICES /\ got[1].req = r
             /\ got[Len(got)].last => rest = <<>>
             /\ ~got[Len(got)].last => \E kind \in {"known", "unknown"} :
                   got = <<Piece(r, kind, FALSE)>> /\ rest = <<Piece(r, kind, TRUE)>>
    OBVIOUS
<1>1. /\ got \in Seq(Pieces) /\ rest \in Seq(Pieces)
      /\ Len(got) = Len(server.got) + n /\ Len(rest) = Len(conns[c].up) - n
      /\ \A i \in 1 .. Len(server.got) : got[i] = server.got[i]
      /\ \A i \in 1 .. n : got[Len(server.got) + i] = conns[c].up[i]
      /\ \A i \in 1 .. Len(rest) : rest[i] = conns[c].up[n + i]
    BY ReadPieces, Zenon
<1>2. PICK kind \in {"known", "unknown"} :
         \/ Got(c) = <<>> /\ conns[c].up = <<Piece(r, kind, TRUE)>>
         \/ Got(c) = <<>> /\ conns[c].up = <<Piece(r, kind, FALSE), Piece(r, kind, TRUE)>>
         \/ Got(c) = <<Piece(r, kind, FALSE)>> /\ conns[c].up = <<Piece(r, kind, TRUE)>>
    BY Zenon DEF Asks
<1> DEFINE first == Piece(r, kind, FALSE)
           whole == Piece(r, kind, TRUE)
<1>3. first.req = r /\ whole.req = r /\ first.last = FALSE /\ whole.last = TRUE
    BY Zenon DEF Piece
<1>. HIDE DEF first, whole, got, rest
<1>4. CASE server.got = <<>> /\ conns[c].up = <<whole>>
  <2>1. n = 1 /\ Len(got) = 1 /\ got[1] = whole /\ Len(rest) = 0 /\ rest = <<>>
      BY <1>1, <1>4
  <2> QED BY <1>1, <1>3, <2>1, Zenon
<1>5. CASE server.got = <<first>> /\ conns[c].up = <<whole>>
  <2>1. n = 1 /\ Len(server.got) = 1 /\ server.got[1] = first /\ conns[c].up[1] = whole
      BY <1>5
  <2>2. Len(got) = 2 /\ got[1] = first /\ got[2] = whole /\ Len(rest) = 0 /\ rest = <<>>
      BY <1>1, <1>5, <2>1
  <2> QED BY <1>1, <1>3, <2>2, Zenon
<1>6. CASE server.got = <<>> /\ conns[c].up = <<first, whole>>
  <2>1. n = 1 \/ n = 2
      BY <1>6
  <2>2. CASE n = 1
    <3>1. Len(got) = 1 /\ got[1] = first /\ Len(rest) = 1 /\ rest[1] = whole
        BY <1>1, <1>6, <2>2
    <3>2. got = <<first>> /\ rest = <<whole>>
        BY <1>1, <3>1, One, Zenon
    <3> QED BY <1>3, <3>1, <3>2, Zenon DEF first, whole
  <2>3. CASE n = 2
    <3>1. Len(got) = 2 /\ got[1] = first /\ got[2] = whole /\ Len(rest) = 0 /\ rest = <<>>
        BY <1>1, <1>6, <2>3
    <3> QED BY <1>1, <1>3, <3>1
  <2> QED BY <2>1, <2>2, <2>3, Zenon
<1> QED BY <1>2, <1>4, <1>5, <1>6, Zenon DEF first, whole

-----------------------------------------------------------------------------
(* The thread is done with c: it holds nothing and serves the others. *)
LEMMA DoneKeeps ==
    ASSUME CInv, NEW c \in Conns, server.pc \in {"serve", "piece"}, server' = Done(c),
           \A d \in Conns : d # c => conns'[d].srv = conns[d].srv
    PROVE  server' \in ServerType /\ server'.pc = "serve" /\ ServerInv'
<1>1. server \in ServerType /\ ServerInv
    BY Zenon DEF CInv, Types
<1>2. <<>> \in Seq(Pieces) /\ Len(<<>>) = 0 /\ 0 < BufLen
    BY SocketAssumption
<1>3. /\ server' \in ServerType
      /\ server'.pc = "serve" /\ server'.ready = server.ready \ {c}
      /\ server'.cur = NoConn /\ server'.got = <<>>
    BY <1>1, <1>2, Zenon DEF Done, ServerType
<1>4. server'.ready \subseteq InList'
    BY <1>1, <1>3 DEF ServerInv, InList, ServerType
<1> QED BY <1>2, <1>3, <1>4, Zenon DEF ServerInv

(* What the thread has in hand when it reads from c. *)
Serves(c) == c \in server.ready /\ (server.pc = "serve" \/ (server.pc = "piece" /\ server.cur = c))

LEMMA Serving ==
    ASSUME CInv, NEW c, Serves(c)
    PROVE  /\ c \in Conns /\ conns[c].srv = "open" /\ conns[c] \in ConnType
           /\ server \in ServerType /\ server.pc \in {"serve", "piece"}
           /\ server.got = Got(c)
           /\ \A d \in Conns : d # c => Got(d) = <<>>
<1>1. server \in ServerType /\ ServerInv /\ conns \in [Conns -> ConnType]
    BY Zenon DEF CInv, Types
<1>2. c \in InList
    BY <1>1, Zenon DEF Serves, ServerInv
<1>3. server.got = Got(c)
    BY <1>1, Zenon DEF Serves, ServerInv, Got
<1>4. \A d \in Conns : d # c => Got(d) = <<>>
    BY Zenon DEF Serves, Got
<1> QED BY <1>1, <1>2, <1>3, <1>4, Zenon DEF InList, Serves

(* A connection of which n pieces were read and to which something may     *)
(* have been answered.                                                     *)
LEMMA ReadConn ==
    ASSUME Types, NEW c \in Conns, NEW up \in Seq(Pieces), NEW down \in Seq(Replies),
           conns' = [conns EXCEPT ![c].up = up, ![c].down = down]
    PROVE  /\ conns' \in [Conns -> ConnType]
           /\ \A d \in Conns : d # c => conns'[d] = conns[d]
           /\ conns'[c].up = up /\ conns'[c].down = down /\ conns'[c].srv = conns[c].srv
           /\ conns'[c].cli = conns[c].cli /\ conns'[c].owner = conns[c].owner
<1>1. conns \in [Conns -> ConnType] /\ conns[c] \in ConnType
    BY Zenon DEF Types
<1>2. conns' = [conns EXCEPT ![c] = [conns[c] EXCEPT !.up = up, !.down = down]]
    BY <1>1, Zenon
<1>3. [conns[c] EXCEPT !.up = up, !.down = down] \in ConnType
    BY <1>1, Zenon DEF ConnType
<1>4. conns'[c] = [conns[c] EXCEPT !.up = up, !.down = down]
    BY <1>1, <1>2, Zenon
<1> QED BY <1>1, <1>2, <1>3, <1>4 DEF ConnType

(* A piece of a request without its newline is kept for the rest of it. *)
LEMMA PieceKeeps ==
    ASSUME CInv, NEW c, Serves(c), NEW n \in 1 .. Len(conns[c].up), NEW try \in Nat,
           Len(Read(c, n)) < BufLen, ~Read(c, n)[Len(Read(c, n))].last,
           conns' = [conns EXCEPT ![c].up = Rest(c, n)],
           server' = [server EXCEPT !.pc = "piece", !.cur = c, !.got = Read(c, n), !.try = try],
           UNCHANGED <<client, ran, issued, written, timeouts>>
    PROVE  CInv'
<1> DEFINE got == Read(c, n)
           rest == Rest(c, n)
<1>1. /\ c \in Conns /\ conns[c].srv = "open" /\ conns[c] \in ConnType
      /\ server \in ServerType /\ server.got = Got(c)
      /\ \A d \in Conns : d # c => Got(d) = <<>>
    BY Serving, Zenon
<1>2. Types /\ EndsInv /\ ServerInv /\ client' = client /\ ran' = ran /\ issued' = issued
    BY Zenon DEF CInv
<1>3. /\ got \in Seq(Pieces) /\ rest \in Seq(Pieces)
      /\ Len(got) = Len(server.got) + n
      /\ \A i \in 1 .. Len(got) : got[i].req \in Pending(c)
      /\ \A i \in 1 .. Len(rest) : rest[i].req \in Pending(c)
    BY <1>1, <1>2, ReadPieces, Zenon
<1>. HIDE DEF got, rest
<1>4. /\ conns' \in [Conns -> ConnType]
      /\ \A d \in Conns : d # c => conns'[d] = conns[d]
      /\ conns'[c].up = rest /\ conns'[c].down = conns[c].down /\ conns'[c].srv = conns[c].srv
      /\ conns'[c].cli = conns[c].cli /\ conns'[c].owner = conns[c].owner
  <2>1. conns' = [conns EXCEPT ![c].up = rest, ![c].down = conns[c].down]
      BY <1>1, <1>2, Zenon DEF rest, Types, ConnType
  <2>2. conns[c].down \in Seq(Replies)
      BY <1>1, Zenon DEF ConnType
  <2> QED BY <1>1, <1>2, <1>3, <2>1, <2>2, ReadConn
<1>5. server' = [server EXCEPT !.pc = "piece", !.cur = c, !.got = got, !.try = try]
    BY Zenon DEF got
<1>6. /\ server' \in ServerType
      /\ server'.pc = "piece" /\ server'.cur = c /\ server'.got = got /\ server'.ready = server.ready
    BY <1>1, <1>3, <1>5, Zenon DEF ServerType
<1>7. ServerInv'
  <2>1. InList' = InList
      BY <1>4, Zenon DEF InList
  <2>2. Len(got) < BufLen /\ got # <<>> /\ c \in server.ready
    <3>1. Len(server.got) \in Nat
        BY <1>1 DEF ServerType
    <3> QED BY <1>3, <3>1 DEF got, Serves
  <2> QED BY <1>2, <1>6, <2>1, <2>2, Zenon DEF ServerInv
<1>8. Got(c)' = got /\ \A d \in Conns : d # c => Got(d)' = <<>>
    BY <1>6, Zenon DEF Got
<1>9. Pending(c)' \subseteq Pending(c)
  <2>1. Pending(c)' = {rest[i].req : i \in 1 .. Len(rest)} \cup {got[i].req : i \in 1 .. Len(got)}
      BY <1>4, <1>8, Zenon DEF Pending
  <2> QED BY <1>3, <2>1, Zenon
<1>10. ASSUME NEW k \in Clients, client[k].pc # "idle", client[k].conn = c PROVE CallInv(k)'
  <2>1. conns[c].up # <<>>
      BY <1>1 DEF ConnType
  <2>2. client[k].pc = "waiting" /\ client[k].req \in Requests /\ Asks(c, client[k].req)
      BY <1>1, <1>10, <2>1, Asking, Zenon
  <2>3. PICK kind \in {"known", "unknown"} :
           got = <<Piece(client[k].req, kind, FALSE)>> /\ rest = <<Piece(client[k].req, kind, TRUE)>>
      BY <1>1, <1>2, <2>2, WholeOrPart, Zenon DEF got, rest
  <2>4. Asks(c, client[k].req)'
      BY <1>1, <1>2, <1>4, <1>8, <2>2, <2>3, Zenon DEF Asks
  <2>5. client[k].req # NoReq
      BY <2>2 DEF Requests, NoReq
  <2> QED BY <1>2, <1>10, <2>2, <2>4, <2>5, Zenon DEF CallInv
<1>11. /\ \A d \in Conns : d # c => conns'[d] = conns[d] /\ Got(d)' = Got(d)
       /\ conns'[c].srv # "none"
       /\ ~conns'[c].cli => conns'[c].down = <<>>
    BY <1>1, <1>2, <1>4, <1>8 DEF EndsInv
<1>12. written' \in Nat /\ timeouts' \in Nat /\ ran' \in [Requests -> Nat]
    BY <1>2, Zenon DEF Types
<1> QED BY <1>1, <1>2, <1>4, <1>6, <1>7, <1>9, <1>10, <1>11, <1>12, OneConn, Zenon

(* A request is answered: the client that sent it finds this answer only. *)
LEMMA AnswerKeeps ==
    ASSUME CInv, NEW c, Serves(c), NEW n \in 1 .. Len(conns[c].up), conns[c].cli,
           Read(c, n)[Len(Read(c, n))].last, NEW ok \in BOOLEAN,
           ok => Read(c, n)[1].kind = "known",
           conns' = [conns EXCEPT ![c].up = Rest(c, n),
                                  ![c].down = IF conns[c].owner \in Clients
                                              THEN Append(conns[c].down, [req |-> Read(c, n)[1].req, ok |-> ok])
                                              ELSE conns[c].down],
           ran' = IF Read(c, n)[1].kind = "known" /\ Read(c, n)[1].req # NoReq
                  THEN [ran EXCEPT ![Read(c, n)[1].req] = @ + 1] ELSE ran,
           server' = Done(c), UNCHANGED <<client, issued, written, timeouts>>
    PROVE  CInv'
<1> DEFINE got == Read(c, n)
           rest == Rest(c, n)
           line == got[1]
           reply == [req |-> line.req, ok |-> ok]
           down == IF conns[c].owner \in Clients THEN Append(conns[c].down, reply) ELSE conns[c].down
<1>1. /\ c \in Conns /\ conns[c].srv = "open" /\ conns[c] \in ConnType
      /\ server \in ServerType /\ server.pc \in {"serve", "piece"} /\ server.got = Got(c)
      /\ \A d \in Conns : d # c => Got(d) = <<>>
    BY Serving, Zenon
<1>2. Types /\ EndsInv /\ client' = client /\ issued' = issued
    BY Zenon DEF CInv
<1>3. /\ got \in Seq(Pieces) /\ rest \in Seq(Pieces)
      /\ Len(got) = Len(server.got) + n
      /\ \A i \in 1 .. Len(got) : got[i].req \in Pending(c)
      /\ \A i \in 1 .. Len(rest) : rest[i].req \in Pending(c)
    BY <1>1, <1>2, ReadPieces, Zenon
<1>. HIDE DEF got, rest
<1>4. line \in Pieces /\ line.req \in Pending(c)
  <2>1. Len(server.got) \in Nat
      BY <1>1 DEF ServerType
  <2>2. 1 \in 1 .. Len(got)
      BY <1>3, <2>1
  <2>3. line \in Pieces
      BY <1>3, <2>2
  <2>4. line.req \in Pending(c)
      BY <1>3, <2>2, Zenon
  <2> QED BY <2>3, <2>4, Zenon
<1>. HIDE DEF line
<1>5. reply \in Replies /\ reply.req = line.req /\ reply.ok = ok
    BY <1>4, Zenon DEF Replies, Pieces
<1>. HIDE DEF reply
<1>6. down \in Seq(Replies)
    BY <1>1, <1>5 DEF ConnType
<1>7. conns' = [conns EXCEPT ![c].up = rest, ![c].down = down]
    BY Zenon DEF rest, reply, line, got
<1>. HIDE DEF down
<1>8. /\ conns' \in [Conns -> ConnType]
      /\ \A d \in Conns : d # c => conns'[d] = conns[d]
      /\ conns'[c].up = rest /\ conns'[c].down = down /\ conns'[c].srv = conns[c].srv
      /\ conns'[c].cli = conns[c].cli /\ conns'[c].owner = conns[c].owner
    BY <1>1, <1>2, <1>3, <1>6, <1>7, ReadConn
<1>9. server' \in ServerType /\ server'.pc = "serve" /\ ServerInv'
    BY <1>1, <1>8, DoneKeeps, Zenon
<1>10. \A d \in Conns : Got(d)' = <<>>
    BY <1>9, Zenon DEF Got
<1>11. Pending(c)' \subseteq Pending(c)
  <2>1. 1 .. Len(Got(c)') = {}
      BY <1>1, <1>10
  <2>2. Pending(c)' = {rest[i].req : i \in 1 .. Len(rest)}
      BY <1>8, <2>1 DEF Pending
  <2> QED BY <1>3, <2>2, Zenon
<1>12. /\ ran' \in [Requests -> Nat]
       /\ \A r \in Requests : r \notin Pending(c) => ran'[r] = ran[r]
       /\ \A r \in Requests : ok /\ line.req = r => ran'[r] = ran[r] + 1
  <2>1. ran \in [Requests -> Nat] /\ (line.req # NoReq => line.req \in Requests)
      BY <1>2, <1>4, Zenon DEF Types, Pieces
  <2>2. ran' = IF line.kind = "known" /\ line.req # NoReq THEN [ran EXCEPT ![line.req] = ran[line.req] + 1] ELSE ran
      BY Zenon DEF line, got
  <2>3. ok => line.kind = "known"
      BY Zenon DEF line, got
  <2>4. NoReq \notin Requests
      BY DEF NoReq, Requests
  <2>5. CASE line.kind = "known" /\ line.req # NoReq
      BY <1>4, <2>1, <2>2, <2>5
  <2>6. CASE ~(line.kind = "known" /\ line.req # NoReq)
      BY <2>1, <2>2, <2>3, <2>4, <2>6, Zenon
  <2> QED BY <2>5, <2>6, Zenon
<1>13. ASSUME NEW k \in Clients, client[k].pc # "idle", client[k].conn = c PROVE CallInv(k)'
  <2>1. conns[c].up # <<>> /\ conns[c].owner = k
      BY <1>1, <1>2, <1>13 DEF ConnType, EndsInv
  <2>2. client[k].pc = "waiting" /\ client[k].req \in Requests /\ Asks(c, client[k].req)
      BY <1>1, <1>13, <2>1, Asking, Zenon
  <2>3. line.req = client[k].req /\ rest = <<>>
    <3>1. Read(c, n)[1].req = client[k].req
        BY <1>1, <1>2, <2>2, WholeOrPart, Zenon
    <3>2. Rest(c, n) = <<>>
        BY <1>1, <1>2, <2>2, WholeOrPart, Zenon
    <3> QED BY <3>1, <3>2, Zenon DEF got, rest, line
  <2>4. ran[client[k].req] = 0 /\ conns[c].down = <<>>
      BY <2>2, Zenon DEF Asks
  <2>5. down = <<reply>>
      BY <2>1, <2>4 DEF down
  <2>6. ok => ran'[client[k].req] = 1
      BY <1>12, <2>2, <2>3, <2>4
  <2>7. reply = [req |-> client[k].req, ok |-> ok]
      BY <2>3, Zenon DEF reply
  <2>8. Answered(c, client[k].req)'
      BY <1>1, <1>2, <1>8, <1>10, <2>3, <2>5, <2>6, <2>7, Zenon DEF Answered
  <2>9. client[k].req # NoReq
      BY <2>2 DEF Requests, NoReq
  <2> QED BY <1>2, <1>13, <2>2, <2>8, <2>9, Zenon DEF CallInv
<1>14. /\ \A d \in Conns : d # c => conns'[d] = conns[d] /\ Got(d)' = Got(d)
       /\ conns'[c].srv # "none"
       /\ conns'[c].cli
    BY <1>1, <1>8, <1>10, Zenon
<1>15. written' \in Nat /\ timeouts' \in Nat
    BY <1>2, Zenon DEF Types
<1> QED BY <1>1, <1>2, <1>8, <1>9, <1>11, <1>12, <1>13, <1>14, <1>15, OneConn, Zenon

(* The thread deletes the client it serves, having run only what was       *)
(* pending on its connection.                                              *)
LEMMA ServedDeleted ==
    ASSUME CInv, NEW c, Serves(c), conns' = Deleted(c), server' = Done(c),
           UNCHANGED <<client, issued, written, timeouts>>,
           \/ UNCHANGED ran
           \/ \E r \in Pending(c) \cap Requests : ran' = [ran EXCEPT ![r] = @ + 1]
    PROVE  CInv'
<1>1. /\ c \in Conns /\ conns[c].srv = "open" /\ server.pc \in {"serve", "piece"}
      /\ \A d \in Conns : d # c => Got(d) = <<>>
    BY Serving, Zenon
<1>2. Types
    BY Zenon DEF CInv
<1>3. \A d \in Conns : d # c => conns'[d].srv = conns[d].srv
    BY <1>1, <1>2, DeletedConn, Zenon
<1>4. server' \in ServerType /\ server'.pc = "serve" /\ ServerInv'
    BY <1>1, <1>3, DoneKeeps, Zenon
<1>5. ran' \in [Requests -> Nat] /\ \A r \in Requests : r \notin Pending(c) => ran'[r] = ran[r]
    BY <1>2 DEF Types
<1> QED BY <1>1, <1>4, <1>5, DeleteKeeps, Zenon

(* One recv of unix_client_recv. *)
LEMMA RecvKeeps ==
    ASSUME CInv, NEW c, Serves(c), NEW try \in Nat, Recv(c, try),
           UNCHANGED <<client, issued, written, timeouts>>
    PROVE  CInv'
<1>1. CASE conns' = Deleted(c) /\ server' = Done(c) /\ UNCHANGED ran
    BY <1>1, ServedDeleted, Zenon
<1>2. ASSUME NEW n \in 1 .. Len(conns[c].up),
             LET got == Read(c, n)
             IN /\ Len(got) < BufLen
                /\ got[Len(got)].last
                /\ Execute(c, got)
                /\ server' = Done(c)
      PROVE  CInv'
  <2> DEFINE got == Read(c, n)
             line == got[1]
             known == line.kind = "known"
             valid == WellFormed(got) /\ line.kind \in {"known", "unknown"}
  <2>1. /\ c \in Conns /\ conns[c] \in ConnType /\ server \in ServerType /\ server.got = Got(c)
      BY Serving, Zenon
  <2>2. got \in Seq(Pieces) /\ Len(got) = Len(server.got) + n /\ \A i \in 1 .. Len(got) : got[i].req \in Pending(c)
      BY <2>1, ReadPieces, Zenon DEF CInv
  <2>3. /\ got[Len(got)].last /\ server' = Done(c)
        /\ \/ ~valid /\ conns' = Deleted(c)
           \/ valid /\ ~conns[c].cli /\ conns' = Deleted(c)
           \/ /\ valid /\ conns[c].cli
              /\ \E ok \in IF known THEN BOOLEAN ELSE {FALSE} :
                   conns' = [conns EXCEPT ![c].up = SubSeq(conns[c].up, Len(got) - Len(server.got) + 1, Len(conns[c].up)),
                                          ![c].down = IF conns[c].owner \in Clients
                                                      THEN Append(conns[c].down, [req |-> line.req, ok |-> ok])
                                                      ELSE conns[c].down]
        /\ ran' = IF valid /\ known /\ line.req # NoReq THEN [ran EXCEPT ![line.req] = @ + 1] ELSE ran
      BY <1>2, Zenon DEF Execute
  <2>. HIDE DEF got, valid
  <2>4. line \in Pieces /\ line.req \in Pending(c)
    <3>1. Len(server.got) \in Nat /\ 1 \in 1 .. Len(got)
        BY <2>1, <2>2 DEF ServerType
    <3> QED BY <2>2, <3>1
  <2>5. CASE conns' = Deleted(c)
    <3>1. \/ UNCHANGED ran
          \/ \E r \in Pending(c) \cap Requests : ran' = [ran EXCEPT ![r] = @ + 1]
        BY <2>3, <2>4, Zenon DEF Pieces
    <3> QED BY <2>3, <2>5, <3>1, ServedDeleted, Zenon
  <2>6. CASE valid /\ conns[c].cli /\ conns' # Deleted(c)
    <3>1. Len(got) - Len(server.got) = n
      <4>1. Len(server.got) \in Nat
          BY <2>1 DEF ServerType
      <4> QED BY <2>2, <4>1
    <3>2. PICK ok \in IF known THEN BOOLEAN ELSE {FALSE} :
             conns' = [conns EXCEPT ![c].up = Rest(c, n),
                                    ![c].down = IF conns[c].owner \in Clients
                                                THEN Append(conns[c].down, [req |-> line.req, ok |-> ok])
                                                ELSE conns[c].down]
        BY <2>3, <2>6, <3>1, Zenon DEF Rest
    <3>3. ok \in BOOLEAN /\ (ok => line.kind = "known")
        BY <3>2, Zenon
    <3>4. ran' = IF line.kind = "known" /\ line.req # NoReq THEN [ran EXCEPT ![line.req] = @ + 1] ELSE ran
        BY <2>3, <2>6, Zenon
    <3> QED BY <2>3, <2>6, <3>2, <3>3, <3>4, AnswerKeeps, Zenon DEF got
  <2> QED BY <2>3, <2>5, <2>6, Zenon
<1>3. ASSUME NEW n \in 1 .. Len(conns[c].up),
             LET got == Read(c, n)
             IN /\ Len(got) < BufLen
                /\ ~got[Len(got)].last
                /\ conns' = [conns EXCEPT ![c].up = SubSeq(@, n + 1, Len(@))]
                /\ server' = [server EXCEPT !.pc = "piece", !.cur = c, !.got = got, !.try = try]
                /\ UNCHANGED ran
      PROVE  CInv'
  <2>1. conns' = [conns EXCEPT ![c].up = Rest(c, n)]
      BY <1>3, Zenon DEF Rest
  <2> QED BY <1>3, <2>1, PieceKeeps, Zenon
<1> QED BY <1>1, <1>2, <1>3, Zenon DEF Recv, Read

-----------------------------------------------------------------------------
(* A step of the thread that touches no connection. *)
LEMMA ThreadOnly ==
    ASSUME CInv, UNCHANGED <<conns, client, ran, issued, written, timeouts>>,
           server' \in ServerType, ServerInv', \A d \in Conns : Got(d)' = Got(d)
    PROVE  CInv'
<1>1. conns' = conns /\ client' = client /\ ran' = ran /\ issued' = issued
    OBVIOUS
<1>2. Types'
    BY Zenon DEF CInv, Types
<1>3. EndsInv'
    BY <1>1, Zenon DEF CInv, EndsInv
<1>4. \A d \in Conns : Pending(d)' = Pending(d)
    BY <1>1, Zenon DEF Pending
<1>5. PendingInv'
    BY <1>1, <1>4 DEF CInv, PendingInv
<1>6. ASSUME NEW k \in Clients PROVE CallInv(k)'
  <2>1. CallInv(k) /\ (client[k].pc # "idle" => client[k].conn \in Conns)
      BY Zenon DEF CInv, EndsInv
  <2> QED BY <1>1, <2>1, CallFrame, Zenon
<1> QED BY <1>2, <1>3, <1>5, <1>6, Zenon DEF CInv

(* The thread between two rounds. *)
LEMMA IdleThread ==
    /\ IdleServer \in ServerType /\ IdleServer.pc = "select" /\ IdleServer.ready = {}
    /\ IdleServer.cur = NoConn /\ IdleServer.got = <<>> /\ Len(IdleServer.got) < BufLen
<1>1. <<>> \in Seq(Pieces) /\ Len(<<>>) = 0 /\ 0 < BufLen
    BY SocketAssumption
<1> QED BY <1>1, Zenon DEF IdleServer, ServerType

(* The select that starts a round. *)
LEMMA SelectKeeps == CInv /\ Select => CInv'
<1> SUFFICES ASSUME CInv, Select PROVE CInv'
    OBVIOUS
<1>1. server \in ServerType /\ ServerInv /\ server.pc = "select" /\ conns' = conns
    BY Zenon DEF CInv, Types, Select
<1>2. /\ server' \in ServerType /\ server'.pc = "serve"
      /\ server'.cur = NoConn /\ server'.got = <<>> /\ server'.ready \subseteq InList
      /\ server.got = <<>>
    BY <1>1, Zenon DEF Select, ServerType, ServerInv, InList
<1>3. InList' = InList
    BY <1>1, Zenon DEF InList
<1>4. ServerInv'
    BY <1>1, <1>2, <1>3, Zenon DEF ServerInv
<1>5. \A d \in Conns : Got(d)' = Got(d)
    BY <1>1, <1>2, Zenon DEF Got
<1> QED BY <1>2, <1>4, <1>5, ThreadOnly, Zenon DEF Select

(* The first recv of a request. *)
LEMMA ServeClientKeeps == CInv /\ ServeClient => CInv'
<1> SUFFICES ASSUME CInv, ServeClient PROVE CInv'
    OBVIOUS
<1>1. PICK c : c \in server.ready /\ Recv(c, 0)
    BY Zenon DEF ServeClient
<1>2. server.pc = "serve"
    BY Zenon DEF ServeClient
<1>3. Serves(c) /\ 0 \in Nat
    BY <1>1, <1>2, Zenon DEF Serves
<1> QED BY <1>1, <1>3, RecvKeeps, Zenon DEF ServeClient

(* The selects counted for a request. *)
LEMMA TriedNat == CInv => Tried \in Nat
    BY SocketAssumption DEF CInv, Types, ServerType, Tried

(* The rest of a request comes. *)
LEMMA PieceComesKeeps == CInv /\ PieceComes => CInv'
<1> SUFFICES ASSUME CInv, PieceComes PROVE CInv'
    OBVIOUS
<1>1. PICK c : c = server.cur
    OBVIOUS
<1>2. PICK try : try = Tried
    OBVIOUS
<1>3. Serves(c)
    BY <1>1, Zenon DEF PieceComes, Serves, CInv, ServerInv
<1>4. try \in Nat
    BY <1>2, TriedNat, Zenon
<1>5. Recv(c, try)
    BY <1>1, <1>2, Zenon DEF PieceComes
<1> QED BY <1>3, <1>4, <1>5, RecvKeeps, Zenon DEF PieceComes

(* The rest of a request does not come, and at last is given up. *)
LEMMA PieceWaitKeeps == CInv /\ PieceWait => CInv'
<1> SUFFICES ASSUME CInv, PieceWait PROVE CInv'
    OBVIOUS
<1>1. PICK c : c = server.cur
    OBVIOUS
<1>2. Serves(c)
    BY <1>1, Zenon DEF PieceWait, Serves, CInv, ServerInv
<1>3. CASE Tried < MaxTries
  <2>1. PICK try : try = Tried
      OBVIOUS
  <2>2. try \in Nat
      BY <2>1, TriedNat
  <2>3. server \in ServerType /\ ServerInv /\ conns' = conns /\ server' = [server EXCEPT !.try = try]
      BY <1>3, <2>1, Zenon DEF CInv, Types, PieceWait
  <2>4. /\ server' \in ServerType /\ server'.pc = server.pc /\ server'.cur = server.cur
        /\ server'.got = server.got /\ server'.ready = server.ready
      BY <2>2, <2>3, Zenon DEF ServerType
  <2>5. ServerInv'
      BY <2>3, <2>4, Zenon DEF ServerInv, InList, Backlog
  <2>6. \A d \in Conns : Got(d)' = Got(d)
      BY <2>4, Zenon DEF Got
  <2> QED BY <1>3, <2>4, <2>5, <2>6, ThreadOnly, Zenon DEF PieceWait
<1>4. CASE ~(Tried < MaxTries)
  <2>1. server' = Done(c) /\ conns' = Deleted(c)
      BY <1>1, <1>4, Zenon DEF PieceWait
  <2> QED BY <1>2, <2>1, ServedDeleted, Zenon DEF PieceWait
<1> QED BY <1>3, <1>4, Zenon

(* The end of a round, or the accept of a connection. *)
LEMMA ServedAllKeeps == CInv /\ ServedAll => CInv'
<1> SUFFICES ASSUME CInv, ServedAll PROVE CInv'
    OBVIOUS
<1>1. server \in ServerType /\ ServerInv /\ server.pc = "serve" /\ conns' = conns /\ server.ready = {}
    BY Zenon DEF CInv, Types, ServedAll
<1>2. InList' = InList /\ Backlog' = Backlog
    BY <1>1, Zenon DEF InList, Backlog
<1>3. server' \in ServerType /\ ServerInv' /\ server'.pc # "piece"
  <2>1. CASE server.acc
    <3>1. PICK c \in Backlog : server' = [server EXCEPT !.pc = "accept", !.cur = c]
        BY <2>1, Zenon DEF ServedAll, Oldest
    <3>2. c \in Conns
        BY Zenon DEF Backlog
    <3>3. /\ server' \in ServerType /\ server'.pc = "accept" /\ server'.cur = c
          /\ server'.got = server.got /\ server'.ready = {}
        BY <1>1, <3>1, <3>2, Zenon DEF ServerType
    <3> QED BY <1>1, <1>2, <3>3, Zenon DEF ServerInv
  <2>2. CASE ~server.acc
    <3>1. server' = IdleServer
        BY <2>2, Zenon DEF ServedAll
    <3> QED BY <3>1, IdleThread, Zenon DEF ServerInv
  <2> QED BY <2>1, <2>2, Zenon
<1>4. \A d \in Conns : Got(d)' = Got(d)
    BY <1>1, <1>3, Zenon DEF Got
<1> QED BY <1>3, <1>4, ThreadOnly, Zenon DEF ServedAll

(* A connection that does not greet in time is closed. *)
LEMMA NotGreetedKeeps ==
    ASSUME CInv, server.pc = "accept", conns' = Deleted(server.cur), server' = IdleServer,
           UNCHANGED <<client, ran, issued, written, timeouts>>
    PROVE  CInv'
<1>1. PICK c : c = server.cur
    OBVIOUS
<1>2. c \in Conns /\ conns[c].srv = "backlog"
    BY <1>1, Zenon DEF CInv, ServerInv, Backlog
<1>3. server' \in ServerType /\ server'.pc # "piece" /\ ServerInv'
    BY IdleThread, Zenon DEF ServerInv
<1>4. \A d \in Conns : Got(d) = <<>>
    BY Zenon DEF Got
<1>5. ran' \in [Requests -> Nat] /\ ran' = ran
    BY Zenon DEF CInv, Types
<1> QED BY <1>1, <1>2, <1>3, <1>4, <1>5, DeleteKeeps, Zenon

(* unix_manager_accept, once the greeting or the end of the stream came. *)
LEMMA GreetKeeps == CInv /\ Greet => CInv'
<1> SUFFICES ASSUME CInv, Greet PROVE CInv'
    OBVIOUS
<1>1. PICK c : c = server.cur
    OBVIOUS
<1>2. /\ c \in Conns /\ conns[c].srv = "backlog" /\ conns[c] \in ConnType /\ server.pc = "accept"
      /\ Types /\ EndsInv
      /\ client' = client /\ ran' = ran /\ issued' = issued
    BY <1>1, Zenon DEF CInv, ServerInv, Backlog, Greet, Types
<1>3. CASE ~(Greeting(conns[c].up) /\ conns[c].cli)
    BY <1>1, <1>3, NotGreetedKeeps, Zenon DEF Greet
<1>4. CASE Greeting(conns[c].up) /\ conns[c].cli
  <2> DEFINE reply == [req |-> NoReq, ok |-> TRUE]
             down == IF conns[c].owner \in Clients THEN Append(conns[c].down, reply) ELSE conns[c].down
             new == [conns[c] EXCEPT !.srv = "open", !.up = <<>>, !.down = down]
  <2>1. reply \in Replies
      BY Zenon DEF Replies
  <2>2. down \in Seq(Replies) /\ <<>> \in Seq(Pieces)
      BY <1>2, <2>1 DEF ConnType
  <2>3. conns' = [conns EXCEPT ![c].srv = "open", ![c].up = <<>>, ![c].down = down]
      BY <1>1, <1>4, Zenon DEF Greet
  <2>. HIDE DEF down, reply
  <2>4. conns' = [conns EXCEPT ![c] = new]
      BY <1>2, <2>3, Zenon DEF Types
  <2>5. /\ new \in ConnType /\ new.srv = "open" /\ new.up = <<>> /\ new.down = down
        /\ new.cli = conns[c].cli /\ new.owner = conns[c].owner
      BY <1>2, <2>2, Zenon DEF ConnType
  <2>. HIDE DEF new
  <2>6. /\ conns' \in [Conns -> ConnType] /\ conns'[c] = new
        /\ \A d \in Conns : d # c => conns'[d] = conns[d]
      BY <1>2, <2>4, <2>5, Zenon DEF Types
  <2>7. server' \in ServerType /\ server'.pc = "select" /\ ServerInv'
      BY IdleThread, Zenon DEF ServerInv, Greet
  <2>8. \A d \in Conns : Got(d)' = <<>> /\ Got(d) = <<>>
      BY <1>2, <2>7, Zenon DEF Got
  <2>9. Pending(c)' = {}
    <3>1. 1 .. Len(conns'[c].up) = {} /\ 1 .. Len(Got(c)') = {}
        BY <1>2, <2>5, <2>6, <2>8
    <3> QED BY <3>1, Zenon DEF Pending
  <2>10. ASSUME NEW k \in Clients, client[k].pc # "idle", client[k].conn = c PROVE CallInv(k)'
    <3>1. CallInv(k) /\ conns[c].owner = k /\ client[k] \in ClientType
        BY <1>2, <2>10, Zenon DEF CInv, EndsInv, Types
    <3>2. conns[c].up # <<>>
        BY <1>4 DEF Greeting
    <3>3. client[k].pc = "hello" /\ Greets(c)
        BY <1>2, <2>10, <3>1, <3>2, Zenon DEF CallInv, Silent, Greeted, Asks, Answered, ClientType
    <3>4. conns[c].down = <<>>
        BY <3>3, Zenon DEF Greets
    <3>5. down = <<reply>>
        BY <3>1, <3>4 DEF down
    <3>6. Greeted(c)'
        BY <1>2, <2>5, <2>6, <2>8, <3>5, Zenon DEF Greeted, reply
    <3> QED BY <1>2, <2>10, <3>1, <3>3, <3>6, Zenon DEF CallInv
  <2>11. /\ \A d \in Conns : d # c => conns'[d] = conns[d] /\ Got(d)' = Got(d)
         /\ conns'[c].srv # "none" /\ conns'[c].cli /\ conns'[c].owner = conns[c].owner
      BY <1>4, <2>5, <2>6, <2>8, Zenon
  <2>12. written' \in Nat /\ timeouts' \in Nat /\ ran' \in [Requests -> Nat]
      BY <1>2, Zenon DEF Types, Greet
  <2> QED BY <1>2, <1>4, <2>6, <2>7, <2>9, <2>10, <2>11, <2>12, OneConn, Zenon
<1> QED BY <1>3, <1>4, Zenon

(* The thread ends on an error of select and closes every client. *)
LEMMA SelectFailsKeeps == CInv /\ SelectFails => CInv'
<1> SUFFICES ASSUME CInv, SelectFails PROVE CInv'
    OBVIOUS
<1>1. Types /\ EndsInv /\ PendingInv /\ client' = client /\ ran' = ran /\ issued' = issued /\ server.pc = "select"
    BY Zenon DEF CInv, SelectFails
<1>2. /\ server' \in ServerType /\ server'.pc = "dead" /\ server'.ready = {}
      /\ server'.cur = NoConn /\ server'.got = <<>> /\ Len(server'.got) < BufLen
    BY IdleThread, Zenon DEF SelectFails, ServerType, IdleServer
<1>3. ServerInv'
    BY <1>2, Zenon DEF ServerInv
<1>4. ASSUME NEW c \in InList
      PROVE  /\ conns'[c] \in ConnType /\ conns'[c].srv = "closed" /\ conns'[c].up = <<>>
             /\ conns'[c].cli = conns[c].cli
             /\ conns[c].cli => conns'[c].owner = conns[c].owner /\ conns'[c].down = conns[c].down
             /\ ~conns[c].cli => conns'[c].down = <<>>
  <2> DEFINE new == [conns[c] EXCEPT !.srv = "closed", !.up = <<>>]
  <2>1. c \in Conns /\ conns[c] \in ConnType /\ conns \in [Conns -> ConnType]
      BY <1>1, Zenon DEF InList, Types
  <2>2. Deleted(c)[c] = IF conns[c].cli THEN new ELSE Spent
      BY <2>1, Zenon DEF Deleted
  <2>3. conns'[c] = IF conns[c].cli THEN new ELSE Spent
      BY <2>1, <2>2, Zenon DEF SelectFails
  <2>. <<>> \in Seq(Pieces) /\ <<>> \in Seq(Replies)
      OBVIOUS
  <2>4. Spent \in ConnType /\ Spent.srv = "closed" /\ Spent.up = <<>> /\ Spent.cli = FALSE /\ Spent.down = <<>>
      BY Zenon DEF Spent, FreshConn, ConnType
  <2>5. /\ new \in ConnType /\ new.srv = "closed" /\ new.up = <<>> /\ new.cli = conns[c].cli
        /\ new.owner = conns[c].owner /\ new.down = conns[c].down
      BY <2>1, Zenon DEF ConnType
  <2>6. conns[c].cli \in BOOLEAN
      BY <2>1, Zenon DEF ConnType
  <2> QED BY <2>3, <2>4, <2>5, <2>6, Zenon
<1>5. \A d \in Conns : d \notin InList => conns'[d] = conns[d] /\ conns'[d] \in ConnType
    BY <1>1, Zenon DEF SelectFails, Types
<1>6. conns' \in [Conns -> ConnType]
  <2>1. \A d \in Conns : conns'[d] \in ConnType
      BY <1>4, <1>5, Zenon
  <2>2. DOMAIN conns' = Conns /\ conns' = [d \in Conns |-> conns'[d]]
      BY Zenon DEF SelectFails
  <2> QED BY <2>1, <2>2, Zenon
<1>7. Types'
    BY <1>1, <1>2, <1>6 DEF Types, SelectFails
<1>8. EndsInv'
  <2>1. \A d \in Conns : conns'[d].srv = "none" => conns'[d] = FreshConn
      BY <1>1, <1>4, <1>5 DEF EndsInv
  <2>2. \A d \in Conns : ~conns'[d].cli => conns'[d].down = <<>>
      BY <1>1, <1>4, <1>5 DEF EndsInv
  <2>3. \A d \in Conns : conns'[d].cli => conns[d].cli /\ conns'[d].owner = conns[d].owner
      BY <1>4, <1>5, Zenon
  <2>4. \A d \in Conns : conns[d].cli => conns'[d].cli /\ conns'[d].owner = conns[d].owner
      BY <1>4, <1>5, Zenon
  <2> QED BY <1>1, <2>1, <2>2, <2>3, <2>4 DEF EndsInv
<1>9. \A d \in Conns : Got(d)' = <<>> /\ Got(d) = <<>>
    BY <1>1, <1>2, Zenon DEF Got
<1>10. \A d \in Conns : Pending(d)' \subseteq Pending(d)
  <2>1. TAKE d \in Conns
  <2>2. CASE d \in InList
    <3>1. 1 .. Len(conns'[d].up) = {} /\ 1 .. Len(Got(d)') = {}
        BY <1>4, <1>9, <2>2
    <3> QED BY <3>1, Zenon DEF Pending
  <2>3. CASE d \notin InList
    <3>1. conns'[d] = conns[d] /\ Got(d)' = Got(d)
        BY <1>5, <1>9, <2>3, Zenon
    <3> QED BY <3>1, Zenon DEF Pending
  <2> QED BY <2>2, <2>3, Zenon
<1>11. PendingInv'
    BY <1>1, <1>10, Zenon DEF PendingInv
<1>12. ASSUME NEW k \in Clients PROVE CallInv(k)'
  <2>1. CallInv(k) /\ (client[k].pc # "idle" => client[k].conn \in Conns /\ conns[client[k].conn].cli)
      BY Zenon DEF CInv, EndsInv
  <2>2. CASE client[k].pc # "idle" /\ client[k].conn \in InList
    <3>1. PICK c : client[k].conn = c
        OBVIOUS
    <3>2. conns[c].cli /\ c \in InList /\ c \in Conns
        BY <2>1, <2>2, <3>1, Zenon
    <3>3. /\ conns'[c].srv = "closed" /\ conns'[c].up = <<>> /\ conns'[c].down = conns[c].down
          /\ Got(c)' = <<>>
        BY <1>4, <1>9, <3>2, Zenon
    <3> QED BY <1>1, <2>2, <3>1, <3>3, CallDeleted, Zenon
  <2>3. CASE client[k].pc # "idle" /\ client[k].conn \notin InList
      BY <1>1, <1>5, <1>9, <2>1, <2>3, CallFrame, Zenon
  <2>4. CASE client[k].pc = "idle"
      BY <1>1, <2>1, <2>4, CallFrame, Zenon
  <2> QED BY <2>2, <2>3, <2>4, Zenon
<1> QED BY <1>3, <1>7, <1>8, <1>11, <1>12, Zenon DEF CInv

-----------------------------------------------------------------------------
(* The thread is not disturbed by what the other end of a connection does. *)
LEMMA SameThread ==
    ASSUME ServerInv, server' = server, \A d \in Conns : conns'[d].srv = conns[d].srv
    PROVE  ServerInv' /\ \A d \in Conns : Got(d)' = Got(d)
<1>1. InList' = InList /\ Backlog' = Backlog
    BY Zenon DEF InList, Backlog
<1> QED BY <1>1, Zenon DEF ServerInv, Got

(* A step of the call of one client, on the connection it uses. *)
LEMMA CallStep ==
    ASSUME CInv, NEW k \in Clients, client[k].pc # "idle", NEW c, c = client[k].conn,
           conns' \in [Conns -> ConnType], \A d \in Conns : d # c => conns'[d] = conns[d],
           conns'[c].srv = conns[c].srv, conns'[c].cli = conns[c].cli, conns'[c].owner = conns[c].owner,
           NEW now \in ClientType, client' = [client EXCEPT ![k] = now],
           now.pc # "idle", now.conn = c,
           issued' \in issued .. MaxRequests,
           \/ now.req = client[k].req /\ Pending(c)' \subseteq Pending(c) \cup {NoReq}
           \/ /\ now.req > issued /\ now.req <= issued'
              /\ Pending(c)' \subseteq Pending(c) \cup {now.req},
           UNCHANGED <<server, ran, written, timeouts>>, CallInv(k)'
    PROVE  CInv'
<1>1. /\ Types /\ EndsInv /\ ServerInv /\ PendingInv
      /\ server' = server /\ ran' = ran
      /\ c \in Conns /\ conns[c].cli /\ conns[c].owner = k
    BY Zenon DEF CInv, EndsInv
<1>2. /\ client' \in [Clients -> ClientType] /\ client'[k] = now
      /\ \A j \in Clients : j # k => client'[j] = client[j]
    BY <1>1, Zenon DEF Types
<1>3. issued \in Nat /\ issued' \in Nat /\ issued <= issued' /\ issued' <= MaxRequests
    BY <1>1, SocketAssumption DEF Types
<1>4. Types'
    BY <1>1, <1>2, <1>3, Zenon DEF Types
<1>5. ServerInv' /\ \A d \in Conns : Got(d)' = Got(d)
    BY <1>1, SameThread, Zenon
<1>6. conns[c].srv # "none"
  <2>1. FreshConn.cli = FALSE
      BY Zenon DEF FreshConn
  <2> QED BY <1>1, <2>1, Zenon DEF EndsInv
<1>7. EndsInv'
  <2>1. ASSUME NEW d \in Conns
        PROVE  /\ conns'[d].srv = "none" => conns'[d] = FreshConn
               /\ ~conns'[d].cli => conns'[d].down = <<>>
               /\ conns'[d].cli => conns'[d].owner \in Clients \cup Peers
    <3>1. CASE d = c
        BY <1>1, <1>6, <3>1, Zenon
    <3>2. CASE d # c
      <4>1. conns'[d] = conns[d]
          BY <3>2, Zenon
      <4>2. /\ conns[d].srv = "none" => conns[d] = FreshConn
            /\ ~conns[d].cli => conns[d].down = <<>>
            /\ conns[d].cli => conns[d].owner \in Clients \cup Peers
          BY <1>1, Zenon DEF EndsInv
      <4> QED BY <4>1, <4>2, Zenon
    <3> QED BY <3>1, <3>2, Zenon
  <2>2. ASSUME NEW d \in Conns, conns'[d].cli, conns'[d].owner \in Clients
        PROVE  client'[conns'[d].owner].pc # "idle" /\ client'[conns'[d].owner].conn = d
    <3>1. conns[d].cli /\ conns'[d].owner = conns[d].owner
        BY <2>2, <1>1, Zenon
    <3>2. client[conns[d].owner].pc # "idle" /\ client[conns[d].owner].conn = d
        BY <1>1, <2>2, <3>1, Zenon DEF EndsInv
    <3> QED BY <1>2, <2>2, <3>1, <3>2
  <2>3. ASSUME NEW j \in Clients, client'[j].pc # "idle"
        PROVE  /\ client'[j].conn \in Conns
               /\ conns'[client'[j].conn].owner = j
               /\ conns'[client'[j].conn].cli
    <3>1. client[j].pc # "idle" /\ client'[j].conn = client[j].conn
        BY <1>2, <2>3, Zenon
    <3>2. client[j].conn \in Conns /\ conns[client[j].conn].owner = j /\ conns[client[j].conn].cli
        BY <1>1, <3>1, Zenon DEF EndsInv
    <3>3. CASE client[j].conn = c
        BY <3>1, <3>2, <3>3, Zenon
    <3>4. CASE client[j].conn # c
        BY <3>1, <3>2, <3>4, Zenon
    <3> QED BY <3>3, <3>4, Zenon
  <2> QED BY <2>1, <2>2, <2>3, Zenon DEF EndsInv
<1>8. PendingInv'
  <2>1. ASSUME NEW d \in Conns, d # c PROVE Pending(d)' = Pending(d)
    <3>1. conns'[d] = conns[d] /\ Got(d)' = Got(d)
        BY <1>5, <2>1, Zenon
    <3>2. PICK up, part : up = conns[d].up /\ part = Got(d)
        BY Zenon
    <3>3. Pending(d) = {up[i].req : i \in 1 .. Len(up)} \cup {part[i].req : i \in 1 .. Len(part)}
        BY <3>2, Zenon DEF Pending
    <3>4. Pending(d)' = {up[i].req : i \in 1 .. Len(up)} \cup {part[i].req : i \in 1 .. Len(part)}
      <4>1. conns'[d].up = up /\ Got(d)' = part
          BY <3>1, <3>2, Zenon
      <4> QED BY <4>1 DEF Pending
    <3> QED BY <3>3, <3>4, Zenon
  <2>2. now.req \in Nat /\ now.req <= issued' /\ client[k].req \in Nat
    <3>1. now.req \in Nat /\ client[k].req \in Nat
        BY <1>1 DEF ClientType, Requests, NoReq, Types
    <3> QED BY <1>1, <1>3, <3>1 DEF PendingInv
  <2>3. \A j \in Clients : client'[j].req <= issued'
    <3>1. TAKE j \in Clients
    <3>2. client[j].req \in Nat /\ client[j].req <= issued
        BY <1>1 DEF PendingInv, Types, ClientType, Requests, NoReq
    <3> QED BY <1>2, <1>3, <2>2, <3>2
  <2>4. \A r \in Requests : r > issued' => ran'[r] = 0
    <3>1. \A r \in Requests : r > issued' => r > issued
        BY <1>3 DEF Requests
    <3> QED BY <1>1, <3>1, Zenon DEF PendingInv
  <2>5. ASSUME NEW d \in Conns, NEW r \in Pending(d)'
        PROVE  /\ r <= issued'
               /\ r # NoReq => \A j \in Clients :
                     client'[j].pc # "idle" /\ client'[j].req = r => client'[j].conn = d
    <3>1. CASE r \in Pending(d)
      <4>1. r <= issued /\ (r # NoReq => \A j \in Clients :
                               client[j].pc # "idle" /\ client[j].req = r => client[j].conn = d)
          BY <1>1, <3>1, Zenon DEF PendingInv
      <4>2. r \in Nat
        <5>1. conns'[d] \in ConnType /\ server \in ServerType
            BY <1>1, Zenon DEF Types
        <5>2. conns'[d].up \in Seq(Pieces) /\ Got(d)' \in Seq(Pieces)
            BY <1>1, <5>1 DEF ConnType, ServerType, Got
        <5>3. \A p \in Pieces : p.req \in Nat
            BY DEF Pieces, Requests, NoReq
        <5>4. /\ \A i \in 1 .. Len(conns'[d].up) : conns'[d].up[i].req \in Nat
              /\ \A i \in 1 .. Len(Got(d)') : Got(d)'[i].req \in Nat
            BY <5>2, <5>3
        <5> QED BY <5>4, Zenon DEF Pending
      <4>3. now.req = r => now.req = client[k].req
          BY <1>3, <2>2, <4>1, <4>2
      <4> QED BY <1>2, <1>3, <4>1, <4>2, <4>3
    <3>2. CASE r \notin Pending(d)
      <4>1. d = c /\ (r = NoReq \/ (r = now.req /\ now.req > issued))
          BY <2>1, <2>5, <3>2, Zenon
      <4>2. CASE r = NoReq
          BY <1>3, <4>2 DEF NoReq
      <4>3. CASE r = now.req
        <5>1. ASSUME NEW j \in Clients, j # k, client'[j].pc # "idle", client'[j].req = r, r # NoReq
              PROVE  client'[j].conn = d
          <6>1. client[j].req = r /\ client[j].req <= issued /\ client[j].req \in Nat
              BY <1>1, <1>2, <5>1 DEF PendingInv, Types, ClientType, Requests, NoReq
          <6> QED BY <1>3, <2>2, <4>1, <4>3, <5>1, <6>1
        <5> QED BY <1>2, <2>2, <4>1, <4>3, <5>1, Zenon
      <4> QED BY <4>1, <4>2, <4>3, Zenon
    <3> QED BY <3>1, <3>2, Zenon
  <2> QED BY <2>3, <2>4, <2>5, Zenon DEF PendingInv
<1>9. ASSUME NEW j \in Clients PROVE CallInv(j)'
  <2>1. CASE j = k
      BY <2>1, Zenon
  <2>2. CASE j # k
    <3>1. CallInv(j) /\ client'[j] = client[j]
        BY <1>2, <2>2, Zenon DEF CInv
    <3>2. client[j].pc # "idle" => client[j].conn \in Conns /\ client[j].conn # c
      <4> SUFFICES ASSUME client[j].pc # "idle" PROVE client[j].conn \in Conns /\ client[j].conn # c
          BY Zenon
      <4>1. client[j].conn \in Conns /\ conns[client[j].conn].owner = j
          BY <1>1, Zenon DEF EndsInv
      <4> QED BY <1>1, <2>2, <4>1, Zenon
    <3> QED BY <1>1, <1>5, <3>1, <3>2, CallFrame, Zenon
  <2> QED BY <2>1, <2>2, Zenon
<1> QED BY <1>4, <1>5, <1>7, <1>8, <1>9, Zenon DEF CInv

(* What is written: the pieces of one request. *)
LEMMA Written ==
    ASSUME NEW parts \in Seq(BOOLEAN), NEW r \in Requests \cup {NoReq}, NEW kind \in Kinds, NEW ps,
           ps = [i \in 1 .. Len(parts) |-> Piece(r, kind, parts[i])]
    PROVE  /\ ps \in Seq(Pieces) /\ Len(ps) = Len(parts)
           /\ \A i \in 1 .. Len(parts) : ps[i] = Piece(r, kind, parts[i])
           /\ \A i \in 1 .. Len(ps) : ps[i].req = r
<1>1. Len(parts) \in Nat /\ \A i \in 1 .. Len(parts) : parts[i] \in BOOLEAN
    OBVIOUS
<1>2. \A i \in 1 .. Len(parts) : Piece(r, kind, parts[i]) \in Pieces /\ Piece(r, kind, parts[i]).req = r
    BY <1>1, Zenon DEF Piece, Pieces
<1>3. ps \in [1 .. Len(parts) -> Pieces]
    BY <1>2, Zenon
<1>4. ps \in Seq(Pieces) /\ Len(ps) = Len(parts)
    BY <1>1, <1>3
<1> QED BY <1>2, <1>4, Zenon

(* A write to a connection. *)
LEMMA WriteConn ==
    ASSUME Types, NEW c \in Conns, NEW ps \in Seq(Pieces), NEW r, \A i \in 1 .. Len(ps) : ps[i].req = r,
           conns' = Write(c, ps), server' = server
    PROVE  /\ conns' \in [Conns -> ConnType]
           /\ \A d \in Conns : d # c => conns'[d] = conns[d]
           /\ conns'[c].up = conns[c].up \o ps
           /\ conns'[c].down = conns[c].down /\ conns'[c].srv = conns[c].srv
           /\ conns'[c].cli = conns[c].cli /\ conns'[c].owner = conns[c].owner
           /\ Pending(c)' \subseteq Pending(c) \cup {r}
<1> DEFINE up == conns[c].up \o ps
<1>1. conns[c].up \in Seq(Pieces) /\ conns[c].down \in Seq(Replies) /\ conns[c] \in ConnType
    BY Zenon DEF Types, ConnType
<1>2. /\ up \in Seq(Pieces) /\ Len(up) = Len(conns[c].up) + Len(ps)
      /\ \A i \in 1 .. Len(conns[c].up) : up[i] = conns[c].up[i]
      /\ \A i \in 1 .. Len(ps) : up[Len(conns[c].up) + i] = ps[i]
    BY <1>1, Joined, Zenon
<1>3. conns' = [conns EXCEPT ![c].up = up]
    BY Zenon DEF Write
<1>. HIDE DEF up
<1>4. conns' = [conns EXCEPT ![c].up = up, ![c].down = conns[c].down]
    BY <1>1, <1>3, Zenon DEF Types, ConnType
<1>5. /\ conns' \in [Conns -> ConnType]
      /\ \A d \in Conns : d # c => conns'[d] = conns[d]
      /\ conns'[c].up = up /\ conns'[c].down = conns[c].down /\ conns'[c].srv = conns[c].srv
      /\ conns'[c].cli = conns[c].cli /\ conns'[c].owner = conns[c].owner
    BY <1>1, <1>2, <1>4, ReadConn, Zenon
<1>6. ASSUME NEW i \in 1 .. Len(up) PROVE up[i].req \in Pending(c) \cup {r}
  <2>1. Len(conns[c].up) \in Nat /\ Len(ps) \in Nat
      BY <1>1
  <2>2. CASE i <= Len(conns[c].up)
    <3>1. i \in 1 .. Len(conns[c].up)
        BY <1>2, <2>1, <2>2
    <3> QED BY <1>2, <3>1, Zenon DEF Pending
  <2>3. CASE i > Len(conns[c].up)
    <3>1. PICK j : j = i - Len(conns[c].up)
        OBVIOUS
    <3>2. j \in 1 .. Len(ps) /\ i = Len(conns[c].up) + j
        BY <1>2, <2>1, <2>3, <3>1
    <3> QED BY <1>2, <3>2, Zenon
  <2> QED BY <1>2, <2>1, <2>2, <2>3
<1>7. Got(c)' = Got(c)
    BY Zenon DEF Got
<1>8. Pending(c)' = {up[i].req : i \in 1 .. Len(up)} \cup {Got(c)[i].req : i \in 1 .. Len(Got(c))}
    BY <1>5, <1>7 DEF Pending
<1>9. Pending(c)' \subseteq Pending(c) \cup {r}
    BY <1>6, <1>8, Zenon DEF Pending
<1> QED BY <1>5, <1>9, Zenon DEF up

(* What an active client has in hand. *)
LEMMA Calling ==
    ASSUME CInv, NEW k \in Clients, client[k].pc # "idle", NEW c, c = client[k].conn
    PROVE  /\ c \in Conns /\ conns[c].owner = k /\ conns[c].cli /\ conns[c].srv # "none"
           /\ conns[c] \in ConnType /\ client[k] \in ClientType /\ CallInv(k)
           /\ Types /\ EndsInv /\ ServerInv
    BY DEF CInv, EndsInv, Types, FreshConn

(* A client greets. *)
LEMMA SendHelloKeeps ==
    ASSUME CInv, NEW k \in Clients, SendHello(k)
    PROVE  CInv'
<1> DEFINE ps == <<Piece(NoReq, "hello", TRUE)>>
           now == [client[k] EXCEPT !.pc = "hello"]
<1>1. PICK c : c = client[k].conn
    OBVIOUS
<1>2. client[k].pc = "dialed" /\ conns[c].srv # "closed" /\ server' = server /\ ran' = ran /\ issued' = issued
    BY <1>1, Zenon DEF SendHello
<1>3. /\ c \in Conns /\ conns[c].owner = k /\ conns[c].cli /\ conns[c].srv # "none"
      /\ conns[c] \in ConnType /\ client[k] \in ClientType /\ CallInv(k)
      /\ Types /\ ServerInv
    BY <1>1, <1>2, Calling, Zenon
<1>4. ps \in Seq(Pieces) /\ \A i \in 1 .. Len(ps) : ps[i].req = NoReq
    BY DEF Piece, Pieces, Kinds
<1>5. conns' = Write(c, ps) /\ client' = [client EXCEPT ![k] = now]
    BY <1>1, <1>3, Zenon DEF SendHello, Types
<1>6. now \in ClientType /\ now.pc = "hello" /\ now.conn = c /\ now.req = client[k].req
    BY <1>1, <1>3, Zenon DEF ClientType
<1>. HIDE DEF now
<1>7. conns[c].srv = "backlog" /\ Silent(c) /\ client[k].req = NoReq
    BY <1>1, <1>2, <1>3, Zenon DEF CallInv, ConnType
<1>8. /\ conns' \in [Conns -> ConnType]
      /\ \A d \in Conns : d # c => conns'[d] = conns[d]
      /\ conns'[c].up = conns[c].up \o ps
      /\ conns'[c].down = conns[c].down /\ conns'[c].srv = conns[c].srv
      /\ conns'[c].cli = conns[c].cli /\ conns'[c].owner = conns[c].owner
      /\ Pending(c)' \subseteq Pending(c) \cup {NoReq}
    BY <1>2, <1>3, <1>4, <1>5, WriteConn, Zenon
<1>9. conns'[c].up = ps
    BY <1>4, <1>7, <1>8 DEF Silent
<1>10. Greets(c)'
    BY <1>2, <1>7, <1>8, <1>9, Zenon DEF Greets, Silent, Got
<1>11. client'[k] = now
    BY <1>3, <1>5, Zenon DEF Types
<1>12. CallInv(k)'
    BY <1>6, <1>7, <1>10, <1>11, Zenon DEF CallInv
<1>13. issued' \in issued .. MaxRequests
    BY <1>2, <1>3, SocketAssumption DEF Types
<1>14. client[k].pc # "idle" /\ now.pc # "idle" /\ UNCHANGED <<server, ran, written, timeouts>>
    BY <1>2, <1>6, Zenon DEF SendHello
<1> QED BY <1>1, <1>5, <1>6, <1>8, <1>12, <1>13, <1>14, CallStep, Zenon

(* A client sends a request, of a number that nobody has used. *)
LEMMA SendCommandKeeps ==
    ASSUME CInv, NEW k \in Clients, SendCommand(k)
    PROVE  CInv'
<1>1. PICK c : c = client[k].conn
    OBVIOUS
<1>2. PICK r : r = issued'
    OBVIOUS
<1> DEFINE now == [client[k] EXCEPT !.pc = "waiting", !.req = r]
<1>3. /\ client[k].pc = "ready" /\ conns[c].srv # "closed" /\ server' = server /\ ran' = ran
      /\ issued < MaxRequests /\ issued' = issued + 1
    BY <1>1, Zenon DEF SendCommand
<1>4. /\ c \in Conns /\ conns[c].owner = k /\ conns[c].cli /\ conns[c].srv # "none"
      /\ conns[c] \in ConnType /\ client[k] \in ClientType /\ CallInv(k)
      /\ Types /\ ServerInv
    BY <1>1, <1>3, Calling, Zenon
<1>5. r \in Requests /\ r # NoReq /\ r > issued /\ r <= issued' /\ issued' \in issued .. MaxRequests
    BY <1>2, <1>3, <1>4, SocketAssumption DEF Types, Requests, NoReq
<1>6. PICK kind \in {"known", "unknown"}, parts \in {<<TRUE>>, <<FALSE, TRUE>>} :
         conns' = Write(c, [i \in 1..Len(parts) |-> Piece(r, kind, parts[i])])
    BY <1>1, <1>2, Zenon DEF SendCommand
<1>7. PICK ps : ps = [i \in 1..Len(parts) |-> Piece(r, kind, parts[i])]
    OBVIOUS
<1>8. /\ ps \in Seq(Pieces) /\ Len(ps) = Len(parts)
      /\ \A i \in 1 .. Len(parts) : ps[i] = Piece(r, kind, parts[i])
      /\ \A i \in 1 .. Len(ps) : ps[i].req = r
  <2>1. <<TRUE>> \in Seq(BOOLEAN) /\ <<FALSE, TRUE>> \in Seq(BOOLEAN)
      OBVIOUS
  <2>2. parts \in Seq(BOOLEAN) /\ kind \in Kinds
      BY <1>6, <2>1, Zenon DEF Kinds
  <2> QED BY <1>5, <1>7, <2>2, Written
<1>9. client' = [client EXCEPT ![k] = now]
    BY <1>2, <1>4, Zenon DEF SendCommand, Types
<1>10. now \in ClientType /\ now.pc = "waiting" /\ now.conn = c /\ now.req = r
    BY <1>1, <1>4, <1>5, Zenon DEF ClientType
<1>. HIDE DEF now
<1>11. conns[c].srv = "open" /\ Silent(c)
    BY <1>1, <1>3, <1>4, Zenon DEF CallInv, ConnType
<1>12. /\ conns' \in [Conns -> ConnType]
       /\ \A d \in Conns : d # c => conns'[d] = conns[d]
       /\ conns'[c].up = conns[c].up \o ps
       /\ conns'[c].down = conns[c].down /\ conns'[c].srv = conns[c].srv
       /\ conns'[c].cli = conns[c].cli /\ conns'[c].owner = conns[c].owner
       /\ Pending(c)' \subseteq Pending(c) \cup {r}
  <2>1. conns' = Write(c, ps)
      BY <1>6, <1>7, Zenon
  <2> QED BY <1>3, <1>4, <1>8, <2>1, WriteConn, Zenon
<1>13. conns'[c].up = ps
    BY <1>8, <1>11, <1>12 DEF Silent
<1>14. ps = <<Piece(r, kind, TRUE)>> \/ ps = <<Piece(r, kind, FALSE), Piece(r, kind, TRUE)>>
  <2>1. CASE parts = <<TRUE>>
    <3>1. Len(parts) = 1 /\ parts[1] = TRUE
        BY <2>1, Zenon
    <3>2. Len(ps) = 1 /\ ps[1] = Piece(r, kind, parts[1])
        BY <1>8, <3>1
    <3>3. ps[1] = Piece(r, kind, TRUE)
        BY <3>1, <3>2, Zenon
    <3> QED BY <1>8, <3>2, <3>3, One, Zenon
  <2>2. CASE parts = <<FALSE, TRUE>>
    <3>1. Len(parts) = 2 /\ parts[1] = FALSE /\ parts[2] = TRUE
        BY <2>2, Zenon
    <3>2. Len(ps) = 2 /\ ps[1] = Piece(r, kind, parts[1]) /\ ps[2] = Piece(r, kind, parts[2])
        BY <1>8, <3>1
    <3>3. ps[1] = Piece(r, kind, FALSE) /\ ps[2] = Piece(r, kind, TRUE)
        BY <3>1, <3>2, Zenon
    <3> QED BY <1>8, <3>2, <3>3, Two, Zenon
  <2> QED BY <1>6, <2>1, <2>2, Zenon
<1>15. ran'[r] = 0
    BY <1>3, <1>5, Zenon DEF CInv, PendingInv
<1>16. Asks(c, r)'
  <2>1. conns'[c].srv = "open" /\ conns'[c].down = <<>> /\ Got(c)' = <<>>
      BY <1>3, <1>11, <1>12, Zenon DEF Silent, Got
  <2> QED BY <1>13, <1>14, <1>15, <2>1, Zenon DEF Asks
<1>17. client'[k] = now
    BY <1>4, <1>9, Zenon DEF Types
<1>18. CallInv(k)'
    BY <1>5, <1>10, <1>16, <1>17, Zenon DEF CallInv
<1>19. client[k].pc # "idle" /\ now.pc # "idle" /\ UNCHANGED <<server, ran, written, timeouts>>
    BY <1>3, <1>10, Zenon DEF SendCommand
<1> QED BY <1>1, <1>5, <1>9, <1>10, <1>12, <1>18, <1>19, CallStep, Zenon

(* A client takes the answer: it is the one to its greeting or request. *)
LEMMA TakeAnswerKeeps ==
    ASSUME CInv, NEW k \in Clients, TakeAnswer(k)
    PROVE  CInv'
<1>1. PICK c : c = client[k].conn
    OBVIOUS
<1> DEFINE now == [client[k] EXCEPT !.pc = "ready", !.answer = Head(conns[c].down)]
<1>2. /\ client[k].pc \in {"hello", "waiting"} /\ conns[c].down # <<>>
      /\ server' = server /\ ran' = ran /\ issued' = issued
      /\ conns' = [conns EXCEPT ![c].down = Tail(conns[c].down)]
    BY <1>1, Zenon DEF TakeAnswer
<1>3. /\ c \in Conns /\ conns[c].owner = k /\ conns[c].cli /\ conns[c].srv # "none"
      /\ conns[c] \in ConnType /\ client[k] \in ClientType /\ CallInv(k)
      /\ Types /\ ServerInv
    BY <1>1, <1>2, Calling, Zenon
<1>4. /\ client[k].pc = "hello" => client[k].req = NoReq /\ Greeted(c)
      /\ client[k].pc = "waiting" => client[k].req # NoReq /\ Answered(c, client[k].req)
    BY <1>1, <1>2, <1>3, Zenon DEF CallInv, Greets, Silent, Asks
<1>5. PICK ok \in BOOLEAN :
         /\ conns[c].up = <<>> /\ Got(c) = <<>> /\ conns[c].srv # "backlog"
         /\ conns[c].down = <<[req |-> client[k].req, ok |-> ok]>>
         /\ ok /\ client[k].req # NoReq => ran[client[k].req] = 1
  <2>1. CASE client[k].pc = "hello"
      BY <1>4, <2>1, Zenon DEF Greeted
  <2>2. CASE client[k].pc = "waiting"
      BY <1>4, <2>2, Zenon DEF Answered
  <2> QED BY <1>2, <2>1, <2>2, Zenon
<1>6. PICK reply : reply = [req |-> client[k].req, ok |-> ok]
    OBVIOUS
<1>7. Head(conns[c].down) = reply /\ Tail(conns[c].down) = <<>> /\ <<>> \in Seq(Replies)
    BY <1>5, <1>6
<1>8. reply \in Replies /\ reply.req = client[k].req /\ reply.ok = ok
    BY <1>3, <1>6, Zenon DEF Replies, ClientType
<1>9. client' = [client EXCEPT ![k] = now]
    BY <1>1, <1>3, Zenon DEF TakeAnswer, Types
<1>10. now \in ClientType /\ now.pc = "ready" /\ now.conn = c /\ now.req = client[k].req /\ now.answer = reply
    BY <1>1, <1>3, <1>7, <1>8, Zenon DEF ClientType
<1>. HIDE DEF now
<1>11. conns' = [conns EXCEPT ![c].up = conns[c].up, ![c].down = <<>>]
    BY <1>2, <1>3, <1>7, Zenon DEF Types, ConnType
<1>12. /\ conns' \in [Conns -> ConnType]
       /\ \A d \in Conns : d # c => conns'[d] = conns[d]
       /\ conns'[c].up = conns[c].up /\ conns'[c].down = <<>> /\ conns'[c].srv = conns[c].srv
       /\ conns'[c].cli = conns[c].cli /\ conns'[c].owner = conns[c].owner
  <2>1. conns[c].up \in Seq(Pieces)
      BY <1>3, Zenon DEF ConnType
  <2> QED BY <1>3, <1>7, <1>11, <2>1, ReadConn, Zenon
<1>13. Got(c)' = Got(c)
    BY <1>2, Zenon DEF Got
<1>14. Pending(c)' \subseteq Pending(c) \cup {NoReq}
    BY <1>12, <1>13, Zenon DEF Pending
<1>15. Silent(c)'
    BY <1>5, <1>12, <1>13, Zenon DEF Silent
<1>16. client'[k] = now
    BY <1>3, <1>9, Zenon DEF Types
<1>17. CallInv(k)'
    BY <1>2, <1>5, <1>8, <1>10, <1>12, <1>15, <1>16 DEF CallInv
<1>18. issued' \in issued .. MaxRequests
    BY <1>2, <1>3, SocketAssumption DEF Types
<1>19. client[k].pc # "idle" /\ now.pc # "idle" /\ UNCHANGED <<server, ran, written, timeouts>>
    BY <1>2, <1>10, Zenon DEF TakeAnswer
<1> QED BY <1>1, <1>9, <1>10, <1>12, <1>14, <1>17, <1>18, <1>19, CallStep, Zenon

(* A closed end: nothing is read from it any more. *)
LEMMA ClosedConn ==
    ASSUME Types, NEW c \in Conns, conns' = Closed(c), server' = server
    PROVE  /\ conns' \in [Conns -> ConnType]
           /\ \A d \in Conns : d # c => conns'[d] = conns[d]
           /\ conns'[c].srv = conns[c].srv /\ conns'[c].cli = FALSE /\ conns'[c].down = <<>>
           /\ Pending(c)' \subseteq Pending(c)
<1> DEFINE new == [conns[c] EXCEPT !.cli = FALSE, !.down = <<>>]
<1>1. conns[c] \in ConnType
    BY Zenon DEF Types
<1>. <<>> \in Seq(Pieces) /\ <<>> \in Seq(Replies)
    OBVIOUS
<1>2. Spent \in ConnType /\ Spent.srv = "closed" /\ Spent.up = <<>> /\ Spent.cli = FALSE /\ Spent.down = <<>>
    BY Zenon DEF Spent, FreshConn, ConnType
<1>3. /\ new \in ConnType /\ new.srv = conns[c].srv /\ new.up = conns[c].up
      /\ new.cli = FALSE /\ new.down = <<>>
    BY <1>1, Zenon DEF ConnType
<1>4. conns' = [conns EXCEPT ![c] = IF conns[c].srv = "closed" THEN Spent ELSE new]
    BY Zenon DEF Closed
<1>. HIDE DEF new
<1>5. /\ conns'[c] = IF conns[c].srv = "closed" THEN Spent ELSE new
      /\ \A d \in Conns : d # c => conns'[d] = conns[d]
      /\ conns' \in [Conns -> ConnType]
    BY <1>2, <1>3, <1>4, Zenon DEF Types
<1>6. Got(c)' = Got(c)
    BY Zenon DEF Got
<1>7. Pending(c)' \subseteq Pending(c)
  <2>1. CASE conns[c].srv = "closed"
    <3>1. 1 .. Len(conns'[c].up) = {}
        BY <1>2, <1>5, <2>1
    <3> QED BY <1>6, <3>1, Zenon DEF Pending
  <2>2. CASE conns[c].srv # "closed"
    <3>1. conns'[c].up = conns[c].up
        BY <1>3, <1>5, <2>2, Zenon
    <3> QED BY <1>6, <3>1, Zenon DEF Pending
  <2> QED BY <2>1, <2>2, Zenon
<1> QED BY <1>2, <1>3, <1>5, <1>7, Zenon

(* A client that is idle has nothing. *)
LEMMA IdleCall ==
    /\ IdleClient \in ClientType /\ IdleClient.pc = "idle" /\ IdleClient.req = NoReq
    /\ IdleClient.conn = NoConn
    BY Zenon DEF IdleClient, ClientType, Replies

(* A client gives up its connection, with whatever is left on it. *)
LEMMA CloseKeeps ==
    ASSUME CInv, NEW k \in Clients, client[k].pc # "idle", CloseConn(k),
           UNCHANGED <<server, ran, issued, written>>, timeouts' \in Nat
    PROVE  CInv'
<1>1. PICK c : c = client[k].conn
    OBVIOUS
<1>2. /\ c \in Conns /\ conns[c].owner = k /\ conns[c].cli /\ conns[c].srv # "none"
      /\ Types /\ EndsInv /\ ServerInv
    BY <1>1, Calling, Zenon
<1>3. /\ conns' = Closed(c) /\ client' = [client EXCEPT ![k] = IdleClient]
      /\ server' = server /\ ran' = ran /\ issued' = issued
    BY <1>1, Zenon DEF CloseConn
<1>4. /\ conns' \in [Conns -> ConnType]
      /\ \A d \in Conns : d # c => conns'[d] = conns[d]
      /\ conns'[c].srv = conns[c].srv /\ conns'[c].cli = FALSE /\ conns'[c].down = <<>>
      /\ Pending(c)' \subseteq Pending(c)
    BY <1>2, <1>3, ClosedConn, Zenon
<1>5. /\ client' \in [Clients -> ClientType] /\ client'[k] = IdleClient
      /\ \A j \in Clients : j # k => client'[j] = client[j]
    BY <1>2, <1>3, IdleCall, Zenon DEF Types
<1>6. Types'
    BY <1>2, <1>3, <1>4, <1>5, Zenon DEF Types
<1>7. ServerInv' /\ \A d \in Conns : Got(d)' = Got(d)
    BY <1>2, <1>3, <1>4, SameThread, Zenon
<1>8. \A j \in Clients : j # k /\ client[j].pc # "idle" => client[j].conn \in Conns /\ client[j].conn # c
    BY <1>2, Zenon DEF EndsInv
<1>9. EndsInv'
  <2>1. \A d \in Conns : conns'[d].cli => d # c /\ conns'[d] = conns[d]
      BY <1>4, Zenon
  <2>2. ASSUME NEW d \in Conns
        PROVE  /\ conns'[d].srv = "none" => conns'[d] = FreshConn
               /\ ~conns'[d].cli => conns'[d].down = <<>>
               /\ conns'[d].cli => conns'[d].owner \in Clients \cup Peers
    <3>1. CASE d = c
        BY <1>2, <1>4, <3>1, Zenon
    <3>2. CASE d # c
        BY <1>2, <1>4, <3>2 DEF EndsInv
    <3> QED BY <3>1, <3>2, Zenon
  <2>3. ASSUME NEW d \in Conns, conns'[d].cli, conns'[d].owner \in Clients
        PROVE  client'[conns'[d].owner].pc # "idle" /\ client'[conns'[d].owner].conn = d
    <3>1. d # c /\ conns'[d] = conns[d]
        BY <2>1, <2>3, Zenon
    <3>2. client[conns[d].owner].pc # "idle" /\ client[conns[d].owner].conn = d
        BY <1>2, <2>3, <3>1, Zenon DEF EndsInv
    <3>3. conns[d].owner # k
        BY <1>1, <3>1, <3>2, Zenon
    <3> QED BY <1>5, <2>3, <3>1, <3>2, <3>3, Zenon
  <2>4. ASSUME NEW j \in Clients, client'[j].pc # "idle"
        PROVE  /\ client'[j].conn \in Conns
               /\ conns'[client'[j].conn].owner = j
               /\ conns'[client'[j].conn].cli
    <3>1. j # k /\ client'[j] = client[j]
        BY <1>5, <2>4, IdleCall, Zenon
    <3> QED BY <1>2, <1>4, <1>8, <2>4, <3>1 DEF EndsInv
  <2> QED BY <2>2, <2>3, <2>4, Zenon DEF EndsInv
<1>10. PendingInv'
  <2>1. PendingInv /\ issued \in Nat
      BY <1>2, Zenon DEF CInv, Types
  <2>2. \A d \in Conns : Pending(d)' \subseteq Pending(d)
    <3>1. TAKE d \in Conns
    <3>2. CASE d # c
      <4>1. conns'[d] = conns[d] /\ Got(d)' = Got(d)
          BY <1>4, <1>7, <3>2, Zenon
      <4> QED BY <4>1, Zenon DEF Pending
    <3> QED BY <1>4, <3>2, Zenon
  <2>3. \A j \in Clients : client'[j].req <= issued
      BY <1>5, <2>1, IdleCall DEF PendingInv, NoReq
  <2>4. \A j \in Clients : client'[j].pc # "idle" => client'[j] = client[j]
      BY <1>5, IdleCall, Zenon
  <2> QED BY <1>3, <2>1, <2>2, <2>3, <2>4 DEF PendingInv
<1>11. ASSUME NEW j \in Clients PROVE CallInv(j)'
  <2>1. CASE j = k
      BY <1>5, <2>1, IdleCall, Zenon DEF CallInv
  <2>2. CASE j # k
    <3>1. CallInv(j)
        BY Zenon DEF CInv
    <3> QED BY <1>3, <1>4, <1>5, <1>7, <1>8, <2>2, <3>1, CallFrame, Zenon
  <2> QED BY <2>1, <2>2, Zenon
<1> QED BY <1>6, <1>7, <1>9, <1>10, <1>11, Zenon DEF CInv

(* A new connection, of a peer or of a client that had none. *)
LEMMA ConnectKeeps ==
    ASSUME CInv, NEW c \in Unused, NEW o \in Clients \cup Peers, conns' = Connected(c, o),
           UNCHANGED <<server, ran, issued, written, timeouts>>,
           \/ o \in Peers /\ client' = client
           \/ /\ o \in Clients /\ client[o].pc = "idle"
              /\ client' = [client EXCEPT ![o] = [IdleClient EXCEPT !.pc = "dialed", !.conn = c]]
    PROVE  CInv'
<1> DEFINE new == [FreshConn EXCEPT !.owner = o, !.srv = "backlog", !.cli = TRUE]
           now == [IdleClient EXCEPT !.pc = "dialed", !.conn = c]
<1>1. /\ Types /\ EndsInv /\ ServerInv /\ PendingInv /\ c \in Conns /\ conns[c].srv = "none"
      /\ server' = server /\ ran' = ran /\ issued' = issued
    BY Zenon DEF CInv, Unused
<1>2. conns[c] = FreshConn /\ conns[c].cli = FALSE
  <2>1. conns[c] = FreshConn
      BY <1>1, Zenon DEF EndsInv
  <2> QED BY <2>1 DEF FreshConn
<1>3. /\ new \in ConnType /\ new.srv = "backlog" /\ new.cli = TRUE /\ new.owner = o
      /\ new.up = <<>> /\ new.down = <<>>
  <2>1. <<>> \in Seq(Pieces) /\ <<>> \in Seq(Replies)
      OBVIOUS
  <2> QED BY <2>1, Zenon DEF FreshConn, ConnType
<1>4. conns' = [conns EXCEPT ![c] = new]
    BY Zenon DEF Connected
<1>. HIDE DEF new
<1>5. /\ conns' \in [Conns -> ConnType] /\ conns'[c] = new
      /\ \A d \in Conns : d # c => conns'[d] = conns[d]
    BY <1>1, <1>3, <1>4, Zenon DEF Types
<1>6. now \in ClientType /\ now.pc = "dialed" /\ now.conn = c /\ now.req = NoReq
    BY <1>1, Zenon DEF IdleClient, ClientType, Replies
<1>7. \/ o \in Peers /\ o \notin Clients /\ client' = client
      \/ o \in Clients /\ client[o].pc = "idle" /\ client' = [client EXCEPT ![o] = now]
    BY SocketAssumption, Zenon
<1>. HIDE DEF now
<1>8. /\ client' \in [Clients -> ClientType]
      /\ \A j \in Clients : j # o => client'[j] = client[j]
      /\ o \in Clients => client'[o] = now /\ client[o].pc = "idle"
    BY <1>1, <1>6, <1>7, Zenon DEF Types
<1>9. Types'
    BY <1>1, <1>5, <1>8, Zenon DEF Types
<1>10. ServerInv' /\ Got(c) = <<>> /\ \A d \in Conns : Got(d)' = Got(d)
  <2>1. InList' = InList /\ Backlog \subseteq Backlog'
      BY <1>1, <1>3, <1>5 DEF InList, Backlog
  <2>2. c \notin server.ready
      BY <1>1, Zenon DEF ServerInv, InList
  <2>3. ServerInv'
      BY <1>1, <2>1, Zenon DEF ServerInv
  <2> QED BY <1>1, <2>2, <2>3, Zenon DEF Got, ServerInv
<1>11. \A j \in Clients : client[j].pc # "idle" =>
          client[j].conn \in Conns /\ client[j].conn # c /\ j # o
    BY <1>1, <1>2, <1>8, Zenon DEF EndsInv
<1>12. EndsInv'
  <2>1. ASSUME NEW d \in Conns
        PROVE  /\ conns'[d].srv = "none" => conns'[d] = FreshConn
               /\ ~conns'[d].cli => conns'[d].down = <<>>
               /\ conns'[d].cli => conns'[d].owner \in Clients \cup Peers
    <3>1. CASE d = c
        BY <1>3, <1>5, <3>1, Zenon
    <3>2. CASE d # c
        BY <1>1, <1>5, <3>2 DEF EndsInv
    <3> QED BY <3>1, <3>2, Zenon
  <2>2. ASSUME NEW d \in Conns, conns'[d].cli, conns'[d].owner \in Clients
        PROVE  client'[conns'[d].owner].pc # "idle" /\ client'[conns'[d].owner].conn = d
    <3>1. CASE d = c
        BY <1>3, <1>5, <1>6, <1>8, <2>2, <3>1
    <3>2. CASE d # c
      <4>1. conns'[d] = conns[d]
          BY <1>5, <3>2, Zenon
      <4>2. client[conns[d].owner].pc # "idle" /\ client[conns[d].owner].conn = d
          BY <1>1, <2>2, <4>1, Zenon DEF EndsInv
      <4>3. client'[conns[d].owner] = client[conns[d].owner]
          BY <1>8, <2>2, <4>1, <4>2, Zenon
      <4> QED BY <4>1, <4>2, <4>3, Zenon
    <3> QED BY <3>1, <3>2, Zenon
  <2>3. ASSUME NEW j \in Clients, client'[j].pc # "idle"
        PROVE  /\ client'[j].conn \in Conns
               /\ conns'[client'[j].conn].owner = j
               /\ conns'[client'[j].conn].cli
    <3>1. CASE j = o
        BY <1>1, <1>3, <1>5, <1>6, <1>8, <3>1
    <3>2. CASE j # o
      <4>1. client'[j] = client[j] /\ client[j].conn # c /\ client[j].conn \in Conns
          BY <1>8, <1>11, <2>3, <3>2, Zenon
      <4> QED BY <1>1, <1>5, <2>3, <4>1 DEF EndsInv
    <3> QED BY <3>1, <3>2, Zenon
  <2> QED BY <2>1, <2>2, <2>3, Zenon DEF EndsInv
<1>13. PendingInv'
  <2>1. \A d \in Conns : Pending(d)' \subseteq Pending(d)
    <3>1. TAKE d \in Conns
    <3>2. CASE d = c
      <4>1. 1 .. Len(conns'[d].up) = {} /\ 1 .. Len(Got(d)') = {}
          BY <1>3, <1>5, <1>10, <3>2
      <4> QED BY <4>1, Zenon DEF Pending
    <3>3. CASE d # c
      <4>1. conns'[d] = conns[d] /\ Got(d)' = Got(d)
          BY <1>5, <1>10, <3>3, Zenon
      <4> QED BY <4>1, Zenon DEF Pending
    <3> QED BY <3>2, <3>3, Zenon
  <2>2. \A j \in Clients : client'[j] = client[j] \/ client'[j].req = NoReq
      BY <1>6, <1>8, Zenon
  <2>3. \A j \in Clients : client'[j].req <= issued
      BY <1>1, <2>2 DEF PendingInv, NoReq, Types
  <2> QED BY <1>1, <2>1, <2>2, <2>3 DEF PendingInv
<1>14. ASSUME NEW j \in Clients PROVE CallInv(j)'
  <2>1. CASE j = o
    <3>1. client'[j] = now
        BY <1>8, <2>1, Zenon
    <3>2. conns'[c].srv # "open" /\ Silent(c)'
        BY <1>1, <1>3, <1>5, <1>10, Zenon DEF Silent
    <3> QED BY <1>6, <3>1, <3>2, Zenon DEF CallInv
  <2>2. CASE j # o
    <3>1. CallInv(j) /\ client'[j] = client[j]
        BY <1>8, <2>2, Zenon DEF CInv
    <3> QED BY <1>1, <1>5, <1>10, <1>11, <3>1, CallFrame, Zenon
  <2> QED BY <2>1, <2>2, Zenon
<1> QED BY <1>9, <1>10, <1>12, <1>13, <1>14, Zenon DEF CInv

(* The steps of a client. *)
LEMMA ClientKeeps ==
    ASSUME CInv, NEW k \in Clients, ClientStep(k) \/ Timeout(k) \/ Close(k)
    PROVE  CInv'
<1>1. timeouts \in Nat
    BY Zenon DEF CInv, Types
<1>2. CASE Dial(k)
  <2>1. PICK c \in Unused :
           /\ conns' = Connected(c, k)
           /\ client' = [client EXCEPT ![k] = [IdleClient EXCEPT !.pc = "dialed", !.conn = c]]
      BY <1>2, Zenon DEF Dial, Oldest
  <2>2. UNCHANGED <<server, ran, issued, written, timeouts>> /\ client[k].pc = "idle" /\ k \in Clients \cup Peers
      BY <1>2, Zenon DEF Dial
  <2> QED BY <2>1, <2>2, ConnectKeeps, Zenon
<1>3. CASE SendHello(k)
    BY <1>3, SendHelloKeeps, Zenon
<1>4. CASE WriteFails(k)
    BY <1>1, <1>4, CloseKeeps, Zenon DEF WriteFails
<1>5. CASE SendCommand(k)
    BY <1>5, SendCommandKeeps
<1>6. CASE TakeAnswer(k)
    BY <1>6, TakeAnswerKeeps
<1>7. CASE EndOfStream(k)
    BY <1>1, <1>7, CloseKeeps, Zenon DEF EndOfStream
<1>8. CASE Timeout(k)
    BY <1>1, <1>8, CloseKeeps DEF Timeout
<1>9. CASE Close(k)
    BY <1>1, <1>9, CloseKeeps, Zenon DEF Close
<1> QED BY <1>2, <1>3, <1>4, <1>5, <1>6, <1>7, <1>8, <1>9, Zenon DEF ClientStep

(* A peer that is connected has no request of a client on its connection. *)
LEMMA PeerConn ==
    ASSUME CInv, NEW p \in Peers, NEW c \in Conns, conns[c].owner = p, conns[c].cli
    PROVE  /\ p \notin Clients /\ conns[c].srv # "none"
           /\ \A k \in Clients : ~(client[k].pc # "idle" /\ client[k].conn = c)
<1>1. p \notin Clients
    BY SocketAssumption, Zenon
<1>2. FreshConn.cli = FALSE
    BY Zenon DEF FreshConn
<1> QED BY <1>1, <1>2 DEF CInv, EndsInv

(* The steps of a peer. *)
LEMMA PeerKeeps ==
    ASSUME CInv, NEW p \in Peers, PeerConnects(p) \/ PeerWrites(p) \/ PeerCloses(p)
    PROVE  CInv'
<1>1. /\ Types /\ EndsInv /\ ServerInv /\ server \in ServerType
      /\ written \in Nat /\ timeouts \in Nat /\ ran \in [Requests -> Nat]
    BY Zenon DEF CInv, Types
<1>2. CASE PeerConnects(p)
  <2>1. PICK c \in Unused : conns' = Connected(c, p)
      BY <1>2, Zenon DEF PeerConnects, Oldest
  <2>2. UNCHANGED <<server, ran, issued, written, timeouts>> /\ client' = client /\ p \in Clients \cup Peers
      BY <1>2, Zenon DEF PeerConnects
  <2> QED BY <2>1, <2>2, ConnectKeeps, Zenon
<1>3. CASE PeerWrites(p)
  <2>1. PICK c \in Conns, kind \in {"hello", "known"}, parts \in {<<TRUE>>, <<FALSE>>, Overlong} :
           /\ conns[c].owner = p /\ conns[c].cli
           /\ conns' = Write(c, [i \in 1..Len(parts) |-> Piece(NoReq, kind, parts[i])])
      BY <1>3, Zenon DEF PeerWrites
  <2>2. PICK ps : ps = [i \in 1..Len(parts) |-> Piece(NoReq, kind, parts[i])]
      OBVIOUS
  <2>3. parts \in Seq(BOOLEAN) /\ kind \in Kinds /\ NoReq \in Requests \cup {NoReq}
    <3>1. <<TRUE>> \in Seq(BOOLEAN) /\ <<FALSE>> \in Seq(BOOLEAN)
        OBVIOUS
    <3>2. Overlong \in [1 .. BufLen -> BOOLEAN] /\ BufLen \in Nat
        BY SocketAssumption, Zenon DEF Overlong
    <3>3. Overlong \in Seq(BOOLEAN)
        BY <3>2
    <3> QED BY <2>1, <3>1, <3>3, Zenon DEF Kinds
  <2>4. ps \in Seq(Pieces) /\ \A i \in 1 .. Len(ps) : ps[i].req = NoReq
    <3>1. PICK r : r = NoReq
        OBVIOUS
    <3>2. r \in Requests \cup {NoReq} /\ ps = [i \in 1..Len(parts) |-> Piece(r, kind, parts[i])]
        BY <2>2, <3>1, Zenon
    <3>3. /\ ps \in Seq(Pieces) /\ Len(ps) = Len(parts)
          /\ \A i \in 1 .. Len(parts) : ps[i] = Piece(r, kind, parts[i])
          /\ \A i \in 1 .. Len(ps) : ps[i].req = r
        BY <2>3, <3>2, Written
    <3> QED BY <3>1, <3>3, Zenon
  <2>5. conns' = Write(c, ps)
      BY <2>1, <2>2, Zenon
  <2>6. client' = client /\ issued' = issued /\ server' = server /\ ran' = ran /\ timeouts' = timeouts /\ written' \in Nat
    <3>1. client' = client /\ issued' = issued /\ server' = server /\ ran' = ran /\ timeouts' = timeouts
        BY <1>3, Zenon DEF PeerWrites
    <3>2. written' = written + 1 /\ written \in Nat
        BY <1>1, <1>3, Zenon DEF PeerWrites, Types
    <3>3. written' \in Nat
        BY <3>2
    <3> QED BY <3>1, <3>3, Zenon
  <2>7. /\ conns' \in [Conns -> ConnType]
        /\ \A d \in Conns : d # c => conns'[d] = conns[d]
        /\ conns'[c].down = conns[c].down /\ conns'[c].srv = conns[c].srv
        /\ conns'[c].cli = conns[c].cli /\ conns'[c].owner = conns[c].owner
        /\ Pending(c)' \subseteq Pending(c) \cup {NoReq}
      BY <1>1, <2>4, <2>5, <2>6, WriteConn, Zenon
  <2>8. /\ p \notin Clients /\ conns[c].srv # "none"
        /\ \A k \in Clients : ~(client[k].pc # "idle" /\ client[k].conn = c)
      BY <2>1, PeerConn, Zenon
  <2>9. ServerInv' /\ \A d \in Conns : Got(d)' = Got(d)
      BY <1>1, <2>6, <2>7, SameThread, Zenon
  <2> QED BY <1>1, <2>1, <2>6, <2>7, <2>8, <2>9, OneConn, Zenon
<1>4. CASE PeerCloses(p)
  <2>1. PICK c \in Conns : conns[c].owner = p /\ conns[c].cli /\ conns' = Closed(c)
      BY <1>4, Zenon DEF PeerCloses
  <2>2. client' = client /\ issued' = issued /\ server' = server /\ ran' = ran /\ timeouts' = timeouts /\ written' = written
      BY <1>4, Zenon DEF PeerCloses
  <2>3. /\ conns' \in [Conns -> ConnType]
        /\ \A d \in Conns : d # c => conns'[d] = conns[d]
        /\ conns'[c].srv = conns[c].srv /\ conns'[c].cli = FALSE /\ conns'[c].down = <<>>
        /\ Pending(c)' \subseteq Pending(c)
      BY <1>1, <2>1, <2>2, ClosedConn, Zenon
  <2>4. /\ p \notin Clients /\ conns[c].srv # "none"
        /\ \A k \in Clients : ~(client[k].pc # "idle" /\ client[k].conn = c)
      BY <2>1, PeerConn, Zenon
  <2>5. ServerInv' /\ \A d \in Conns : Got(d)' = Got(d)
      BY <1>1, <2>2, <2>3, SameThread, Zenon
  <2> QED BY <1>1, <2>1, <2>2, <2>3, <2>4, <2>5, OneConn, Zenon
<1> QED BY <1>2, <1>3, <1>4, Zenon

(* The invariant holds at the start. *)
LEMMA InitKeeps == Init => CInv
<1> SUFFICES ASSUME Init PROVE CInv
    OBVIOUS
<1>1. FreshConn \in ConnType /\ FreshConn.srv = "none" /\ FreshConn.cli = FALSE /\ FreshConn.up = <<>> /\ FreshConn.down = <<>>
  <2>1. <<>> \in Seq(Pieces) /\ <<>> \in Seq(Replies)
      OBVIOUS
  <2> QED BY <2>1, Zenon DEF FreshConn, ConnType
<1>2. \A c \in Conns : conns[c] = FreshConn
    BY Zenon DEF Init
<1>3. \A k \in Clients : client[k] = IdleClient
    BY Zenon DEF Init
<1>4. Types
    BY <1>1, IdleThread, IdleCall, SocketAssumption DEF Init, Types
<1>5. ServerInv
    BY IdleThread, Zenon DEF Init, ServerInv
<1>6. EndsInv
    BY <1>1, <1>2, <1>3, IdleCall, Zenon DEF EndsInv
<1>7. PendingInv
  <2>1. \A c \in Conns : Got(c) = <<>> /\ conns[c].up = <<>>
      BY <1>1, <1>2, IdleThread, Zenon DEF Init, Got
  <2>2. \A c \in Conns : Pending(c) = {}
    <3>1. TAKE c \in Conns
    <3>2. 1 .. Len(conns[c].up) = {} /\ 1 .. Len(Got(c)) = {}
        BY <2>1
    <3> QED BY <3>2, Zenon DEF Pending
  <2>3. (\A k \in Clients : client[k].req <= issued) /\ \A r \in Requests : ran[r] = 0
      BY <1>3, IdleCall DEF Init, NoReq
  <2> QED BY <2>2, <2>3, Zenon DEF PendingInv
<1>8. \A k \in Clients : CallInv(k)
    BY <1>3, IdleCall, Zenon DEF CallInv
<1> QED BY <1>4, <1>5, <1>6, <1>7, <1>8, Zenon DEF CInv

(* Every step keeps it. *)
LEMMA NextKeeps == CInv /\ [Next]_vars => CInv'
<1> SUFFICES ASSUME CInv, [Next]_vars PROVE CInv'
    OBVIOUS
<1>1. CASE Serve
  <2>1. CASE GreetTimeout
      BY <2>1, NotGreetedKeeps, Zenon DEF GreetTimeout
  <2> QED BY <1>1, <2>1, SelectKeeps, ServeClientKeeps, PieceComesKeeps, PieceWaitKeeps, ServedAllKeeps, GreetKeeps, Zenon
          DEF Serve
<1>2. CASE SelectFails
    BY <1>2, SelectFailsKeeps, Zenon
<1>3. CASE \E k \in Clients : ClientStep(k) \/ Timeout(k) \/ Close(k)
    BY <1>3, ClientKeeps, Zenon
<1>4. CASE \E p \in Peers : PeerConnects(p) \/ PeerWrites(p) \/ PeerCloses(p)
    BY <1>4, PeerKeeps, Zenon
<1>5. CASE UNCHANGED vars
  <2>1. UNCHANGED <<conns, client, ran, issued, written, timeouts>> /\ server' = server /\ conns' = conns
      BY <1>5, Zenon DEF vars
  <2>2. server' \in ServerType /\ ServerInv' /\ \A d \in Conns : Got(d)' = Got(d)
    <3>1. server \in ServerType /\ ServerInv
        BY Zenon DEF CInv, Types
    <3> QED BY <2>1, <3>1, SameThread, Zenon
  <2> QED BY <2>1, <2>2, ThreadOnly, Zenon
<1> QED BY <1>1, <1>2, <1>3, <1>4, <1>5, Zenon DEF Next

-----------------------------------------------------------------------------
(***************************************************************************)
(* The invariant of the control socket: types, what the thread holds, the  *)
(* ends of the connections, where requests are pending, and the state of   *)
(* each call (unix_manager_main, unix_client_recv, RunCommand).            *)
(***************************************************************************)
THEOREM SocketInvariant == Spec => []CInv
<1>1. Init => CInv
    BY InitKeeps, Zenon
<1>2. CInv /\ [Next]_vars => CInv'
    BY NextKeeps, Zenon
<1> QED BY <1>1, <1>2, PTL DEF Spec

(***************************************************************************)
(* The clients that the thread has selected are in its list when it reads  *)
(* from them, and what it has read of a request leaves room in its buffer  *)
(* (unix_manager_main, unix_client_recv).                                  *)
(***************************************************************************)
THEOREM SocketTypeOK == Spec => []TypeOK
<1>1. ASSUME CInv PROVE TypeOK
  <2>1. Types /\ ServerInv
      BY <1>1, Zenon DEF CInv
  <2>2. /\ \A c \in Conns :
             /\ conns[c].srv \in {"none", "backlog", "open", "closed"}
             /\ conns[c].up \in Seq(Pieces) /\ conns[c].down \in Seq(Replies)
        /\ server.pc \in {"select", "serve", "piece", "accept", "dead"}
        /\ server.got \in Seq(Pieces)
        /\ \A k \in Clients : client[k].pc \in {"idle", "dialed", "hello", "ready", "waiting"}
      BY <2>1, Zenon DEF Types, ConnType, ServerType, ClientType
  <2>3. server.ready \subseteq InList /\ Len(server.got) < BufLen
      BY <2>1, Zenon DEF ServerInv
  <2>4. server.cur # NoConn => server.cur \in IF server.pc = "accept" THEN Backlog ELSE InList
      BY <2>1, <2>2, Zenon DEF ServerInv
  <2> QED BY <2>2, <2>3, <2>4, Zenon DEF TypeOK
<1> QED BY <1>1, SocketInvariant, PTL

(***************************************************************************)
(* An answer that a client took is the answer to its own last request, and *)
(* OK says that the command ran once (unix_command_execute, RunCommand).   *)
(***************************************************************************)
THEOREM SocketAnswerIsMine == Spec => []AnswerIsMine
<1>1. CInv => AnswerIsMine
    BY Zenon DEF CInv, CallInv, AnswerIsMine
<1> QED BY <1>1, SocketInvariant, PTL
=============================================================================
