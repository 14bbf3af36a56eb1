----------------------------- MODULE EventLoop ------------------------------
(***************************************************************************)
(* The server's event loop with its connections and parser (Server.cpp,    *)
(* Connection.cpp, RespParser::parse) between clients and the commands.    *)
(* One thread; epoll is level-triggered and only ever watches EPOLLIN.     *)
(*                                                                         *)
(* A request travels as elements: the array header, then each argument as  *)
(* a bulk string.  Bytes arrive cut anywhere; a cut inside an element is   *)
(* to the parser what a missing element is.  No bulk string holds bytes    *)
(* that read as the start of a request.  A reply travels as one element,   *)
(* an array as its header and one more for each item.                      *)
(***************************************************************************)
EXTENDS CommandOps

CONSTANTS
    Client,    \* each opens one connection
    Script,    \* the requests each client sends, in order
    Patient,   \* the clients that wait for each reply before the next request
    Rude,      \* the clients that may hang up
    FD,        \* descriptors the process has for connections
    SockRoom   \* elements the kernel takes in for a client that does not read

ASSUME EventLoopAssumption ==
    /\ FD \subseteq Nat \ {0} /\ IsFiniteSet(FD)
    /\ Patient \subseteq Client /\ Rude \subseteq Client
    /\ SockRoom \in Nat \ {0}
    /\ DOMAIN Script = Client

\* Scripts are sequences of requests, which are sequences of arguments.
ASSUME ScriptAssumption ==
    \A c \in Client :
        /\ Script[c] \in Seq(ToSet(Script[c]))
        /\ \A i \in DOMAIN Script[c] : Script[c][i] \in Seq(ToSet(Script[c][i]))

VARIABLES
    client,       \* phase, requests not begun, elements not sent, elements got
    sock,         \* in the kernel: bytes received, bytes to deliver, descriptor
    backlog,      \* clients that connected and are not accepted
    connections,  \* connections_: read and write buffer of each descriptor
    events,       \* what epoll_wait returned and the loop has still to handle
    writing,      \* the descriptor whose response is sent next
    data,         \* the database
    executed,     \* history: the commands executed for each client,
    replies       \* and all replies made to it

vars == <<client, sock, backlog, connections, events, writing, data, executed, replies>>

listen_fd == 0
NoFd == -1

Array(n) == [kind |-> "array", argc |-> n]
Arg(s)   == [kind |-> "bulk", str |-> s]

Request(args) == <<Array(Len(args))>> \o [i \in DOMAIN args |-> Arg(args[i])]

Elements(r) ==
    IF r.type # "array" THEN <<r>>
    ELSE <<Integer(Cardinality(r.keys))>>
         \o [i \in 1 .. Cardinality(r.keys) |-> Bulk(SetToSeq(r.keys)[i])]

\* The elements of all replies made to c.
Stream(c) == FlattenSeq([i \in DOMAIN replies[c] |-> Elements(replies[c][i])])

Init ==
    /\ client = [c \in Client |->
          [phase |-> "away", script |-> Script[c], unsent |-> <<>>, got |-> <<>>]]
    /\ sock = [c \in Client |-> [inbox |-> <<>>, outbox |-> <<>>, fd |-> NoFd]]
    /\ backlog = <<>>
    /\ connections = <<>>
    /\ events = <<>>
    /\ writing = NoFd
    /\ data = Empty
    /\ executed = [c \in Client |-> <<>>]
    /\ replies = [c \in Client |-> <<>>]

-----------------------------------------------------------------------------
(* The clients. *)

server == <<connections, events, writing, data, executed, replies>>

Connect(c) ==
    /\ client[c].phase = "away"
    /\ client' = [client EXCEPT ![c].phase = "connected"]
    /\ backlog' = Append(backlog, c)
    /\ UNCHANGED <<sock, server>>

MayBegin(c) ==
    /\ client[c].unsent = <<>>
    /\ client[c].script # <<>>
    /\ c \in Patient =>
          /\ Len(replies[c]) = Len(Script[c]) - Len(client[c].script)
          /\ client[c].got = Stream(c)

\* One element of a request arrives, maybe before the connection is accepted.
Deliver(c, rest, script) ==
    /\ client' = [client EXCEPT ![c].unsent = Tail(rest), ![c].script = script]
    /\ sock' = [sock EXCEPT ![c].inbox = Append(@, Head(rest))]
    /\ UNCHANGED <<backlog, server>>

Send(c) ==
    /\ client[c].phase = "connected"
    /\ \/ client[c].unsent # <<>> /\ Deliver(c, client[c].unsent, client[c].script)
       \/ MayBegin(c) /\ Deliver(c, Request(Head(client[c].script)), Tail(client[c].script))

Receive(c) ==
    /\ client[c].phase = "connected"
    /\ sock[c].outbox # <<>>
    /\ client' = [client EXCEPT ![c].got = Append(@, Head(sock[c].outbox))]
    /\ sock' = [sock EXCEPT ![c].outbox = Tail(@)]
    /\ UNCHANGED <<backlog, server>>

\* The client closes its end, whatever is still under way.
HangUp(c) ==
    /\ c \in Rude
    /\ client[c].phase = "connected"
    /\ client' = [client EXCEPT ![c].phase = "gone", ![c].script = <<>>, ![c].unsent = <<>>]
    /\ UNCHANGED <<sock, backlog, server>>

-----------------------------------------------------------------------------
(* RespParser::parse and Connection. *)

parse_OneMore(buf) ==
    IF buf = <<>> THEN "INCOMPLETE"
    ELSE IF buf[1].kind # "array" THEN "ERROR"
    ELSE IF \E i \in DOMAIN buf : i \in 2 .. buf[1].argc + 1 /\ buf[i].kind # "bulk"
         THEN "ERROR"
    ELSE IF Len(buf) <= buf[1].argc + 1 THEN "INCOMPLETE"
    ELSE "COMPLETE"

parse(buf) ==
    IF buf = <<>> THEN "INCOMPLETE"
    ELSE IF buf[1].kind # "array" THEN "ERROR"
    ELSE IF \E i \in DOMAIN buf : i \in 2 .. buf[1].argc + 1 /\ buf[i].kind # "bulk"
         THEN "ERROR"
    ELSE IF Len(buf) <= buf[1].argc THEN "INCOMPLETE"
    ELSE "COMPLETE"

\* The arguments of a buffer that parses as COMPLETE.
Arguments(buf) == [i \in 1 .. buf[1].argc |-> buf[i + 1].str]

consumeInput_Nothing(buf) == buf

\* The loop always passes the size of the whole buffer.
consumeInput(buf) == <<>>

Connection == [rbuf |-> <<>>, wbuf |-> <<>>]

ClientOf(fd) == CHOOSE c \in Client : sock[c].fd = fd

\* The descriptor is closed, the connection stays in the table.
Close_NoErase(fd) ==
    /\ sock' = [sock EXCEPT ![ClientOf(fd)] =
                    [inbox |-> <<>>, outbox |-> @.outbox, fd |-> NoFd]]
    /\ UNCHANGED connections

\* ~Connection closes the descriptor, which leaves the epoll set with it.
Close(fd) ==
    /\ connections' = [d \in DOMAIN connections \ {fd} |-> connections[d]]
    /\ sock' = [sock EXCEPT ![ClientOf(fd)] =
                    [inbox |-> <<>>, outbox |-> @.outbox, fd |-> NoFd]]

-----------------------------------------------------------------------------
(* Server::run. *)

outside == <<client, backlog>>

Readable(fd) ==
    \/ fd = listen_fd /\ backlog # <<>>
    \/ \E c \in Client : sock[c].fd = fd /\ (sock[c].inbox # <<>> \/ client[c].phase = "gone")

\* epoll_wait returns what is ready, in any order.
Wait ==
    /\ events = <<>> /\ writing = NoFd
    /\ LET ready == {fd \in {listen_fd} \cup DOMAIN connections : Readable(fd)}
       IN ready # {} /\ events' \in SetToSeqs(ready)
    /\ UNCHANGED <<client, sock, backlog, connections, writing, data, executed, replies>>

NextEvent == events # <<>> /\ writing = NoFd /\ events' = Tail(events)

Free == FD \ {sock[c].fd : c \in Client}

\* accept_client: the lowest free descriptor.
Accept ==
    /\ NextEvent
    /\ Head(events) = listen_fd
    /\ Free # {}
    /\ LET fd == CHOOSE n \in Free : \A m \in Free : n <= m
       IN /\ sock' = [sock EXCEPT ![Head(backlog)].fd = fd]
          /\ connections' = [d \in DOMAIN connections \cup {fd} |->
                                IF d = fd THEN Connection ELSE connections[d]]
    /\ backlog' = Tail(backlog)
    /\ UNCHANGED <<client, writing, data, executed, replies>>

\* epoll_ctl fails: the new connection is erased, which closes its
\* descriptor; the second close finds none, nobody having opened one since.
Refuse ==
    /\ NextEvent
    /\ Head(events) = listen_fd
    /\ Free # {}
    /\ client' = [client EXCEPT ![Head(backlog)].phase = "refused"]
    /\ sock' = [sock EXCEPT ![Head(backlog)].inbox = <<>>]
    /\ backlog' = Tail(backlog)
    /\ UNCHANGED <<connections, writing, data, executed, replies>>

\* accept fails for want of a descriptor; the client stays in the backlog.
AcceptFails ==
    /\ NextEvent
    /\ Head(events) = listen_fd
    /\ Free = {}
    /\ UNCHANGED <<client, sock, backlog, connections, writing, data, executed, replies>>

\* Goes on to the write after the connection is erased.
Disconnect_NoContinue ==
    /\ NextEvent
    /\ Head(events) # listen_fd
    /\ client[ClientOf(Head(events))].phase = "gone"
    /\ Close(Head(events))
    /\ writing' = Head(events)
    /\ UNCHANGED <<outside, data, executed, replies>>

\* readFromSocket meets the end of the stream: what it read before goes too.
Disconnect ==
    /\ NextEvent
    /\ Head(events) # listen_fd
    /\ client[ClientOf(Head(events))].phase = "gone"
    /\ Close(Head(events))
    /\ UNCHANGED <<outside, writing, data, executed, replies>>

Respond(c, fd, reply, rest) ==
    /\ connections' = [connections EXCEPT ![fd].wbuf = @ \o Elements(reply), ![fd].rbuf = rest]
    /\ replies' = [replies EXCEPT ![c] = Append(@, reply)]

\* The whole of the readable branch up to the write, which client steps may
\* precede: read everything, parse, execute, queue the response.
Read ==
    /\ NextEvent
    /\ Head(events) # listen_fd
    /\ LET fd  == Head(events)
           c   == ClientOf(fd)
           buf == connections[fd].rbuf \o sock[c].inbox
       IN /\ client[c].phase # "gone"
          /\ sock' = [sock EXCEPT ![c].inbox = <<>>]
          /\ writing' = fd
          /\ \/ /\ parse(buf) = "COMPLETE"
                /\ data' = execute(data, Arguments(buf)).data
                /\ executed' = [executed EXCEPT ![c] = Append(@, Arguments(buf))]
                /\ Respond(c, fd, execute(data, Arguments(buf)).reply, consumeInput(buf))
             \/ /\ parse(buf) = "ERROR"
                /\ Respond(c, fd, Error, <<>>)
                /\ UNCHANGED <<data, executed>>
             \/ /\ parse(buf) = "INCOMPLETE"
                /\ connections' = [connections EXCEPT ![fd].rbuf = buf]
                /\ UNCHANGED <<data, executed, replies>>
    /\ UNCHANGED outside

LesserOf(m, n) == IF m < n THEN m ELSE n

Room(c) == SockRoom - Len(sock[c].outbox)

Write_KeepsBuffer ==
    /\ writing # NoFd
    /\ writing' = NoFd
    /\ LET c == ClientOf(writing)
           n == LesserOf(Room(c), Len(connections[writing].wbuf))
       IN sock' = [sock EXCEPT ![c].outbox = @ \o SubSeq(connections[writing].wbuf, 1, n)]
    /\ UNCHANGED <<outside, connections, events, data, executed, replies>>

\* writeToSocket: as much as the kernel takes, which may be nothing.  Nobody
\* tries again until the next EPOLLIN of this connection.
Write ==
    /\ writing # NoFd
    /\ writing' = NoFd
    /\ LET c == ClientOf(writing)
           out == connections[writing].wbuf
           n == LesserOf(Room(c), Len(out))
       IN /\ sock' = [sock EXCEPT ![c].outbox = @ \o SubSeq(out, 1, n)]
          /\ connections' = [connections EXCEPT ![writing].wbuf = SubSeq(out, n + 1, Len(out))]
    /\ UNCHANGED <<outside, events, data, executed, replies>>

\* The peer has gone, and write says so.
WriteFails ==
    /\ writing # NoFd
    /\ connections[writing].wbuf # <<>>
    /\ client[ClientOf(writing)].phase = "gone"
    /\ writing' = NoFd
    /\ Close(writing)
    /\ UNCHANGED <<outside, events, data, executed, replies>>

Server == Wait \/ Accept \/ Refuse \/ AcceptFails \/ Disconnect \/ Read \/ Write \/ WriteFails

Next == Server \/ \E c \in Client : Connect(c) \/ Send(c) \/ Receive(c) \/ HangUp(c)

Spec == Init /\ [][Next]_vars

(* The loop never stops while something is readable, and a client that has
   begun a request sends all of it and reads what arrives.  Nobody is obliged
   to connect, and nobody to hang up.  *)
FairSpec ==
    /\ Spec
    /\ WF_vars(Server)
    /\ \A c \in Client : WF_vars(Send(c)) /\ WF_vars(Receive(c))

-----------------------------------------------------------------------------
(* Invariants. *)

Open(c) == sock[c].fd # NoFd

(* Every connection has its descriptor to itself, and the table of the server
   holds exactly the open ones: no connection outlives its descriptor, which
   the next client is given, and none leaks.  *)
TypeOK ==
    /\ DOMAIN connections = {sock[c].fd : c \in {x \in Client : Open(x)}}
    /\ \A c, d \in Client : Open(c) /\ sock[c].fd = sock[d].fd => c = d
    /\ DOMAIN connections \subseteq FD

(* An event that is waiting to be handled is of a connection that exists, and
   no descriptor is in the list twice: closing one client's connection while
   others are waiting leaves no event that the next client on its descriptor
   could be taken for.  The "continue" of Server.cpp:121 is never taken.  *)
EventsAreLive ==
    /\ \A i \in DOMAIN events : events[i] \in {listen_fd} \cup DOMAIN connections
    /\ \A i, j \in DOMAIN events : events[i] = events[j] => i = j
    /\ writing # NoFd => writing \in DOMAIN connections /\ writing \notin ToSet(events)

(* What a client has received, what the kernel holds for it and what its
   connection has still to write are, in this order, all the replies made to
   it: partial writes neither lose nor repeat anything, and nothing of a
   connection reaches the client that has its descriptor next.  *)
StreamIntact ==
    \A c \in Client :
        client[c].phase = "connected" =>
           client[c].got \o sock[c].outbox
           \o (IF Open(c) THEN connections[sock[c].fd].wbuf ELSE <<>>) = Stream(c)

\* s is t with some of its elements left out.
PickedFrom(s, t) ==
    \E at \in [DOMAIN s -> DOMAIN t] :
        /\ \A i, j \in DOMAIN s : i < j => at[i] < at[j]
        /\ \A i \in DOMAIN s : s[i] = t[at[i]]

(* However requests are cut and joined on their way, the commands executed
   for a client are requests of its own, in order and each at most once.
   For one that waits for its replies none is passed over.  *)
OnlyRequestsRun ==
    \A c \in Client :
        /\ PickedFrom(executed[c], Script[c])
        /\ c \in Patient => /\ IsPrefix(executed[c], Script[c])
                            /\ Len(replies[c]) = Len(executed[c])

-----------------------------------------------------------------------------
(* Liveness. *)

\* The server has a whole request of c that it has not answered in full.
Asked(c) ==
    /\ client[c].phase = "connected" /\ Open(c) /\ client[c].unsent = <<>>
    /\ \/ Len(replies[c]) < Len(Script[c]) - Len(client[c].script)
       \/ client[c].got # Stream(c)

(* A client that waits for its replies gets them, if the kernel has room for
   them, whatever the others do: requests that stop half way, connections
   that break off, a listening socket that stays ready for want of
   descriptors.  *)
Answered == \A c \in Patient : Asked(c) ~> ~ Asked(c)

-----------------------------------------------------------------------------
(* What a comment says of a connection, checked in a run of its own. *)

(* Connection.cpp says of what the kernel does not take: try again next time. *)
WritesAgain ==
    \A fd \in FD : LET Unwritten == fd \in DOMAIN connections /\ connections[fd].wbuf # <<>>
                   IN Unwritten ~> ~ Unwritten
=============================================================================
