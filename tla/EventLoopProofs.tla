--------------------------- MODULE EventLoopProofs --------------------------
(***************************************************************************)
(* Descriptors, connections, the backlog and the list of events stay       *)
(* consistent, for every number of clients and descriptors.  Of the state  *)
(* only this much matters: each client's descriptor (Fds) and phase        *)
(* (Phases), the domain of connections_, the backlog, the events and the   *)
(* descriptor to be written to.  On top of that, replies reach a client    *)
(* whole and in order, for every room the kernel has for them; and only    *)
(* requests of its own are executed for it, in order and none twice.       *)
(***************************************************************************)
EXTENDS EventLoop, VectorLemmas, FiniteSetTheorems

Fds    == [c \in Client |-> sock[c].fd]
Phases == [c \in Client |-> client[c].phase]

Distinct(s) == \A i, j \in DOMAIN s : s[i] = s[j] => i = j

\* The two functions of records have the fields that matter.
Shapes ==
    /\ DOMAIN client = Client /\ DOMAIN sock = Client
    /\ \A c \in Client : "phase" \in DOMAIN client[c] /\ "fd" \in DOMAIN sock[c]

\* The table holds the open descriptors, each of one client.
Table(F, T) ==
    /\ F \in [Client -> FD \cup {NoFd}]
    /\ T \subseteq FD
    /\ \A fd \in FD : fd \in T <=> \E c \in Client : F[c] = fd
    /\ \A c, d \in Client : F[c] # NoFd /\ F[c] = F[d] => c = d

\* The backlog holds clients that connected and have no descriptor yet.
Queue(F, ph, b) ==
    /\ b \in Seq(Client) /\ Distinct(b)
    /\ \A c \in ToSet(b) : F[c] = NoFd /\ ph[c] # "away"
    /\ \A c \in Client : ph[c] = "away" => F[c] = NoFd

\* What the loop has still to handle exists, the backlog included.
Batch(T, b, e, w) ==
    /\ e \in Seq({listen_fd} \cup FD) /\ Distinct(e)
    /\ ToSet(e) \subseteq {listen_fd} \cup T
    /\ listen_fd \in ToSet(e) => b # <<>>
    /\ w # NoFd => w \in T /\ w \notin ToSet(e)

Consistent(F, ph, T, b, e, w) == Table(F, T) /\ Queue(F, ph, b) /\ Batch(T, b, e, w)

IInv == Shapes /\ Consistent(Fds, Phases, DOMAIN connections, backlog, events, writing)

-----------------------------------------------------------------------------
(* Sequences without repetition. *)

LEMMA WithoutFirst ==
    ASSUME NEW S, NEW s \in Seq(S), s # <<>>, Distinct(s)
    PROVE  /\ Tail(s) \in Seq(S) /\ Distinct(Tail(s))
           /\ Head(s) \in S /\ Head(s) \in ToSet(s)
           /\ ToSet(Tail(s)) \subseteq ToSet(s)
           /\ Head(s) \notin ToSet(Tail(s))
<1>1. /\ Head(s) \in S /\ Tail(s) \in Seq(S) /\ Len(Tail(s)) = Len(s) - 1
      /\ \A i \in 1 .. Len(Tail(s)) : Tail(s)[i] = s[i + 1]
  BY HeadTailProperties
<1>2. Len(s) \in Nat \ {0} /\ DOMAIN s = 1 .. Len(s) /\ Head(s) = s[1]
  OBVIOUS
<1>3. DOMAIN Tail(s) = 1 .. Len(s) - 1
  BY <1>1, <1>2
<1>4. \A i \in DOMAIN Tail(s) : i + 1 \in DOMAIN s /\ Tail(s)[i] = s[i + 1] /\ i + 1 # 1
  BY <1>1, <1>2, <1>3
<1>5. Distinct(Tail(s))
  <2> SUFFICES ASSUME NEW i \in DOMAIN Tail(s), NEW j \in DOMAIN Tail(s), Tail(s)[i] = Tail(s)[j]
               PROVE  i = j
    BY DEF Distinct
  <2>1. i + 1 = j + 1
    BY <1>4 DEF Distinct
  <2> QED BY <2>1, <1>3
<1>6. Head(s) \in ToSet(s) /\ ToSet(Tail(s)) \subseteq ToSet(s)
  BY <1>2, <1>4 DEF ToSet
<1>7. Head(s) \notin ToSet(Tail(s))
  <2> SUFFICES ASSUME NEW i \in DOMAIN Tail(s), Tail(s)[i] = Head(s) PROVE FALSE
    BY DEF ToSet
  <2>1. 1 \in DOMAIN s /\ s[1] = s[i + 1] /\ i + 1 \in DOMAIN s /\ i + 1 # 1
    BY <1>2, <1>4
  <2> QED BY <2>1 DEF Distinct
<1> QED BY <1>1, <1>5, <1>6, <1>7

LEMMA WithOneMore ==
    ASSUME NEW S, NEW s \in Seq(S), Distinct(s), NEW x \in S, x \notin ToSet(s)
    PROVE  /\ Append(s, x) \in Seq(S) /\ Distinct(Append(s, x)) /\ Append(s, x) # <<>>
           /\ ToSet(Append(s, x)) = ToSet(s) \cup {x}
<1> DEFINE t == Append(s, x)
<1>1. /\ t \in Seq(S) /\ t # <<>> /\ Len(t) = Len(s) + 1
      /\ \A i \in 1 .. Len(s) : t[i] = s[i]
      /\ t[Len(s) + 1] = x
  BY AppendProperties
<1>2. Len(s) \in Nat /\ DOMAIN s = 1 .. Len(s)
  OBVIOUS
<1> HIDE DEF t
<1>3. DOMAIN t = 1 .. Len(s) + 1
  BY <1>1
<1>4. \A i \in 1 .. Len(s) : s[i] # x
  BY <1>2 DEF ToSet
<1>5. Distinct(t)
  BY <1>1, <1>2, <1>3, <1>4 DEF Distinct
<1>6. ToSet(t) = ToSet(s) \cup {x}
  <2>1. \A y \in ToSet(t) : y \in ToSet(s) \cup {x}
    BY <1>1, <1>2, <1>3 DEF ToSet
  <2>2. \A y \in ToSet(s) : y \in ToSet(t)
    BY <1>1, <1>2, <1>3 DEF ToSet
  <2>3. x \in ToSet(t)
    BY <1>1, <1>2, <1>3 DEF ToSet
  <2> QED BY <2>1, <2>2, <2>3
<1> QED BY <1>1, <1>5, <1>6 DEF t

-----------------------------------------------------------------------------
(* Descriptors. *)

LEMMA Descriptors ==
    /\ NoFd \notin FD /\ listen_fd \notin FD /\ listen_fd # NoFd
    /\ FD \subseteq Nat /\ IsFiniteSet(FD)
BY EventLoopAssumption DEF NoFd, listen_fd

LEMMA Opened ==
    ASSUME NEW F, NEW T, Table(F, T), NEW c \in Client, F[c] = NoFd, NEW fd \in FD \ T
    PROVE  Table([F EXCEPT ![c] = fd], T \cup {fd})
<1> DEFINE G == [F EXCEPT ![c] = fd]
<1>1. /\ G \in [Client -> FD \cup {NoFd}]
      /\ \A d \in Client : G[d] = IF d = c THEN fd ELSE F[d]
  BY DEF Table
<1>2. \A d \in Client : F[d] # fd
  BY DEF Table
<1> HIDE DEF G
<1>3. \A x \in FD : x \in T \cup {fd} <=> \E d \in Client : G[d] = x
  <2> TAKE x \in FD
  <2>1. CASE x = fd
    BY <1>1, <2>1
  <2>2. CASE x # fd
    <3>1. x # F[c]
      BY Descriptors
    <3> QED BY <1>1, <2>2, <3>1 DEF Table
  <2> QED BY <2>1, <2>2
<1>4. \A d, e \in Client : G[d] # NoFd /\ G[d] = G[e] => d = e
  BY <1>1, <1>2 DEF Table
<1> QED BY <1>1, <1>3, <1>4 DEF Table, G

LEMMA Closed ==
    ASSUME NEW F, NEW T, Table(F, T), NEW c \in Client, F[c] \in T
    PROVE  Table([F EXCEPT ![c] = NoFd], T \ {F[c]})
<1> DEFINE G == [F EXCEPT ![c] = NoFd]
<1>1. /\ G \in [Client -> FD \cup {NoFd}]
      /\ \A d \in Client : G[d] = IF d = c THEN NoFd ELSE F[d]
  BY DEF Table
<1> HIDE DEF G
<1>2. \A x \in FD : x \in T \ {F[c]} <=> \E d \in Client : G[d] = x
  <2> TAKE x \in FD
  <2>1. CASE x = F[c]
    <3>1. ASSUME NEW d \in Client, G[d] = x PROVE FALSE
      <4>1. d # c /\ F[d] = F[c]
        BY <1>1, <2>1, <3>1, Descriptors
      <4>2. F[c] # NoFd
        BY Descriptors DEF Table
      <4> QED BY <4>1, <4>2 DEF Table
    <3> QED BY <2>1, <3>1
  <2>2. CASE x # F[c]
    BY <1>1, <2>2, Descriptors DEF Table
  <2> QED BY <2>1, <2>2
<1>3. \A d, e \in Client : G[d] # NoFd /\ G[d] = G[e] => d = e
  BY <1>1 DEF Table
<1> QED BY <1>1, <1>2, <1>3 DEF Table, G

\* The client of a descriptor that is in the table.
LEMMA Owner ==
    ASSUME Table(Fds, DOMAIN connections), NEW fd \in DOMAIN connections
    PROVE  ClientOf(fd) \in Client /\ sock[ClientOf(fd)].fd = fd /\ Fds[ClientOf(fd)] = fd
<1>1. fd \in FD /\ \E c \in Client : Fds[c] = fd
  BY DEF Table
<1>2. \E c \in Client : sock[c].fd = fd
  BY <1>1 DEF Fds
<1> QED BY <1>2 DEF ClientOf, Fds

-----------------------------------------------------------------------------
(* What the steps do to this part of the state. *)

LEMMA ClientSteps ==
    ASSUME IInv, NEW c \in Client, Connect(c) \/ Send(c) \/ Receive(c) \/ HangUp(c)
    PROVE  IInv'
<1>1. CASE Connect(c)
  <2>1. /\ client[c].phase = "away" /\ client' = [client EXCEPT ![c].phase = "connected"]
        /\ backlog' = Append(backlog, c)
        /\ UNCHANGED <<sock, connections, events, writing>>
    BY <1>1 DEF Connect, server
  <2>2. Shapes' /\ Fds' = Fds /\ Phases' = [Phases EXCEPT ![c] = "connected"]
    BY <2>1 DEF IInv, Shapes, Fds, Phases
  <2>3. Fds[c] = NoFd /\ c \notin ToSet(backlog) /\ backlog \in Seq(Client) /\ Distinct(backlog)
    BY <2>1 DEF IInv, Consistent, Queue, Phases
  <2>4. Queue(Fds, Phases', backlog')
    <3>1. /\ backlog' \in Seq(Client) /\ Distinct(backlog')
          /\ ToSet(backlog') = ToSet(backlog) \cup {c}
      BY <2>1, <2>3, WithOneMore
    <3>2. \A d \in Client : Phases'[d] = IF d = c THEN "connected" ELSE Phases[d]
      BY <2>2 DEF Phases
    <3>3. ToSet(backlog) \subseteq Client
      BY <2>3 DEF ToSet
    <3> QED BY <2>3, <3>1, <3>2, <3>3 DEF IInv, Consistent, Queue
  <2>5. Batch(DOMAIN connections, backlog', events, writing)
    BY <2>1, <2>3, WithOneMore DEF IInv, Consistent, Batch
  <2> QED BY <2>1, <2>2, <2>4, <2>5 DEF IInv, Consistent
<1>2. CASE Send(c) \/ Receive(c)
  <2>1. UNCHANGED <<backlog, connections, events, writing>>
    BY <1>2 DEF Send, Receive, Deliver, server
  <2>2. Shapes' /\ Fds' = Fds /\ Phases' = Phases
    <3>1. /\ DOMAIN client' = Client /\ DOMAIN sock' = Client
          /\ \A d \in Client : /\ DOMAIN client'[d] = DOMAIN client[d] /\ client'[d].phase = client[d].phase
                             /\ DOMAIN sock'[d] = DOMAIN sock[d] /\ sock'[d].fd = sock[d].fd
      <4>1. CASE \E rest, script : Deliver(c, rest, script)
        BY <4>1 DEF Deliver, IInv, Shapes
      <4>2. CASE Receive(c)
        BY <4>2 DEF Receive, IInv, Shapes
      <4> QED BY <1>2, <4>1, <4>2 DEF Send
    <3> QED BY <3>1 DEF IInv, Shapes, Fds, Phases
  <2> QED BY <2>1, <2>2 DEF IInv, Consistent
<1>3. CASE HangUp(c)
  <2>1. /\ client[c].phase = "connected" /\ UNCHANGED <<sock, backlog, connections, events, writing>>
    BY <1>3 DEF HangUp, server
  <2>2. Shapes' /\ Fds' = Fds /\ Phases' = [Phases EXCEPT ![c] = "gone"]
    BY <1>3, <2>1 DEF HangUp, IInv, Shapes, Fds, Phases
  <2>3. Queue(Fds, Phases', backlog)
    <3>1. \A d \in Client : Phases'[d] = IF d = c THEN "gone" ELSE Phases[d]
      BY <2>2 DEF Phases
    <3>2. ToSet(backlog) \subseteq Client
      BY DEF IInv, Consistent, Queue, ToSet
    <3> QED BY <3>1, <3>2 DEF IInv, Consistent, Queue
  <2> QED BY <2>1, <2>2, <2>3 DEF IInv, Consistent
<1> QED BY <1>1, <1>2, <1>3

LEMMA WaitKeeps == IInv /\ Wait => IInv'
<1> SUFFICES ASSUME IInv, Wait PROVE IInv'
  OBVIOUS
<1> DEFINE ready == {fd \in {listen_fd} \cup DOMAIN connections : Readable(fd)}
<1>1. /\ events' \in SetToSeqs(ready) /\ writing = NoFd
      /\ UNCHANGED <<client, sock, backlog, connections, writing>>
  BY DEF Wait
<1>2. Shapes' /\ Fds' = Fds /\ Phases' = Phases
  BY <1>1 DEF IInv, Shapes, Fds, Phases
<1>3. ready \subseteq {listen_fd} \cup FD
  BY DEF IInv, Consistent, Table
<1>4. Cardinality(ready) \in Nat
  <2>1. IsFiniteSet({listen_fd} \cup FD)
    BY Descriptors, FS_Union, FS_Singleton
  <2>2. IsFiniteSet(ready)
    BY <1>3, <2>1, FS_Subset
  <2> QED BY <2>2, FS_CardinalityType
<1> DEFINE n == Cardinality(ready)
<1>5. events' \in [1 .. n -> ready] /\ Distinct(events')
  BY <1>1 DEF SetToSeqs, Distinct
<1>6. ToSet(events') \subseteq ready /\ events' \in Seq({listen_fd} \cup FD)
  <2> HIDE DEF ready
  <2> HIDE DEF n
  <2>1. n \in Nat
    BY <1>4 DEF n
  <2>2. events' \in Seq(ready)
    BY <1>5, <2>1
  <2>3. events' \in Seq({listen_fd} \cup FD)
    BY <1>3, <2>2
  <2>4. \A i \in DOMAIN events' : events'[i] \in ready
    BY <1>5
  <2> QED BY <2>3, <2>4 DEF ToSet
<1>7. listen_fd \in ready => backlog # <<>>
  <2>1. \A c \in Client : sock[c].fd # listen_fd
    BY Descriptors DEF IInv, Consistent, Table, Fds
  <2> QED BY <2>1 DEF Readable
<1>8. Batch(DOMAIN connections, backlog, events', writing)
  BY <1>1, <1>5, <1>6, <1>7 DEF Batch
<1> QED BY <1>1, <1>2, <1>8 DEF IInv, Consistent

\* The first event is taken off the list.
Taken ==
    /\ events # <<>> /\ writing = NoFd /\ events' = Tail(events)
    /\ Head(events) \in ToSet(events)
    /\ Head(events) \in {listen_fd} \cup DOMAIN connections
    /\ events' \in Seq({listen_fd} \cup FD) /\ Distinct(events')
    /\ ToSet(events') \subseteq ToSet(events) /\ Head(events) \notin ToSet(events')

LEMMA TakesFirst == IInv /\ NextEvent => Taken
BY WithoutFirst DEF IInv, Consistent, Batch, NextEvent, Taken

\* What happens when a client is given a descriptor.
LEMMA Accepts ==
    ASSUME IInv, Accept
    PROVE  \E c \in ToSet(backlog), fd \in FD \ DOMAIN connections :
              /\ sock' = [sock EXCEPT ![c].fd = fd]
              /\ connections' = [d \in DOMAIN connections \cup {fd} |->
                                    IF d = fd THEN Connection ELSE connections[d]]
              /\ c \in Client /\ Fds[c] = NoFd /\ Phases[c] # "away"
              /\ backlog' \in Seq(Client) /\ Distinct(backlog')
              /\ ToSet(backlog') \subseteq ToSet(backlog) /\ c \notin ToSet(backlog')
<1> DEFINE fd == CHOOSE n \in Free : \A m \in Free : n <= m
           c  == Head(backlog)
<1>1. Taken /\ Head(events) = listen_fd /\ Free # {}
  BY TakesFirst DEF Accept
<1>2. fd \in FD /\ fd \notin {sock[d].fd : d \in Client}
  <2>1. Free \subseteq Nat
    BY Descriptors DEF Free
  <2>2. \E n \in Free : \A m \in Free : n <= m
    BY <1>1, <2>1, Least
  <2>3. fd \in Free
    BY <2>2
  <2> QED BY <2>3 DEF Free
<1>3. /\ sock' = [sock EXCEPT ![c].fd = fd]
      /\ connections' = [d \in DOMAIN connections \cup {fd} |->
                            IF d = fd THEN Connection ELSE connections[d]]
      /\ backlog' = Tail(backlog)
  BY DEF Accept
<1> HIDE DEF fd
<1>4. backlog # <<>> /\ backlog \in Seq(Client) /\ Distinct(backlog)
  BY <1>1 DEF IInv, Consistent, Batch, Queue, Taken
<1>5. /\ c \in Client /\ c \in ToSet(backlog) /\ c \notin ToSet(backlog')
      /\ backlog' \in Seq(Client) /\ Distinct(backlog') /\ ToSet(backlog') \subseteq ToSet(backlog)
  BY <1>3, <1>4, WithoutFirst
<1> HIDE DEF c
<1>6. Fds[c] = NoFd /\ Phases[c] # "away"
  BY <1>5 DEF IInv, Consistent, Queue
<1>7. fd \notin DOMAIN connections
  BY <1>2 DEF IInv, Consistent, Table, Fds
<1> QED BY <1>2, <1>3, <1>5, <1>6, <1>7

LEMMA AcceptKeeps == IInv /\ Accept => IInv'
<1> SUFFICES ASSUME IInv, Accept PROVE IInv'
  OBVIOUS
<1>1. Taken
  BY TakesFirst DEF Accept
<1>2. PICK c \in ToSet(backlog), fd \in FD \ DOMAIN connections :
              /\ sock' = [sock EXCEPT ![c].fd = fd]
              /\ connections' = [d \in DOMAIN connections \cup {fd} |->
                                    IF d = fd THEN Connection ELSE connections[d]]
              /\ c \in Client /\ Fds[c] = NoFd /\ Phases[c] # "away"
              /\ backlog' \in Seq(Client) /\ Distinct(backlog')
              /\ ToSet(backlog') \subseteq ToSet(backlog) /\ c \notin ToSet(backlog')
  BY Accepts
<1>3. DOMAIN connections' = DOMAIN connections \cup {fd} /\ UNCHANGED <<client, writing>>
  BY <1>2 DEF Accept
<1>4. Shapes' /\ Fds' = [Fds EXCEPT ![c] = fd] /\ Phases' = Phases
  BY <1>2, <1>3 DEF IInv, Shapes, Fds, Phases
<1>5. Table(Fds', DOMAIN connections')
  <2>1. Table([Fds EXCEPT ![c] = fd], DOMAIN connections \cup {fd})
    BY <1>2, Opened DEF IInv, Consistent
  <2> QED BY <1>3, <1>4, <2>1
<1>6. Queue(Fds', Phases', backlog')
  <2>1. \A d \in Client : Fds'[d] = IF d = c THEN fd ELSE Fds[d]
    BY <1>4 DEF Fds
  <2>2. ToSet(backlog) \subseteq Client
    BY DEF IInv, Consistent, Queue, ToSet
  <2> QED BY <1>2, <1>4, <2>1, <2>2 DEF IInv, Consistent, Queue
<1>7. Batch(DOMAIN connections', backlog', events', writing')
  BY <1>1, <1>3, Descriptors DEF IInv, Consistent, Batch, Taken, Accept
<1> QED BY <1>4, <1>5, <1>6, <1>7 DEF IInv, Consistent

LEMMA RefuseKeeps == IInv /\ Refuse => IInv'
<1> SUFFICES ASSUME IInv, Refuse PROVE IInv'
  OBVIOUS
<1> DEFINE c == Head(backlog)
<1>1. Taken /\ Head(events) = listen_fd
  BY TakesFirst DEF Refuse
<1>2. /\ client' = [client EXCEPT ![c].phase = "refused"]
      /\ sock' = [sock EXCEPT ![c].inbox = <<>>]
      /\ backlog' = Tail(backlog) /\ UNCHANGED <<connections, writing>>
  BY DEF Refuse
<1>3. backlog # <<>>
  BY <1>1 DEF IInv, Consistent, Batch, Taken
<1>4. backlog \in Seq(Client) /\ Distinct(backlog)
  BY DEF IInv, Consistent, Queue
<1>5. /\ c \in Client
      /\ backlog' \in Seq(Client) /\ Distinct(backlog') /\ ToSet(backlog') \subseteq ToSet(backlog)
  BY <1>2, <1>3, <1>4, WithoutFirst
<1> HIDE DEF c
<1>6. Shapes' /\ Fds' = Fds
  BY <1>2, <1>5 DEF IInv, Shapes, Fds
<1>7. Phases' = [Phases EXCEPT ![c] = "refused"]
  BY <1>2, <1>5 DEF IInv, Shapes, Phases
<1>8. Queue(Fds', Phases', backlog')
  <2>1. \A d \in Client : Phases'[d] = IF d = c THEN "refused" ELSE Phases[d]
    BY <1>7 DEF Phases
  <2>2. ToSet(backlog) \subseteq Client
    BY <1>4 DEF ToSet
  <2> QED BY <1>5, <1>6, <2>1, <2>2 DEF IInv, Consistent, Queue
<1>9. Batch(DOMAIN connections', backlog', events', writing')
  BY <1>1, <1>2 DEF IInv, Consistent, Batch, Taken
<1> QED BY <1>2, <1>6, <1>8, <1>9 DEF IInv, Consistent

\* A connection that nothing waits for any more is closed.
LEMMA CloseKeeps ==
    ASSUME IInv, NEW fd \in DOMAIN connections, Close(fd), UNCHANGED <<client, backlog>>,
           writing' = NoFd,
           events' \in Seq({listen_fd} \cup FD), Distinct(events'),
           ToSet(events') \subseteq ToSet(events), fd \notin ToSet(events')
    PROVE  IInv'
<1> DEFINE c == ClientOf(fd)
<1>1. c \in Client /\ sock[c].fd = fd /\ Fds[c] = fd /\ fd \in FD
  BY Owner DEF IInv, Consistent, Table
<1>2. /\ sock' = [sock EXCEPT ![c] = [inbox |-> <<>>, outbox |-> @.outbox, fd |-> NoFd]]
      /\ DOMAIN connections' = DOMAIN connections \ {fd}
  BY DEF Close
<1> HIDE DEF c
<1>3. Shapes' /\ Fds' = [Fds EXCEPT ![c] = NoFd] /\ Phases' = Phases
  BY <1>1, <1>2 DEF IInv, Shapes, Fds, Phases
<1>4. Table(Fds', DOMAIN connections')
  <2>1. Table(Fds, DOMAIN connections) /\ Fds[c] \in DOMAIN connections
    BY <1>1 DEF IInv, Consistent
  <2>2. Table([Fds EXCEPT ![c] = NoFd], DOMAIN connections \ {Fds[c]})
    BY <1>1, <2>1, Closed
  <2> QED BY <1>1, <1>2, <1>3, <2>2
<1>5. Queue(Fds', Phases', backlog')
  <2>1. \A d \in Client : Fds'[d] = IF d = c THEN NoFd ELSE Fds[d]
    BY <1>3 DEF Fds
  <2>2. ToSet(backlog) \subseteq Client
    BY DEF IInv, Consistent, Queue, ToSet
  <2> QED BY <1>3, <2>1, <2>2 DEF IInv, Consistent, Queue
<1>6. Batch(DOMAIN connections', backlog', events', writing')
  BY <1>2 DEF IInv, Consistent, Batch
<1> QED BY <1>3, <1>4, <1>5, <1>6 DEF IInv, Consistent

LEMMA DisconnectKeeps == IInv /\ Disconnect => IInv'
<1> SUFFICES ASSUME IInv, Disconnect PROVE IInv'
  OBVIOUS
<1>1. Taken /\ Head(events) # listen_fd
  BY TakesFirst DEF Disconnect
<1>2. Close(Head(events)) /\ UNCHANGED <<client, backlog, writing>>
  BY DEF Disconnect, outside
<1>3. Head(events) \in DOMAIN connections
  BY <1>1 DEF Taken
<1> QED BY <1>1, <1>2, <1>3, CloseKeeps DEF Taken

LEMMA ReadKeeps == IInv /\ Read => IInv'
<1> SUFFICES ASSUME IInv, Read PROVE IInv'
  OBVIOUS
<1> DEFINE fd == Head(events)
           c  == ClientOf(fd)
<1>1. Taken /\ fd # listen_fd
  BY TakesFirst DEF Read
<1>2. fd \in DOMAIN connections
  BY <1>1 DEF Taken
<1>3. c \in Client
  BY <1>2, Owner DEF IInv, Consistent
<1>4. /\ sock' = [sock EXCEPT ![c].inbox = <<>>] /\ writing' = fd
      /\ DOMAIN connections' = DOMAIN connections /\ UNCHANGED <<client, backlog>>
  BY DEF Read, Respond, outside
<1> HIDE DEF c
<1>5. Shapes' /\ Fds' = Fds /\ Phases' = Phases
  BY <1>3, <1>4 DEF IInv, Shapes, Fds, Phases
<1>6. Batch(DOMAIN connections', backlog', events', writing')
  BY <1>1, <1>2, <1>4 DEF IInv, Consistent, Batch, Taken
<1> QED BY <1>4, <1>5, <1>6 DEF IInv, Consistent

LEMMA WriteKeeps == IInv /\ Write => IInv'
<1> SUFFICES ASSUME IInv, Write PROVE IInv'
  OBVIOUS
<1> DEFINE c == ClientOf(writing)
<1>1. writing \in DOMAIN connections
  BY DEF Write, IInv, Consistent, Batch
<1>2. c \in Client
  BY <1>1, Owner DEF IInv, Consistent
<1>3. PICK out : sock' = [sock EXCEPT ![c].outbox = out]
  BY DEF Write
<1>4. /\ DOMAIN connections' = DOMAIN connections /\ writing' = NoFd
      /\ UNCHANGED <<client, backlog, events>>
  BY DEF Write, outside
<1> HIDE DEF c
<1>5. Shapes' /\ Fds' = Fds /\ Phases' = Phases
  BY <1>2, <1>3, <1>4 DEF IInv, Shapes, Fds, Phases
<1>6. Batch(DOMAIN connections', backlog', events', writing')
  BY <1>4 DEF IInv, Consistent, Batch
<1> QED BY <1>4, <1>5, <1>6 DEF IInv, Consistent

LEMMA WriteFailsKeeps == IInv /\ WriteFails => IInv'
<1> SUFFICES ASSUME IInv, WriteFails PROVE IInv'
  OBVIOUS
<1>1. writing \in DOMAIN connections /\ writing \notin ToSet(events)
  BY DEF WriteFails, IInv, Consistent, Batch
<1>2. Close(writing) /\ writing' = NoFd /\ UNCHANGED <<client, backlog, events>>
  BY DEF WriteFails, outside
<1>3. events \in Seq({listen_fd} \cup FD) /\ Distinct(events)
  BY DEF IInv, Consistent, Batch
<1> QED BY <1>1, <1>2, <1>3, CloseKeeps

-----------------------------------------------------------------------------
(* The invariant, and what the runs check. *)

LEMMA InitIInv == Init => IInv
<1> SUFFICES ASSUME Init PROVE IInv
  OBVIOUS
<1>1. /\ client = [c \in Client |->
             [phase |-> "away", script |-> Script[c], unsent |-> <<>>, got |-> <<>>]]
      /\ sock = [c \in Client |-> [inbox |-> <<>>, outbox |-> <<>>, fd |-> NoFd]]
      /\ backlog = <<>> /\ events = <<>> /\ connections = <<>> /\ writing = NoFd
  BY DEF Init
<1>2. Shapes
  BY <1>1 DEF Shapes
<1>3. Fds = [c \in Client |-> NoFd] /\ DOMAIN connections = {}
  BY <1>1 DEF Fds
<1>4. Table(Fds, DOMAIN connections)
  BY <1>3, Descriptors DEF Table
<1>5. Queue(Fds, Phases, backlog)
  BY <1>1, <1>3 DEF Queue, Distinct, ToSet
<1>6. Batch(DOMAIN connections, backlog, events, writing)
  BY <1>1 DEF Batch, Distinct, ToSet
<1> QED BY <1>2, <1>4, <1>5, <1>6 DEF IInv, Consistent

LEMMA StutterKeeps == IInv /\ UNCHANGED vars => IInv'
<1> SUFFICES ASSUME IInv, UNCHANGED vars PROVE IInv'
  OBVIOUS
<1>1. UNCHANGED <<client, sock, connections, backlog, events, writing>>
  BY DEF vars
<1> QED BY <1>1 DEF IInv, Shapes, Fds, Phases

LEMMA AcceptFailsKeeps == IInv /\ AcceptFails => IInv'
<1> SUFFICES ASSUME IInv, AcceptFails PROVE IInv'
  OBVIOUS
<1>1. Taken /\ UNCHANGED <<client, sock, backlog, connections, writing>>
  BY TakesFirst DEF AcceptFails
<1>2. Shapes' /\ Fds' = Fds /\ Phases' = Phases
  BY <1>1 DEF IInv, Shapes, Fds, Phases
<1>3. Batch(DOMAIN connections, backlog, events', writing)
  BY <1>1 DEF IInv, Consistent, Batch, Taken
<1> QED BY <1>1, <1>2, <1>3 DEF IInv, Consistent

(* In every reachable state the clients' descriptors, the table, the backlog
   and the events still to handle fit together.  *)
THEOREM Invariance == Spec => []IInv
<1>1. IInv /\ [Next]_vars => IInv'
  <2> SUFFICES ASSUME IInv, [Next]_vars PROVE IInv'
    OBVIOUS
  <2>1. ASSUME NEW c \in Client, Connect(c) \/ Send(c) \/ Receive(c) \/ HangUp(c) PROVE IInv'
    BY <2>1, ClientSteps
  <2>2. CASE Server
    BY <2>2, WaitKeeps, AcceptKeeps, RefuseKeeps, AcceptFailsKeeps, DisconnectKeeps,
       ReadKeeps, WriteKeeps, WriteFailsKeeps DEF Server
  <2> QED BY <2>1, <2>2, StutterKeeps DEF Next
<1> QED BY InitIInv, <1>1, PTL DEF Spec

(* connections_ holds exactly the descriptors that are open, and no two
   clients share one (accept_client, readFromSocket's and writeToSocket's
   failure branches in Server::run).  *)
THEOREM TableMatches == Spec => []TypeOK
<1>1. IInv => TypeOK
  <2> SUFFICES ASSUME IInv PROVE TypeOK
    OBVIOUS
  <2>1. Table(Fds, DOMAIN connections) /\ \A c \in Client : Fds[c] = sock[c].fd
    BY DEF IInv, Consistent, Fds
  <2>2. DOMAIN connections = {sock[c].fd : c \in {x \in Client : Open(x)}}
    BY <2>1, Descriptors DEF Table, Open
  <2> QED BY <2>1, <2>2 DEF TypeOK, Table, Open
<1> QED BY <1>1, Invariance, PTL

(* Whatever is closed while epoll_wait's events are handled, an event that is
   still to come is of a connection that exists, and of one whose descriptor
   has not changed hands.  *)
THEOREM EventsLive == Spec => []EventsAreLive
<1>1. IInv => EventsAreLive
  BY DEF IInv, Consistent, Batch, Distinct, ToSet, EventsAreLive
<1> QED BY <1>1, Invariance, PTL

-----------------------------------------------------------------------------
(* What a command returns is a reply that can be sent. *)

\* Nobody lists more keys than there are.
Sane(R) ==
    /\ IsFiniteSet(DOMAIN R.data)
    /\ R.reply.type = "array" => IsFiniteSet(R.reply.keys)

LEMMA ExecuteIsSane ==
    ASSUME NEW db, IsFiniteSet(DOMAIN db), NEW args
    PROVE  Sane(execute(db, args))
<1>1. /\ \A e, r : Reply(e, r).data = e /\ Reply(e, r).reply = r
      /\ Error.type = "error" /\ \A v : Bulk(v).type = "bulk"
      /\ \A n : Integer(n).type = "integer" /\ \A t : SimpleString(t).type = "simple"
      /\ \A K : Keys(K).keys = K
  BY DEF Reply, Error, Bulk, Integer, SimpleString, Keys
<1>2. \A r : r.type # "array" => Sane(Reply(db, r))
  BY <1>1 DEF Sane
<1>3. /\ Sane(Reply(db, Error)) /\ \A v : Sane(Reply(db, Bulk(v)))
      /\ \A n : Sane(Reply(db, Integer(n))) /\ \A t : Sane(Reply(db, SimpleString(t)))
  BY <1>1, <1>2
<1>4. \A k, x : IsFiniteSet(DOMAIN Assign(db, k, x))
  <2>1. \A k, x : DOMAIN Assign(db, k, x) = DOMAIN db \cup {k}
    BY DEF Assign
  <2>2. \A k : IsFiniteSet(DOMAIN db \cup {k})
    BY FS_AddElement
  <2> QED BY <2>1, <2>2
<1>5. Sane(handlePing(db, args))
  BY <1>3 DEF handlePing
<1>6. Sane(handleSet(db, args))
  BY <1>1, <1>3, <1>4 DEF handleSet, set, Sane
<1>7. Sane(handleGet(db, args))
  BY <1>3 DEF handleGet
<1>8. Sane(handleHSet(db, args))
  BY <1>1, <1>3, <1>4 DEF handleHSet, hset, Sane
<1>9. Sane(handleHGet(db, args))
  BY <1>3 DEF handleHGet
<1>10. Sane(handleDel(db, args))
  <2>1. \A names : DOMAIN del(db, names) \subseteq DOMAIN db
    BY DEF del
  <2>2. \A names : IsFiniteSet(DOMAIN del(db, names))
    BY <2>1, FS_Subset
  <2> QED BY <1>1, <1>3, <2>2 DEF handleDel, Sane
<1>11. Sane(handleExists(db, args))
  BY <1>3, Zenon DEF handleExists
<1>12. Sane(handleKeys(db, args))
  <2>1. \A p : IsFiniteSet(getAllKeys(db, p))
    BY FS_EmptySet DEF getAllKeys
  <2> QED BY <1>1, <1>3, <2>1 DEF handleKeys, Sane
<1>13. Sane(handleSave(db, args))
  BY <1>3 DEF handleSave
<1> HIDE DEF Sane
<1>14. CASE args = <<>>
  BY <1>3, <1>14 DEF execute
<1>15. CASE args # <<>>
  BY <1>3, <1>5, <1>6, <1>7, <1>8, <1>9, <1>10, <1>11, <1>12, <1>13, <1>15, Zenon DEF execute
<1> QED BY <1>14, <1>15

LEMMA Sendable ==
    ASSUME NEW R, Sane(R)
    PROVE  IsSeq(Elements(R.reply))
<1> DEFINE r == R.reply
           n == Cardinality(r.keys)
           items == [i \in 1 .. n |-> Bulk(SetToSeq(r.keys)[i])]
<1>0. \A x : IsSeq(<<x>>)
  <2> TAKE x
  <2>1. <<x>> \in Seq({x})
    OBVIOUS
  <2> QED BY <2>1, SeqIsSeq
<1>1. CASE r.type # "array"
  BY <1>0, <1>1 DEF Elements
<1>2. CASE r.type = "array"
  <2>1. n \in Nat
    BY <1>2, FS_CardinalityType DEF Sane
  <2> HIDE DEF n
  <2>2. items \in Seq({items[i] : i \in 1 .. n})
    <3>1. items \in [1 .. n -> {items[i] : i \in 1 .. n}]
      OBVIOUS
    <3> HIDE DEF items
    <3> QED BY <2>1, <3>1
  <2>3. IsSeq(items)
    <3> HIDE DEF items
    <3> QED BY <2>2, SeqIsSeq
  <2>4. Elements(r) = <<Integer(n)>> \o items
    BY <1>2 DEF Elements, n
  <2> HIDE DEF items
  <2> QED BY <1>0, <2>3, <2>4, Concats
<1> QED BY <1>1, <1>2

-----------------------------------------------------------------------------
(* The stream of one client: received, in the kernel, still to be written. *)

Flattened(rs) == FlattenSeq([i \in DOMAIN rs |-> Elements(rs[i])])

Sound(got, out, w, rs) ==
    /\ IsSeq(got) /\ IsSeq(out) /\ IsSeq(w)
    /\ Len(out) <= SockRoom
    /\ IsSeq(rs) /\ \A i \in DOMAIN rs : IsSeq(Elements(rs[i]))
    /\ got \o out \o w = Flattened(rs)

LEMMA FlattenedAppend ==
    ASSUME NEW rs, IsSeq(rs), \A i \in DOMAIN rs : IsSeq(Elements(rs[i])),
           NEW r, IsSeq(Elements(r))
    PROVE  /\ IsSeq(Append(rs, r))
           /\ \A i \in DOMAIN Append(rs, r) : IsSeq(Elements(Append(rs, r)[i]))
           /\ Flattened(Append(rs, r)) = Flattened(rs) \o Elements(r)
<1> DEFINE n == Len(rs)
           t == Append(rs, r)
           E(x) == Elements(x)
           S == UNION ({ToSet(E(rs[i])) : i \in DOMAIN rs} \cup {ToSet(E(r))})
           es == [i \in DOMAIN rs |-> E(rs[i])]
<1>1. rs \in Seq(ToSet(rs) \cup {r})
  BY IsSeqOver
<1>2. /\ t \in Seq(ToSet(rs) \cup {r}) /\ Len(t) = n + 1 /\ t[n + 1] = r
      /\ \A i \in 1 .. n : t[i] = rs[i]
      /\ n \in Nat /\ DOMAIN rs = 1 .. n
  BY <1>1, AppendProperties
<1> HIDE DEF t
<1>3. DOMAIN t = 1 .. n + 1
  BY <1>2
<1>4. IsSeq(t)
  BY <1>2, SeqIsSeq
<1> HIDE DEF n
<1>5. \A i \in DOMAIN t : IsSeq(E(t[i]))
  <2> HIDE DEF E
  <2> SUFFICES ASSUME NEW i \in 1 .. n + 1 PROVE IsSeq(E(t[i]))
    BY <1>3
  <2>1. CASE i = n + 1
    BY <1>2, <2>1 DEF E
  <2>2. CASE i # n + 1
    <3>1. i \in 1 .. n
      BY <1>2, <2>2
    <3> QED BY <1>2, <3>1 DEF E
  <2> QED BY <2>1, <2>2
<1>6. \A i \in 1 .. n : E(rs[i]) \in Seq(S)
  <2> SUFFICES ASSUME NEW i \in 1 .. n PROVE E(rs[i]) \in Seq(S)
    OBVIOUS
  <2>1. IsSeq(E(rs[i])) /\ ToSet(E(rs[i])) \subseteq S
    BY <1>2
  <2> HIDE DEF S, E
  <2> QED BY <2>1, IsSeqOver
<1>7. E(r) \in Seq(S)
  <2>1. IsSeq(E(r)) /\ ToSet(E(r)) \subseteq S
    OBVIOUS
  <2> HIDE DEF S, E
  <2> QED BY <2>1, IsSeqOver
<1> HIDE DEF S, E
<1>8. es \in Seq(Seq(S)) /\ Len(es) = n
  <2>1. es \in [1 .. n -> Seq(S)]
    BY <1>2, <1>6
  <2> HIDE DEF es
  <2> QED BY <1>2, <2>1
<1>9. [i \in DOMAIN t |-> E(t[i])] = Append(es, E(r))
  <2> DEFINE a == Append(es, E(r))
  <2>1. /\ a \in Seq(Seq(S)) /\ Len(a) = n + 1 /\ a[n + 1] = E(r)
        /\ \A i \in 1 .. n : a[i] = es[i]
    <3> HIDE DEF es
    <3> QED BY <1>7, <1>8, AppendProperties
  <2>2. \A i \in 1 .. n : es[i] = E(rs[i])
    BY <1>2
  <2> HIDE DEF es, a
  <2>3. DOMAIN a = 1 .. n + 1 /\ a = [i \in 1 .. n + 1 |-> a[i]]
    BY <1>2, <2>1
  <2>4. \A i \in 1 .. n + 1 : a[i] = E(t[i])
    <3> SUFFICES ASSUME NEW i \in 1 .. n + 1 PROVE a[i] = E(t[i])
      OBVIOUS
    <3>1. CASE i = n + 1
      BY <1>2, <2>1, <3>1
    <3>2. CASE i # n + 1
      <4>1. i \in 1 .. n
        BY <1>2, <3>2
      <4> QED BY <1>2, <2>1, <2>2, <4>1
    <3> QED BY <3>1, <3>2
  <2> QED BY <1>3, <2>3, <2>4 DEF a
<1>10. FlattenSeq(Append(es, E(r))) = FlattenSeq(es) \o E(r)
  <2> HIDE DEF es
  <2> QED BY <1>7, <1>8, FlattenAppend
<1>11. Flattened(t) = Flattened(rs) \o E(r)
  BY <1>9, <1>10 DEF Flattened, E
<1> QED BY <1>4, <1>5, <1>11 DEF t, E

(* Nothing has happened yet. *)
LEMMA SoundEmpty == Sound(<<>>, <<>>, <<>>, <<>>)
<1>1. IsSeq(<<>>) /\ DOMAIN <<>> = {} /\ Len(<<>>) = 0 /\ <<>> \o <<>> = <<>>
  <2>1. <<>> \in Seq({})
    OBVIOUS
  <2>2. IsSeq(<<>>) /\ <<>> \o <<>> = <<>>
    BY <2>1, SeqIsSeq, ConcatEmptySeq
  <2> QED BY <2>2
<1>2. [i \in DOMAIN <<>> |-> Elements(<<>>[i])] = <<>>
  OBVIOUS
<1>3. FlattenSeq(<<>>) = <<>>
  BY <1>1 DEF FlattenSeq
<1>4. 0 <= SockRoom
  BY EventLoopAssumption
<1> QED BY <1>1, <1>2, <1>3, <1>4 DEF Sound, Flattened

(* One element received, *)
LEMMA SoundReceive ==
    ASSUME NEW got, NEW out, NEW w, NEW rs, Sound(got, out, w, rs), out # <<>>
    PROVE  Sound(Append(got, Head(out)), Tail(out), w, rs)
<1> DEFINE S == ToSet(got) \cup ToSet(out)
           g == Append(got, Head(out))
           o == Tail(out)
<1>1. got \in Seq(S) /\ out \in Seq(S)
  BY IsSeqOver DEF Sound
<1> HIDE DEF S
<1>2. /\ Head(out) \in S /\ o \in Seq(S) /\ Len(o) = Len(out) - 1
      /\ <<Head(out)>> \in Seq(S)
  BY <1>1, HeadTailProperties
<1>3. g \in Seq(S) /\ g = got \o <<Head(out)>>
  BY <1>1, <1>2, AppendProperties, AppendIsConcat
<1>4. out = <<Head(out)>> \o o
  BY <1>1
<1> HIDE DEF g, o
<1>5. g \o o = got \o out
  <2> DEFINE h == <<Head(out)>>
  <2>1. got \in Seq(S) /\ h \in Seq(S) /\ o \in Seq(S)
    BY <1>1, <1>2
  <2> HIDE DEF h
  <2>2. (got \o h) \o o = got \o (h \o o)
    BY <2>1, ConcatAssociative, SMTT(30)
  <2> QED BY <1>3, <1>4, <2>2 DEF h
<1>6. IsSeq(g) /\ IsSeq(o)
  BY <1>2, <1>3, SeqIsSeq
<1>7. Len(o) <= SockRoom
  BY <1>1, <1>2, EventLoopAssumption DEF Sound
<1> QED BY <1>5, <1>6, <1>7 DEF Sound, g, o

(* one reply queued, *)
LEMMA SoundRespond ==
    ASSUME NEW got, NEW out, NEW w, NEW rs, Sound(got, out, w, rs),
           NEW r, IsSeq(Elements(r))
    PROVE  Sound(got, out, w \o Elements(r), Append(rs, r))
<1> DEFINE e == Elements(r)
<1>1. IsSeq(e)
  OBVIOUS
<1>2. IsSeq(w \o e) /\ IsSeq(got \o out)
  BY <1>1, Concats DEF Sound
<1>3. got \o out \o (w \o e) = (got \o out \o w) \o e
  <2> DEFINE p == got \o out
  <2>1. IsSeq(p) /\ IsSeq(w)
    BY <1>2 DEF Sound
  <2> HIDE DEF p, e
  <2>2. (p \o w) \o e = p \o (w \o e)
    BY <1>1, <2>1, Regroup, SMTT(30)
  <2> QED BY <2>2 DEF p
<1>4. /\ IsSeq(Append(rs, r))
      /\ \A i \in DOMAIN Append(rs, r) : IsSeq(Elements(Append(rs, r)[i]))
      /\ Flattened(Append(rs, r)) = Flattened(rs) \o e
  BY FlattenedAppend DEF Sound
<1> QED BY <1>2, <1>3, <1>4 DEF Sound

(* as much as there is room for written.  *)
LEMMA SoundWrite ==
    ASSUME NEW got, NEW out, NEW w, NEW rs, Sound(got, out, w, rs),
           NEW n, n = LesserOf(SockRoom - Len(out), Len(w))
    PROVE  Sound(got, out \o SubSeq(w, 1, n), SubSeq(w, n + 1, Len(w)), rs)
<1> DEFINE S == ToSet(got) \cup ToSet(out) \cup ToSet(w)
           a == SubSeq(w, 1, n)
           b == SubSeq(w, n + 1, Len(w))
<1>1. got \in Seq(S) /\ out \in Seq(S) /\ w \in Seq(S)
  BY IsSeqOver DEF Sound
<1> HIDE DEF S
<1>2. n \in 0 .. Len(w) /\ n <= SockRoom - Len(out) /\ Len(w) \in Nat
  BY <1>1, EventLoopAssumption DEF LesserOf, Sound
<1>3. a \in Seq(S) /\ Len(a) = n
  BY <1>1, <1>2, SubSeqProperties
<1>4. b \in Seq(S)
  BY <1>1, <1>2, SubSeqProperties
<1>5. a \o b = w
  <2>1. 1 \in 1 .. Len(w) + 1 /\ n \in 1 - 1 .. Len(w) /\ Len(w) \in n .. Len(w)
    BY <1>2
  <2>2. a \o b = SubSeq(w, 1, Len(w))
    BY <1>1, <2>1, ConcatAdjacentSubSeq
  <2> QED BY <1>1, <2>2, SubSeqFull
<1> HIDE DEF a, b
<1>6. out \o a \in Seq(S) /\ Len(out \o a) = Len(out) + n /\ got \o out \in Seq(S)
  BY <1>1, <1>3, ConcatProperties
<1>7. got \o (out \o a) \o b = got \o out \o w
  <2> DEFINE p == got \o out
  <2>0. IsSeq(got) /\ IsSeq(out) /\ IsSeq(a) /\ IsSeq(b) /\ IsSeq(p)
    BY <1>1, <1>3, <1>4, <1>6, SeqIsSeq
  <2>1. (got \o out) \o a = got \o (out \o a)
    BY <2>0, Regroup, SMTT(30)
  <2> HIDE DEF p
  <2>3. (p \o a) \o b = p \o (a \o b)
    BY <2>0, Regroup, SMTT(30)
  <2> QED BY <1>5, <2>1, <2>3 DEF p
<1>8. Len(out \o a) <= SockRoom
  BY <1>1, <1>2, <1>6, EventLoopAssumption
<1>9. IsSeq(out \o a) /\ IsSeq(b)
  BY <1>4, <1>6, SeqIsSeq
<1> QED BY <1>7, <1>8, <1>9 DEF Sound, a, b

-----------------------------------------------------------------------------
(* The streams of the clients. *)

\* What the connection of c has still to write.
Unwritten(c) == IF Open(c) THEN connections[sock[c].fd].wbuf ELSE <<>>

StreamOf(c) ==
    /\ client[c].phase = "away" =>
          client[c].got = <<>> /\ sock[c].outbox = <<>> /\ replies[c] = <<>>
    /\ client[c].phase = "connected" =>
          Sound(client[c].got, sock[c].outbox, Unwritten(c), replies[c])

\* The records have their buffers, and there are only so many keys.
Buffers ==
    /\ DOMAIN replies = Client
    /\ \A c \in Client : "got" \in DOMAIN client[c] /\ "outbox" \in DOMAIN sock[c]
    /\ \A fd \in DOMAIN connections : "wbuf" \in DOMAIN connections[fd]
    /\ IsFiniteSet(DOMAIN data)

Streams == Buffers /\ \A c \in Client : StreamOf(c)

\* Nothing happens to the stream of c.
Untouched(c) ==
    /\ client'[c].phase = client[c].phase /\ client'[c].got = client[c].got
    /\ sock'[c].outbox = sock[c].outbox
    /\ Unwritten(c)' = Unwritten(c)
    /\ replies'[c] = replies[c]

LEMMA UntouchedKeeps ==
    ASSUME NEW c \in Client, StreamOf(c), Untouched(c)
    PROVE  StreamOf(c)'
BY DEF StreamOf, Untouched

\* Only the connection on fd is changed, or removed, and c is not on it.
LEMMA Elsewhere ==
    ASSUME IInv, NEW c \in Client, NEW fd, sock[c].fd # fd,
           sock'[c].fd = sock[c].fd,
           \A d \in DOMAIN connections : d # fd => connections'[d] = connections[d]
    PROVE  Unwritten(c)' = Unwritten(c)
<1>1. Open(c) => sock[c].fd \in DOMAIN connections
  BY DEF Open, IInv, Consistent, Table, Fds
<1>2. Open(c)' <=> Open(c)
  BY DEF Open
<1> QED BY <1>1, <1>2 DEF Unwritten

LEMMA SameConnections ==
    ASSUME NEW c \in Client, sock'[c].fd = sock[c].fd, connections' = connections
    PROVE  Unwritten(c)' = Unwritten(c)
BY DEF Unwritten, Open

LEMMA ConnectStreams ==
    ASSUME IInv, Streams, NEW c \in Client, Connect(c)
    PROVE  Streams'
<1>1. /\ client[c].phase = "away" /\ client' = [client EXCEPT ![c].phase = "connected"]
      /\ UNCHANGED <<sock, connections, data, replies>>
  BY DEF Connect, server
<1>2. DOMAIN client = Client /\ \A d \in Client : {"phase", "got"} \subseteq DOMAIN client[d]
  BY DEF IInv, Shapes, Streams, Buffers
<1>3. Buffers'
  BY <1>1, <1>2 DEF Streams, Buffers
<1>4. ASSUME NEW d \in Client, d # c PROVE StreamOf(d)'
  <2>1. Untouched(d)
    BY <1>1, <1>2, <1>4, SameConnections DEF Untouched
  <2> QED BY <2>1, UntouchedKeeps DEF Streams
<1>5. StreamOf(c)'
  <2>1. Phases[c] = "away" /\ Fds[c] = NoFd /\ sock[c].fd = NoFd
    BY <1>1 DEF IInv, Consistent, Queue, Phases, Fds
  <2>2. Unwritten(c)' = <<>>
    BY <1>1, <2>1 DEF Unwritten, Open
  <2>3. client'[c].phase = "connected" /\ client'[c].got = client[c].got
    BY <1>1, <1>2
  <2>4. client[c].got = <<>> /\ sock'[c].outbox = <<>> /\ replies'[c] = <<>>
    BY <1>1 DEF Streams, StreamOf
  <2> QED BY <2>2, <2>3, <2>4, SoundEmpty DEF StreamOf
<1> QED BY <1>3, <1>4, <1>5 DEF Streams

LEMMA SendStreams ==
    ASSUME IInv, Streams, NEW c \in Client, Send(c)
    PROVE  Streams'
<1>1. PICK rest, script : Deliver(c, rest, script)
  BY DEF Send
<1>2. /\ client' = [client EXCEPT ![c].unsent = Tail(rest), ![c].script = script]
      /\ sock' = [sock EXCEPT ![c].inbox = Append(@, Head(rest))]
      /\ UNCHANGED <<connections, data, replies>>
  BY <1>1 DEF Deliver, server
<1>3. /\ DOMAIN client = Client /\ DOMAIN sock = Client
      /\ \A d \in Client : {"phase", "got"} \subseteq DOMAIN client[d]
      /\ \A d \in Client : {"fd", "outbox"} \subseteq DOMAIN sock[d]
  BY DEF IInv, Shapes, Streams, Buffers
<1>4. Buffers'
  BY <1>2, <1>3 DEF Streams, Buffers
<1>5. ASSUME NEW d \in Client PROVE StreamOf(d)'
  <2>1. /\ client'[d].phase = client[d].phase /\ client'[d].got = client[d].got
    BY <1>2, <1>3
  <2>2. sock'[d].outbox = sock[d].outbox /\ sock'[d].fd = sock[d].fd
    BY <1>2, <1>3
  <2>3. Untouched(d)
    BY <1>2, <2>1, <2>2, SameConnections DEF Untouched
  <2> QED BY <2>3, UntouchedKeeps DEF Streams
<1> QED BY <1>4, <1>5 DEF Streams

LEMMA ReceiveStreams ==
    ASSUME IInv, Streams, NEW c \in Client, Receive(c)
    PROVE  Streams'
<1>1. /\ client[c].phase = "connected" /\ sock[c].outbox # <<>>
      /\ client' = [client EXCEPT ![c].got = Append(@, Head(sock[c].outbox))]
      /\ sock' = [sock EXCEPT ![c].outbox = Tail(@)]
      /\ UNCHANGED <<connections, data, replies>>
  BY DEF Receive, server
<1>2. /\ DOMAIN client = Client /\ DOMAIN sock = Client
      /\ \A d \in Client : {"phase", "got"} \subseteq DOMAIN client[d]
      /\ \A d \in Client : {"fd", "outbox"} \subseteq DOMAIN sock[d]
  BY DEF IInv, Shapes, Streams, Buffers
<1>3. Buffers'
  BY <1>1, <1>2 DEF Streams, Buffers
<1>4. ASSUME NEW d \in Client, d # c PROVE StreamOf(d)'
  <2>1. Untouched(d)
    BY <1>1, <1>2, <1>4, SameConnections DEF Untouched
  <2> QED BY <2>1, UntouchedKeeps DEF Streams
<1>5. StreamOf(c)'
  <2>1. client'[c].phase = "connected" /\ client'[c].got = Append(client[c].got, Head(sock[c].outbox))
    BY <1>1, <1>2
  <2>2. sock'[c].outbox = Tail(sock[c].outbox) /\ sock'[c].fd = sock[c].fd
    BY <1>1, <1>2
  <2>3. Unwritten(c)' = Unwritten(c)
    BY <1>1, <2>2, SameConnections
  <2>4. Sound(client[c].got, sock[c].outbox, Unwritten(c), replies[c])
    BY <1>1 DEF Streams, StreamOf
  <2>5. Sound(Append(client[c].got, Head(sock[c].outbox)), Tail(sock[c].outbox), Unwritten(c), replies[c])
    BY <1>1, <2>4, SoundReceive
  <2> QED BY <1>1, <2>1, <2>2, <2>3, <2>5 DEF StreamOf
<1> QED BY <1>3, <1>4, <1>5 DEF Streams

LEMMA HangUpStreams ==
    ASSUME IInv, Streams, NEW c \in Client, HangUp(c)
    PROVE  Streams'
<1>1. /\ client' = [client EXCEPT ![c].phase = "gone", ![c].script = <<>>, ![c].unsent = <<>>]
      /\ UNCHANGED <<sock, connections, data, replies>>
  BY DEF HangUp, server
<1>2. DOMAIN client = Client /\ \A d \in Client : {"phase", "got"} \subseteq DOMAIN client[d]
  BY DEF IInv, Shapes, Streams, Buffers
<1>3. Buffers'
  BY <1>1, <1>2 DEF Streams, Buffers
<1>4. ASSUME NEW d \in Client, d # c PROVE StreamOf(d)'
  <2>1. Untouched(d)
    BY <1>1, <1>2, <1>4, SameConnections DEF Untouched
  <2> QED BY <2>1, UntouchedKeeps DEF Streams
<1>5. StreamOf(c)'
  <2>1. client'[c].phase = "gone"
    BY <1>1, <1>2
  <2> QED BY <2>1 DEF StreamOf
<1> QED BY <1>3, <1>4, <1>5 DEF Streams

LEMMA AcceptStreams == ASSUME IInv, Streams, Accept PROVE Streams'
<1>1. PICK c \in ToSet(backlog), fd \in FD \ DOMAIN connections :
              /\ sock' = [sock EXCEPT ![c].fd = fd]
              /\ connections' = [d \in DOMAIN connections \cup {fd} |->
                                    IF d = fd THEN Connection ELSE connections[d]]
              /\ c \in Client /\ Fds[c] = NoFd /\ Phases[c] # "away"
  BY Accepts
<1>2. UNCHANGED <<client, data, replies>>
  BY DEF Accept
<1>3. DOMAIN sock = Client /\ \A d \in Client : {"fd", "outbox"} \subseteq DOMAIN sock[d]
  BY DEF IInv, Shapes, Streams, Buffers
<1>4. fd # NoFd /\ Connection.wbuf = <<>> /\ "wbuf" \in DOMAIN Connection
  BY Descriptors DEF Connection
<1>5. Buffers'
  <2>1. \A d \in DOMAIN connections' : "wbuf" \in DOMAIN connections'[d]
    BY <1>1, <1>4 DEF Streams, Buffers
  <2>2. \A d \in Client : "outbox" \in DOMAIN sock'[d]
    BY <1>1, <1>3
  <2> QED BY <1>2, <2>1, <2>2 DEF Streams, Buffers
<1>6. ASSUME NEW d \in Client PROVE StreamOf(d)'
  <2>1. sock'[d].outbox = sock[d].outbox
    BY <1>1, <1>3
  <2>2. Unwritten(d)' = Unwritten(d)
    <3>1. CASE d = c
      <4>1. sock[d].fd = NoFd /\ sock'[d].fd = fd
        BY <1>1, <1>3, <3>1 DEF Fds
      <4>2. connections'[fd] = Connection
        BY <1>1
      <4> QED BY <1>4, <4>1, <4>2 DEF Unwritten, Open
    <3>2. CASE d # c
      <4>1. sock'[d].fd = sock[d].fd
        BY <1>1, <1>3, <3>2
      <4>2. sock[d].fd # fd
        BY <1>1 DEF IInv, Consistent, Table, Fds
      <4>3. \A x \in DOMAIN connections : x # fd => connections'[x] = connections[x]
        BY <1>1
      <4> QED BY <4>1, <4>2, <4>3, Elsewhere
    <3> QED BY <3>1, <3>2
  <2>3. Untouched(d)
    BY <1>2, <2>1, <2>2 DEF Untouched
  <2> QED BY <2>3, UntouchedKeeps DEF Streams
<1> QED BY <1>5, <1>6 DEF Streams

LEMMA RefuseStreams == ASSUME IInv, Streams, Refuse PROVE Streams'
<1> DEFINE c == Head(backlog)
<1>1. /\ client' = [client EXCEPT ![c].phase = "refused"]
      /\ sock' = [sock EXCEPT ![c].inbox = <<>>]
      /\ UNCHANGED <<connections, data, replies>>
  BY DEF Refuse
<1>2. c \in Client
  <2>1. Taken /\ Head(events) = listen_fd
    BY TakesFirst DEF Refuse
  <2>2. backlog # <<>> /\ backlog \in Seq(Client) /\ Distinct(backlog)
    BY <2>1 DEF IInv, Consistent, Batch, Queue, Taken
  <2> QED BY <2>2, WithoutFirst
<1> HIDE DEF c
<1>3. /\ DOMAIN client = Client /\ DOMAIN sock = Client
      /\ \A d \in Client : {"phase", "got"} \subseteq DOMAIN client[d]
      /\ \A d \in Client : {"fd", "outbox"} \subseteq DOMAIN sock[d]
  BY DEF IInv, Shapes, Streams, Buffers
<1>4. Buffers'
  BY <1>1, <1>3 DEF Streams, Buffers
<1>5. ASSUME NEW d \in Client PROVE StreamOf(d)'
  <2>1. CASE d = c
    <3>1. client'[d].phase = "refused"
      BY <1>1, <1>3, <2>1
    <3> QED BY <3>1 DEF StreamOf
  <2>2. CASE d # c
    <3>1. Untouched(d)
      BY <1>1, <1>3, <2>2, SameConnections DEF Untouched
    <3> QED BY <3>1, UntouchedKeeps DEF Streams
  <2> QED BY <2>1, <2>2
<1> QED BY <1>4, <1>5 DEF Streams

\* The stream of a client that has gone is nobody's concern.
LEMMA CloseStreams ==
    ASSUME IInv, Streams, NEW fd \in DOMAIN connections, Close(fd),
           client[ClientOf(fd)].phase = "gone", UNCHANGED <<client, data, replies>>
    PROVE  Streams'
<1> DEFINE c == ClientOf(fd)
<1>1. c \in Client /\ sock[c].fd = fd /\ Fds[c] = fd /\ fd \in FD
  BY Owner DEF IInv, Consistent, Table
<1>2. /\ sock' = [sock EXCEPT ![c] = [inbox |-> <<>>, outbox |-> @.outbox, fd |-> NoFd]]
      /\ connections' = [d \in DOMAIN connections \ {fd} |-> connections[d]]
  BY DEF Close
<1>3. client[c].phase = "gone"
  OBVIOUS
<1> HIDE DEF c
<1>4. DOMAIN sock = Client /\ \A d \in Client : {"fd", "outbox"} \subseteq DOMAIN sock[d]
  BY DEF IInv, Shapes, Streams, Buffers
<1>5. Buffers'
  BY <1>2, <1>4 DEF Streams, Buffers
<1>6. ASSUME NEW d \in Client PROVE StreamOf(d)'
  <2>1. CASE d = c
    BY <1>3, <2>1 DEF StreamOf
  <2>2. CASE d # c
    <3>1. sock'[d] = sock[d]
      BY <1>2, <1>4, <2>2
    <3>2. sock[d].fd # fd
      <4>1. Fds[d] # Fds[c] /\ Fds[d] = sock[d].fd
        BY <1>1, <2>2, Descriptors DEF IInv, Consistent, Table, Fds
      <4> QED BY <1>1, <4>1
    <3>3. \A x \in DOMAIN connections : x # fd => connections'[x] = connections[x]
      BY <1>2
    <3>4. Unwritten(d)' = Unwritten(d)
      BY <3>1, <3>2, <3>3, Elsewhere
    <3>5. Untouched(d)
      BY <3>1, <3>4 DEF Untouched
    <3> QED BY <3>5, UntouchedKeeps DEF Streams
  <2> QED BY <2>1, <2>2
<1> QED BY <1>5, <1>6 DEF Streams

LEMMA DisconnectStreams == ASSUME IInv, Streams, Disconnect PROVE Streams'
<1>1. Taken /\ Head(events) # listen_fd
  BY TakesFirst DEF Disconnect
<1>2. Head(events) \in DOMAIN connections
  BY <1>1 DEF Taken
<1>3. /\ Close(Head(events)) /\ client[ClientOf(Head(events))].phase = "gone"
      /\ UNCHANGED <<client, data, replies>>
  BY DEF Disconnect, outside
<1> QED BY <1>2, <1>3, CloseStreams

LEMMA WriteFailsStreams == ASSUME IInv, Streams, WriteFails PROVE Streams'
<1>1. writing \in DOMAIN connections
  BY DEF WriteFails, IInv, Consistent, Batch
<1>2. /\ Close(writing) /\ client[ClientOf(writing)].phase = "gone"
      /\ UNCHANGED <<client, data, replies>>
  BY DEF WriteFails, outside
<1> QED BY <1>1, <1>2, CloseStreams

\* What a read does to the connection it is for, in each of its three cases.
Answers(c, fd) ==
    \E r, rest :
        /\ IsSeq(Elements(r)) /\ IsFiniteSet(DOMAIN data')
        /\ Respond(c, fd, r, rest)

LEMMA Reads ==
    ASSUME Streams, Read
    PROVE  LET fd == Head(events)
               c  == ClientOf(fd)
           IN \/ Answers(c, fd)
              \/ /\ \E rest : connections' = [connections EXCEPT ![fd].rbuf = rest]
                 /\ UNCHANGED <<data, replies>>
<1> DEFINE fd  == Head(events)
           c   == ClientOf(fd)
           buf == connections[fd].rbuf \o sock[c].inbox
<1>0. IsFiniteSet(DOMAIN data)
  BY DEF Streams, Buffers
<1>1. ASSUME parse(buf) = "COMPLETE",
             data' = execute(data, Arguments(buf)).data,
             Respond(c, fd, execute(data, Arguments(buf)).reply, consumeInput(buf))
      PROVE  Answers(c, fd)
  <2> DEFINE R == execute(data, Arguments(buf))
  <2>1. Sane(R)
    BY <1>0, ExecuteIsSane
  <2>2. data' = R.data /\ Respond(c, fd, R.reply, consumeInput(buf))
    BY <1>1
  <2> HIDE DEF R, c, fd, buf
  <2>3. IsSeq(Elements(R.reply)) /\ IsFiniteSet(DOMAIN data')
    BY <2>1, <2>2, Sendable DEF Sane
  <2> QED BY <2>2, <2>3 DEF Answers
<1>2. ASSUME Respond(c, fd, Error, <<>>), UNCHANGED data
      PROVE  Answers(c, fd)
  <2>1. Sane(Reply(data, Error)) /\ Reply(data, Error).reply = Error
    BY <1>0 DEF Sane, Reply, Error
  <2>2. IsSeq(Elements(Error))
    BY <2>1, Sendable
  <2> HIDE DEF c, fd
  <2> QED BY <1>0, <1>2, <2>2 DEF Answers
<1> QED BY <1>1, <1>2 DEF Read

LEMMA ReadStreams == ASSUME IInv, Streams, Read PROVE Streams'
<1> DEFINE fd == Head(events)
           c  == ClientOf(fd)
<1>1. fd \in DOMAIN connections
  <2>1. Taken /\ fd # listen_fd
    BY TakesFirst DEF Read
  <2> QED BY <2>1 DEF Taken
<1>2. c \in Client /\ sock[c].fd = fd /\ Fds[c] = fd /\ fd \in FD
  BY <1>1, Owner DEF IInv, Consistent, Table
<1>3. sock' = [sock EXCEPT ![c].inbox = <<>>] /\ UNCHANGED client
  BY DEF Read, outside
<1>4. \/ Answers(c, fd)
      \/ /\ \E rest : connections' = [connections EXCEPT ![fd].rbuf = rest]
         /\ UNCHANGED <<data, replies>>
  BY Reads
<1> HIDE DEF fd, c
<1>5. /\ DOMAIN client = Client /\ DOMAIN sock = Client /\ DOMAIN replies = Client
      /\ \A d \in Client : {"fd", "outbox"} \subseteq DOMAIN sock[d]
      /\ "wbuf" \in DOMAIN connections[fd]
  BY <1>1 DEF IInv, Shapes, Streams, Buffers
<1>6. \A d \in Client : sock'[d].outbox = sock[d].outbox /\ sock'[d].fd = sock[d].fd
  BY <1>3, <1>5
<1>7. Buffers'
  <2>1. DOMAIN replies' = Client /\ IsFiniteSet(DOMAIN data')
    BY <1>4, <1>5 DEF Answers, Respond, Streams, Buffers
  <2>2. \A d \in DOMAIN connections' : "wbuf" \in DOMAIN connections'[d]
    BY <1>4, <1>5 DEF Answers, Respond, Streams, Buffers
  <2>3. \A d \in Client : "got" \in DOMAIN client'[d] /\ "outbox" \in DOMAIN sock'[d]
    BY <1>3, <1>5 DEF Streams, Buffers
  <2> QED BY <2>1, <2>2, <2>3 DEF Buffers
<1>8. ASSUME NEW d \in Client, d # c PROVE StreamOf(d)'
  <2>1. sock[d].fd # fd
    BY <1>2, <1>8, Descriptors DEF IInv, Consistent, Table, Fds
  <2>2. \A x \in DOMAIN connections : x # fd => connections'[x] = connections[x]
    BY <1>4 DEF Answers, Respond
  <2>3. Unwritten(d)' = Unwritten(d)
    BY <1>6, <2>1, <2>2, Elsewhere
  <2>4. replies'[d] = replies[d]
    BY <1>4, <1>5, <1>8 DEF Answers, Respond
  <2>5. Untouched(d)
    BY <1>3, <1>6, <2>3, <2>4 DEF Untouched
  <2> QED BY <2>5, UntouchedKeeps DEF Streams
<1>9. ASSUME NEW d \in Client, d = c PROVE StreamOf(d)'
  <2>1. fd # NoFd /\ Unwritten(d) = connections[fd].wbuf /\ Unwritten(d)' = connections'[fd].wbuf
    BY <1>2, <1>9, <1>6, Descriptors DEF Unwritten, Open
  <2>2. CASE Answers(c, fd)
    <3>1. PICK r, rest : IsSeq(Elements(r)) /\ Respond(c, fd, r, rest)
      BY <2>2 DEF Answers
    <3>2. connections'[fd].wbuf = connections[fd].wbuf \o Elements(r)
      BY <1>1, <1>5, <3>1 DEF Respond
    <3>3. replies'[d] = Append(replies[d], r)
      BY <1>2, <1>9, <1>5, <3>1 DEF Respond
    <3>4. client[d].phase # "away"
      BY <1>2, <1>9, Descriptors DEF IInv, Consistent, Queue, Phases
    <3>5. ASSUME client[d].phase = "connected"
          PROVE  Sound(client[d].got, sock[d].outbox, Unwritten(d) \o Elements(r), Append(replies[d], r))
      <4>1. Sound(client[d].got, sock[d].outbox, Unwritten(d), replies[d])
        BY <1>2, <1>9, <3>5 DEF Streams, StreamOf
      <4> QED BY <3>1, <4>1, SoundRespond
    <3> QED BY <1>2, <1>9, <1>3, <1>6, <2>1, <3>2, <3>3, <3>4, <3>5 DEF StreamOf
  <2>3. CASE /\ \E rest : connections' = [connections EXCEPT ![fd].rbuf = rest]
             /\ UNCHANGED <<data, replies>>
    <3>1. connections'[fd].wbuf = connections[fd].wbuf
      BY <1>1, <1>5, <2>3
    <3>2. Untouched(d)
      BY <1>2, <1>9, <1>3, <1>6, <2>1, <2>3, <3>1 DEF Untouched
    <3> QED BY <1>2, <1>9, <3>2, UntouchedKeeps DEF Streams
  <2> QED BY <1>4, <2>2, <2>3
<1> QED BY <1>7, <1>8, <1>9 DEF Streams

LEMMA WriteStreams == ASSUME IInv, Streams, Write PROVE Streams'
<1> DEFINE fd  == writing
           c   == ClientOf(fd)
           out == connections[fd].wbuf
           n   == LesserOf(Room(c), Len(out))
<1>1. fd \in DOMAIN connections
  BY DEF Write, IInv, Consistent, Batch
<1>2. c \in Client /\ sock[c].fd = fd /\ Fds[c] = fd /\ fd \in FD
  BY <1>1, Owner DEF IInv, Consistent, Table
<1>3. /\ sock' = [sock EXCEPT ![c].outbox = @ \o SubSeq(out, 1, n)]
      /\ connections' = [connections EXCEPT ![fd].wbuf = SubSeq(out, n + 1, Len(out))]
      /\ UNCHANGED <<client, data, replies>>
  BY DEF Write, outside
<1>4. n = LesserOf(SockRoom - Len(sock[c].outbox), Len(out))
  BY DEF Room
<1> HIDE DEF fd, c, n
<1>5. /\ DOMAIN client = Client /\ DOMAIN sock = Client
      /\ \A d \in Client : {"fd", "outbox"} \subseteq DOMAIN sock[d]
      /\ "wbuf" \in DOMAIN connections[fd]
  BY <1>1 DEF IInv, Shapes, Streams, Buffers
<1>6. /\ \A d \in Client : sock'[d].fd = sock[d].fd
      /\ \A d \in Client : d # c => sock'[d].outbox = sock[d].outbox
      /\ sock'[c].outbox = sock[c].outbox \o SubSeq(out, 1, n)
      /\ connections'[fd].wbuf = SubSeq(out, n + 1, Len(out))
  BY <1>1, <1>2, <1>3, <1>5
<1>7. Buffers'
  <2>1. \A d \in DOMAIN connections' : "wbuf" \in DOMAIN connections'[d]
    BY <1>3 DEF Streams, Buffers
  <2>2. \A d \in Client : "got" \in DOMAIN client'[d] /\ "outbox" \in DOMAIN sock'[d]
    BY <1>3, <1>5 DEF Streams, Buffers
  <2> QED BY <1>3, <2>1, <2>2 DEF Streams, Buffers
<1>8. ASSUME NEW d \in Client, d # c PROVE StreamOf(d)'
  <2>1. sock[d].fd # fd
    BY <1>2, <1>8, Descriptors DEF IInv, Consistent, Table, Fds
  <2>2. \A x \in DOMAIN connections : x # fd => connections'[x] = connections[x]
    BY <1>3
  <2>3. Unwritten(d)' = Unwritten(d)
    BY <1>6, <2>1, <2>2, Elsewhere
  <2>4. Untouched(d)
    BY <1>3, <1>6, <1>8, <2>3 DEF Untouched
  <2> QED BY <2>4, UntouchedKeeps DEF Streams
<1>9. ASSUME NEW d \in Client, d = c PROVE StreamOf(d)'
  <2>1. fd # NoFd /\ Unwritten(d) = out /\ Unwritten(d)' = SubSeq(out, n + 1, Len(out))
    BY <1>2, <1>9, <1>6, Descriptors DEF Unwritten, Open
  <2>2. client[d].phase # "away"
    BY <1>2, <1>9, Descriptors DEF IInv, Consistent, Queue, Phases
  <2>3. ASSUME client[d].phase = "connected"
        PROVE  Sound(client[d].got, sock[d].outbox \o SubSeq(out, 1, n),
                     SubSeq(out, n + 1, Len(out)), replies[d])
    <3>1. Sound(client[d].got, sock[d].outbox, out, replies[d])
      BY <1>2, <1>9, <2>1, <2>3 DEF Streams, StreamOf
    <3>2. n = LesserOf(SockRoom - Len(sock[d].outbox), Len(out))
      BY <1>4, <1>9
    <3> HIDE DEF out
    <3> QED BY <3>1, <3>2, SoundWrite
  <2> QED BY <1>2, <1>9, <1>3, <1>6, <2>1, <2>2, <2>3 DEF StreamOf
<1> QED BY <1>7, <1>8, <1>9 DEF Streams

LEMMA IdleStreams ==
    ASSUME Streams, UNCHANGED <<client, sock, connections, data, replies>>
    PROVE  Streams'
<1>1. Buffers'
  BY DEF Streams, Buffers
<1>2. ASSUME NEW c \in Client PROVE StreamOf(c)'
  <2>1. StreamOf(c) /\ Unwritten(c)' = Unwritten(c)
    BY SameConnections DEF Streams
  <2> QED BY <2>1 DEF StreamOf
<1> QED BY <1>1, <1>2 DEF Streams

LEMMA InitStreams == Init => Streams
<1> SUFFICES ASSUME Init PROVE Streams
  OBVIOUS
<1>1. /\ client = [c \in Client |->
             [phase |-> "away", script |-> Script[c], unsent |-> <<>>, got |-> <<>>]]
      /\ sock = [c \in Client |-> [inbox |-> <<>>, outbox |-> <<>>, fd |-> NoFd]]
      /\ connections = <<>> /\ data = <<>> /\ replies = [c \in Client |-> <<>>]
  BY DEF Init, Empty
<1>2. IsFiniteSet(DOMAIN data)
  <2>1. DOMAIN data = {}
    BY <1>1
  <2> QED BY <2>1, FS_EmptySet
<1> QED BY <1>1, <1>2 DEF Streams, Buffers, StreamOf

(* For every number of clients, with every room in the kernel: a connected
   client gets the bytes of its replies, all of them and in order, however
   write divides them (Connection::writeToSocket, Server::run).  *)
THEOREM StreamsIntact == Spec => []StreamIntact
<1>1. IInv /\ Streams /\ [Next]_vars => Streams'
  <2> SUFFICES ASSUME IInv, Streams, [Next]_vars PROVE Streams'
    OBVIOUS
  <2>1. ASSUME NEW c \in Client, Connect(c) \/ Send(c) \/ Receive(c) \/ HangUp(c) PROVE Streams'
    BY <2>1, ConnectStreams, SendStreams, ReceiveStreams, HangUpStreams
  <2>2. CASE Wait \/ AcceptFails \/ UNCHANGED vars
    BY <2>2, IdleStreams DEF Wait, AcceptFails, vars
  <2>3. CASE Server
    BY <2>2, <2>3, AcceptStreams, RefuseStreams, DisconnectStreams, ReadStreams,
       WriteStreams, WriteFailsStreams DEF Server
  <2> QED BY <2>1, <2>2, <2>3 DEF Next
<1>2. Streams => StreamIntact
  BY DEF Streams, StreamOf, Sound, Flattened, Unwritten, StreamIntact, Stream
<1> QED BY <1>1, <1>2, InitStreams, Invariance, PTL DEF Spec

-----------------------------------------------------------------------------
(* What a connection has read and not parsed, and what will follow it. *)

AllBulk(s) == \A i \in DOMAIN s : s[i].kind = "bulk"

LEMMA Kinds ==
    /\ \A n : Array(n).kind = "array" /\ Array(n).argc = n
    /\ \A s : Arg(s).kind = "bulk" /\ Arg(s).str = s
BY DEF Array, Arg

LEMMA RequestIs ==
    ASSUME NEW args, IsSeq(args)
    PROVE  LET r == Request(args)
           IN /\ IsSeq(r) /\ r # <<>> /\ Len(r) = Len(args) + 1 /\ Len(args) \in Nat
              /\ r[1] = Array(Len(args))
              /\ \A i \in 1 .. Len(args) : r[i + 1] = Arg(args[i])
<1> DEFINE n == Len(args)
           tail == [i \in DOMAIN args |-> Arg(args[i])]
           S == {Array(n)} \cup {Arg(args[i]) : i \in 1 .. n}
<1>1. n \in Nat /\ DOMAIN args = 1 .. n
  BY DEF IsSeq
<1> HIDE DEF n
<1>2. tail \in [1 .. n -> S] /\ \A i \in 1 .. n : tail[i] = Arg(args[i])
  BY <1>1
<1>3. <<Array(n)>> \in Seq(S) /\ Len(<<Array(n)>>) = 1 /\ <<Array(n)>>[1] = Array(n)
  OBVIOUS
<1> HIDE DEF tail, S
<1>4. tail \in Seq(S) /\ Len(tail) = n
  BY <1>1, <1>2
<1> DEFINE one == <<Array(n)>>
           r == one \o tail
<1> HIDE DEF one
<1>5. /\ r \in Seq(S) /\ Len(r) = 1 + n
      /\ \A i \in 1 .. 1 + n : r[i] = IF i <= 1 THEN one[i] ELSE tail[i - 1]
  BY <1>3, <1>4, ConcatProperties DEF one
<1> HIDE DEF r
<1>6. Request(args) = r
  BY DEF Request, r, one, tail, n
<1>7. r[1] = Array(n)
  BY <1>1, <1>3, <1>5 DEF one
<1>8. \A i \in 1 .. n : r[i + 1] = Arg(args[i])
  <2> TAKE i \in 1 .. n
  <2>1. i + 1 \in 1 .. 1 + n /\ ~ (i + 1 <= 1) /\ i + 1 - 1 = i
    BY <1>1
  <2>2. r[i + 1] = tail[i + 1 - 1]
    BY <1>5, <2>1
  <2> QED BY <1>2, <2>1, <2>2
<1>9. IsSeq(r) /\ r # <<>>
  BY <1>1, <1>5, SeqIsSeq
<1> QED BY <1>1, <1>5, <1>6, <1>7, <1>8, <1>9 DEF n

\* An element passes from one sequence to the other.
LEMMA Passed ==
    ASSUME NEW b, IsSeq(b), NEW u, IsSeq(u), u # <<>>
    PROVE  /\ IsSeq(Append(b, Head(u))) /\ IsSeq(Tail(u))
           /\ Append(b, Head(u)) \o Tail(u) = b \o u
           /\ Append(b, Head(u)) # <<>>
           /\ AllBulk(u) => AllBulk(Tail(u))
           /\ AllBulk(b) /\ AllBulk(u) => AllBulk(Append(b, Head(u)))
<1> DEFINE S == ToSet(b) \cup ToSet(u)
           a == Append(b, Head(u))
           o == Tail(u)
           h == <<Head(u)>>
<1>1. b \in Seq(S) /\ u \in Seq(S)
  BY IsSeqOver
<1> HIDE DEF S
<1>2. /\ Head(u) \in S /\ o \in Seq(S) /\ Len(o) = Len(u) - 1
      /\ \A i \in 1 .. Len(o) : o[i] = u[i + 1]
      /\ h \in Seq(S)
  BY <1>1, HeadTailProperties
<1>3. /\ a \in Seq(S) /\ a = b \o h /\ a # <<>> /\ Len(a) = Len(b) + 1
      /\ \A i \in 1 .. Len(b) : a[i] = b[i]
      /\ a[Len(b) + 1] = Head(u)
  BY <1>1, <1>2, AppendProperties, AppendIsConcat
<1>4. u = h \o o
  BY <1>1
<1>5. Head(u) = u[1] /\ 1 \in DOMAIN u /\ Len(u) \in Nat /\ DOMAIN u = 1 .. Len(u)
  BY <1>1
<1> HIDE DEF a, o, h
<1>6. a \o o = b \o u
  <2>1. b \in Seq(S) /\ h \in Seq(S) /\ o \in Seq(S)
    BY <1>1, <1>2
  <2>2. (b \o h) \o o = b \o (h \o o)
    BY <2>1, ConcatAssociative
  <2> QED BY <1>3, <1>4, <2>2
<1>7. AllBulk(u) => AllBulk(o)
  <2>1. DOMAIN o = 1 .. Len(o)
    BY <1>2
  <2>2. \A i \in 1 .. Len(o) : i + 1 \in DOMAIN u
    BY <1>2, <1>5
  <2> QED BY <1>2, <2>1, <2>2 DEF AllBulk
<1>8. AllBulk(b) /\ AllBulk(u) => AllBulk(a)
  <2>1. Len(b) \in Nat /\ DOMAIN b = 1 .. Len(b) /\ DOMAIN a = 1 .. Len(b) + 1
    BY <1>1, <1>3
  <2>2. \A i \in DOMAIN a : i \in 1 .. Len(b) \/ i = Len(b) + 1
    BY <2>1
  <2> QED BY <1>3, <1>5, <2>1, <2>2 DEF AllBulk
<1>9. IsSeq(a) /\ IsSeq(o)
  BY <1>2, <1>3, SeqIsSeq
<1> QED BY <1>3, <1>6, <1>7, <1>8, <1>9 DEF a, o

LEMMA TailIsBulk ==
    ASSUME NEW args, IsSeq(args)
    PROVE  AllBulk(Tail(Request(args)))
<1> DEFINE r == Request(args)
           o == Tail(r)
<1>1. /\ IsSeq(r) /\ r # <<>> /\ Len(r) = Len(args) + 1 /\ Len(args) \in Nat
      /\ \A i \in 1 .. Len(args) : r[i + 1] = Arg(args[i])
  BY RequestIs
<1> HIDE DEF r
<1>2. /\ o \in Seq(ToSet(r)) /\ Len(o) = Len(r) - 1
      /\ \A i \in 1 .. Len(o) : o[i] = r[i + 1]
  BY <1>1, HeadTailProperties DEF IsSeq
<1> HIDE DEF o
<1>3. DOMAIN o = 1 .. Len(args) /\ Len(o) = Len(args)
  BY <1>1, <1>2
<1> QED BY <1>1, <1>2, <1>3, Kinds DEF AllBulk, o, r

\* What a concatenation begins with.
LEMMA Begins ==
    ASSUME NEW s, NEW t, IsSeq(s), IsSeq(t)
    PROVE  /\ \A i \in 1 .. Len(s) : (s \o t)[i] = s[i]
           /\ Len(s \o t) = Len(s) + Len(t) /\ Len(s) \in Nat /\ Len(t) \in Nat
           /\ DOMAIN s = 1 .. Len(s)
<1> DEFINE S == ToSet(s) \cup ToSet(t)
<1>1. s \in Seq(S) /\ t \in Seq(S)
  BY IsSeqOver
<1> HIDE DEF S
<1>2. /\ Len(s \o t) = Len(s) + Len(t)
      /\ \A i \in 1 .. Len(s) + Len(t) : (s \o t)[i] = IF i <= Len(s) THEN s[i] ELSE t[i - Len(s)]
  BY <1>1, ConcatProperties
<1>3. Len(s) \in Nat /\ Len(t) \in Nat /\ DOMAIN s = 1 .. Len(s)
  BY <1>1
<1> QED BY <1>2, <1>3

-----------------------------------------------------------------------------
(* The requests of a client: all it will send (full), those not begun (sc),
   what is not sent of the last begun (un), what is sent and not parsed (b),
   and those executed (ex).  *)

\* ex are some of the first k requests, in their order.
Picked(ex, full, k) ==
    \E at \in [DOMAIN ex -> 1 .. k] :
        /\ \A i, j \in DOMAIN ex : i < j => at[i] < at[j]
        /\ \A i \in DOMAIN ex : ex[i] = full[at[i]]

Begun(sc, full) == Len(full) - Len(sc)

ScriptLeft(sc, full) ==
    /\ IsSeq(full) /\ \A i \in DOMAIN full : IsSeq(full[i])
    /\ IsSeq(sc) /\ Begun(sc, full) \in 0 .. Len(full)
    /\ \A i \in 1 .. Len(sc) : sc[i] = full[Begun(sc, full) + i]

\* s begins in the middle of a request, and request k + 1 follows.
Follows(s, full, k) ==
    \E orphan, rest :
        /\ IsSeq(orphan) /\ IsSeq(rest) /\ AllBulk(orphan)
        /\ s = orphan \o (Request(full[k + 1]) \o rest)

Heard(sc, un, b, ex, full) ==
    /\ ScriptLeft(sc, full)
    /\ IsSeq(un) /\ IsSeq(b) /\ IsSeq(ex) /\ AllBulk(un)
    /\ \E k \in 0 .. Begun(sc, full) :
          /\ Picked(ex, full, k)
          /\ \/ k = Begun(sc, full) /\ AllBulk(b)
             \/ k < Begun(sc, full) /\ Follows(b \o un, full, k)

LEMMA PickedMore ==
    ASSUME NEW ex, NEW full, NEW k \in Nat, Picked(ex, full, k), NEW m \in Nat, k <= m
    PROVE  Picked(ex, full, m)
<1>1. PICK at \in [DOMAIN ex -> 1 .. k] :
        /\ \A i, j \in DOMAIN ex : i < j => at[i] < at[j]
        /\ \A i \in DOMAIN ex : ex[i] = full[at[i]]
  BY DEF Picked
<1>2. at \in [DOMAIN ex -> 1 .. m]
  <2>1. 1 .. k \subseteq 1 .. m
    OBVIOUS
  <2> QED BY <2>1
<1> QED BY <1>1, <1>2 DEF Picked

LEMMA PickedNext ==
    ASSUME NEW ex, IsSeq(ex), NEW full, NEW k \in Nat, Picked(ex, full, k)
    PROVE  Picked(Append(ex, full[k + 1]), full, k + 1) /\ IsSeq(Append(ex, full[k + 1]))
<1> DEFINE x == full[k + 1]
           n == Len(ex)
           t == Append(ex, x)
<1>1. PICK at \in [DOMAIN ex -> 1 .. k] :
        /\ \A i, j \in DOMAIN ex : i < j => at[i] < at[j]
        /\ \A i \in DOMAIN ex : ex[i] = full[at[i]]
  BY DEF Picked
<1>2. ex \in Seq(ToSet(ex) \cup {x})
  BY IsSeqOver
<1>3. /\ t \in Seq(ToSet(ex) \cup {x}) /\ Len(t) = n + 1 /\ t[n + 1] = x
      /\ \A i \in 1 .. n : t[i] = ex[i]
      /\ n \in Nat /\ DOMAIN ex = 1 .. n
  BY <1>2, AppendProperties
<1> HIDE DEF t, n
<1>4. DOMAIN t = 1 .. n + 1 /\ IsSeq(t)
  BY <1>3, SeqIsSeq
<1> DEFINE bt == [i \in 1 .. n + 1 |-> IF i = n + 1 THEN k + 1 ELSE at[i]]
<1>5. \A i \in 1 .. n + 1 : i # n + 1 => i \in 1 .. n
  BY <1>3
<1>6. \A i \in 1 .. n : at[i] \in 1 .. k
  BY <1>1, <1>3
<1>7. bt \in [1 .. n + 1 -> 1 .. k + 1]
  BY <1>5, <1>6
<1>8. \A i \in 1 .. n + 1 : bt[i] = IF i = n + 1 THEN k + 1 ELSE at[i]
  OBVIOUS
<1> HIDE DEF bt
<1>9. ASSUME NEW i \in 1 .. n + 1, NEW j \in 1 .. n + 1, i < j
      PROVE  bt[i] < bt[j]
  <2>1. i \in 1 .. n
    BY <1>3, <1>9
  <2>2. bt[i] = at[i] /\ at[i] \in 1 .. k
    BY <1>3, <1>6, <1>8, <2>1
  <2>3. CASE j = n + 1
    BY <1>8, <2>2, <2>3
  <2>4. CASE j # n + 1
    BY <1>1, <1>3, <1>5, <1>8, <1>9, <2>1, <2>2, <2>4
  <2> QED BY <2>3, <2>4
<1>10. ASSUME NEW i \in 1 .. n + 1 PROVE t[i] = full[bt[i]]
  <2>1. CASE i = n + 1
    BY <1>3, <1>8, <2>1
  <2>2. CASE i # n + 1
    BY <1>1, <1>3, <1>5, <1>8, <2>2
  <2> QED BY <2>1, <2>2
<1>11. Picked(t, full, k + 1)
  BY <1>4, <1>7, <1>9, <1>10 DEF Picked
<1> QED BY <1>4, <1>11 DEF t

\* A request goes on,
LEMMA HeardMore ==
    ASSUME NEW sc, NEW un, NEW b, NEW ex, NEW full, Heard(sc, un, b, ex, full), un # <<>>
    PROVE  Heard(sc, Tail(un), Append(b, Head(un)), ex, full)
<1>1. /\ IsSeq(Append(b, Head(un))) /\ IsSeq(Tail(un)) /\ AllBulk(Tail(un))
      /\ Append(b, Head(un)) \o Tail(un) = b \o un
      /\ AllBulk(b) => AllBulk(Append(b, Head(un)))
  BY Passed DEF Heard
<1> QED BY <1>1 DEF Heard, Follows

\* or one begins.
LEMMA ScriptNext ==
    ASSUME NEW sc, NEW full, ScriptLeft(sc, full), sc # <<>>
    PROVE  /\ ScriptLeft(Tail(sc), full)
           /\ Begun(Tail(sc), full) = Begun(sc, full) + 1
           /\ Begun(sc, full) \in Nat
           /\ Head(sc) = full[Begun(sc, full) + 1] /\ IsSeq(Head(sc))
<1> DEFINE m == Begun(sc, full)
           o == Tail(sc)
           n == Len(full)
<1>1. /\ m \in 0 .. n /\ n \in Nat /\ Len(sc) \in Nat /\ Len(sc) # 0 /\ m = n - Len(sc)
      /\ DOMAIN full = 1 .. n
  BY DEF ScriptLeft, Begun, IsSeq
<1>2. /\ o \in Seq(ToSet(sc)) /\ Len(o) = Len(sc) - 1 /\ Head(sc) = sc[1]
      /\ \A i \in 1 .. Len(o) : o[i] = sc[i + 1]
  BY HeadTailProperties DEF ScriptLeft, IsSeq
<1>3. Begun(o, full) = m + 1
  BY <1>1, <1>2 DEF Begun
<1>4. IsSeq(o)
  BY <1>2, SeqIsSeq
<1>5. \A i \in 1 .. Len(sc) : sc[i] = full[m + i]
  BY DEF ScriptLeft
<1> HIDE DEF m, o, n
<1>6. \A i \in 1 .. Len(o) : o[i] = full[m + 1 + i]
  <2> TAKE i \in 1 .. Len(o)
  <2>1. i + 1 \in 1 .. Len(sc) /\ m + (i + 1) = m + 1 + i
    BY <1>1, <1>2
  <2> QED BY <1>2, <1>5, <2>1
<1>7. Head(sc) = full[m + 1] /\ m + 1 \in DOMAIN full
  BY <1>1, <1>2, <1>5
<1>8. ScriptLeft(o, full)
  BY <1>1, <1>3, <1>4, <1>6 DEF ScriptLeft, n
<1> QED BY <1>1, <1>3, <1>7, <1>8 DEF ScriptLeft, m, o

LEMMA FollowsMore ==
    ASSUME NEW full, NEW k, IsSeq(full[k + 1]), NEW s, Follows(s, full, k), NEW r, IsSeq(r)
    PROVE  Follows(s \o r, full, k)
<1> DEFINE R == Request(full[k + 1])
<1>1. IsSeq(R)
  BY RequestIs
<1> HIDE DEF R
<1>2. PICK orphan, rest :
        /\ IsSeq(orphan) /\ IsSeq(rest) /\ AllBulk(orphan)
        /\ s = orphan \o (R \o rest)
  BY DEF Follows, R
<1>3. IsSeq(orphan) /\ IsSeq(rest) /\ IsSeq(r)
  BY <1>2
<1>4. IsSeq(rest \o r)
  BY <1>3, Concats
<1>5. RegroupsAll(orphan, R, rest, r)
  BY <1>1, <1>3, RegroupFour
<1>6. s \o r = orphan \o (R \o (rest \o r))
  BY <1>2, <1>5 DEF RegroupsAll
<1> QED BY <1>2, <1>4, <1>6 DEF Follows, R

LEMMA HeardNext ==
    ASSUME NEW sc, NEW b, NEW ex, NEW full, Heard(sc, <<>>, b, ex, full), sc # <<>>
    PROVE  LET r == Request(Head(sc))
           IN Heard(Tail(sc), Tail(r), Append(b, Head(r)), ex, full)
<1> DEFINE m == Begun(sc, full)
           r == Request(Head(sc))
           a == Append(b, Head(r))
<1>1. /\ ScriptLeft(Tail(sc), full) /\ Begun(Tail(sc), full) = m + 1 /\ m \in Nat
      /\ Head(sc) = full[m + 1] /\ IsSeq(Head(sc))
  BY ScriptNext DEF Heard
<1>2. IsSeq(r) /\ r # <<>> /\ AllBulk(Tail(r))
  BY <1>1, RequestIs, TailIsBulk
<1> HIDE DEF r
<1>3. IsSeq(a) /\ IsSeq(Tail(r)) /\ a \o Tail(r) = b \o r
  BY <1>2, Passed DEF Heard
<1>4. PICK k \in 0 .. m :
          /\ Picked(ex, full, k)
          /\ \/ k = m /\ AllBulk(b)
             \/ k < m /\ Follows(b \o <<>>, full, k)
  BY DEF Heard
<1>5. k < m + 1 /\ k \in 0 .. m + 1
  BY <1>1, <1>4
<1> HIDE DEF a, m
<1>6. Follows(a \o Tail(r), full, k)
  <2>1. CASE k = m /\ AllBulk(b)
    <3>1. r \o <<>> = r /\ IsSeq(<<>>)
      <4>1. r \in Seq(ToSet(r)) /\ <<>> \in Seq(ToSet(r))
        BY <1>2 DEF IsSeq
      <4> QED BY <4>1, ConcatEmptySeq, SeqIsSeq
    <3>2. a \o Tail(r) = b \o (Request(full[k + 1]) \o <<>>)
      BY <1>1, <1>3, <2>1, <3>1 DEF r
    <3> QED BY <2>1, <3>1, <3>2 DEF Follows, Heard
  <2>2. CASE k < m /\ Follows(b \o <<>>, full, k)
    <3>1. k + 1 \in DOMAIN full
      BY <1>1, <1>4, <2>2, Begins DEF Heard, ScriptLeft, IsSeq, m
    <3>2. IsSeq(b) /\ IsSeq(full[k + 1])
      BY <3>1 DEF Heard, ScriptLeft
    <3>3. b \o <<>> = b
      <4>1. b \in Seq(ToSet(b))
        BY <3>2 DEF IsSeq
      <4> QED BY <4>1, ConcatEmptySeq
    <3>4. Follows(b, full, k)
      BY <2>2, <3>3
    <3>5. Follows(b \o r, full, k)
      BY <1>2, <3>2, <3>4, FollowsMore
    <3> QED BY <1>3, <3>5
  <2> QED BY <1>4, <2>1, <2>2
<1> QED BY <1>1, <1>2, <1>3, <1>4, <1>5, <1>6 DEF Heard, m, a, r

\* What has been read is dropped: what follows of its last request is bulk.
LEMMA HeardDrop ==
    ASSUME NEW sc, NEW un, NEW b, NEW ex, NEW full, Heard(sc, un, b, ex, full)
    PROVE  Heard(sc, un, <<>>, ex, full)
<1> DEFINE m == Begun(sc, full)
<1>1. PICK k \in 0 .. m : Picked(ex, full, k)
  BY DEF Heard
<1>2. m \in Nat /\ k \in Nat /\ k <= m /\ m \in 0 .. m
  BY DEF Heard, ScriptLeft
<1> HIDE DEF m
<1>3. Picked(ex, full, m)
  BY <1>1, <1>2, PickedMore
<1>4. IsSeq(<<>>) /\ AllBulk(<<>>)
  BY SoundEmpty DEF Sound, AllBulk
<1> QED BY <1>2, <1>3, <1>4 DEF Heard, m

\* What parses as a request is the next whole one.
LEMMA HeardRun ==
    ASSUME NEW sc, NEW un, NEW b, NEW ex, NEW full, Heard(sc, un, b, ex, full),
           parse(b) = "COMPLETE"
    PROVE  Heard(sc, un, <<>>, Append(ex, Arguments(b)), full)
<1> DEFINE m == Begun(sc, full)
<1>1. PICK k \in 0 .. m :
          /\ Picked(ex, full, k)
          /\ \/ k = m /\ AllBulk(b)
             \/ k < m /\ Follows(b \o un, full, k)
  BY DEF Heard
<1>2. /\ b # <<>> /\ b[1].kind = "array" /\ ~ (Len(b) <= b[1].argc)
      /\ Len(b) \in Nat /\ DOMAIN b = 1 .. Len(b) /\ 1 \in DOMAIN b
  BY DEF parse, Heard, IsSeq
<1>3. m \in Nat /\ k \in Nat /\ m <= Len(full) /\ Len(full) \in Nat /\ DOMAIN full = 1 .. Len(full)
  BY DEF Heard, ScriptLeft, IsSeq
<1> HIDE DEF m
<1>4. k < m /\ Follows(b \o un, full, k)
  BY <1>1, <1>2 DEF AllBulk
<1> DEFINE args == full[k + 1]
           R == Request(args)
           n == Len(args)
<1>5. IsSeq(args)
  <2>1. k + 1 \in DOMAIN full
    BY <1>3, <1>4
  <2> QED BY <2>1 DEF Heard, ScriptLeft
<1>6. /\ IsSeq(R) /\ Len(R) = n + 1 /\ n \in Nat /\ R[1] = Array(n)
      /\ \A i \in 1 .. n : R[i + 1] = Arg(args[i])
  BY <1>5, RequestIs
<1> HIDE DEF R
<1>7. PICK orphan, rest :
        /\ IsSeq(orphan) /\ IsSeq(rest) /\ AllBulk(orphan)
        /\ b \o un = orphan \o (R \o rest)
  BY <1>4 DEF Follows, R
<1>8. IsSeq(b) /\ IsSeq(un) /\ IsSeq(R \o rest)
  BY <1>6, <1>7, Concats DEF Heard
<1>9. \A i \in 1 .. Len(b) : (b \o un)[i] = b[i]
  BY <1>8, Begins
<1>10. orphan = <<>>
  <2> SUFFICES ASSUME orphan # <<>> PROVE FALSE
    OBVIOUS
  <2>1. 1 \in DOMAIN orphan /\ DOMAIN orphan = 1 .. Len(orphan)
    BY <1>7 DEF IsSeq
  <2> DEFINE p == R \o rest
  <2> HIDE DEF p
  <2>2. (orphan \o p)[1] = orphan[1]
    BY <1>7, <1>8, <2>1, Begins DEF p
  <2>3. b[1] = orphan[1]
    BY <1>2, <1>7, <1>9, <2>2 DEF p
  <2> QED BY <1>2, <1>7, <2>1, <2>3 DEF AllBulk
<1>11. b \o un = R \o rest
  <2> DEFINE p == R \o rest
  <2>1. p \in Seq(ToSet(p))
    BY <1>8 DEF IsSeq
  <2> HIDE DEF p
  <2>2. <<>> \o p = p
    BY <2>1, ConcatEmptySeq
  <2> QED BY <1>7, <1>10, <2>2 DEF p
<1>12. \A i \in 1 .. n + 1 : i <= Len(b) => b[i] = R[i]
  <2>1. \A i \in 1 .. n + 1 : (R \o rest)[i] = R[i]
    BY <1>6, <1>7, Begins
  <2>2. ASSUME NEW i \in 1 .. n + 1, i <= Len(b) PROVE b[i] = R[i]
    <3>1. i \in 1 .. Len(b)
      BY <1>2, <1>6, <2>2
    <3> QED BY <1>9, <1>11, <2>1, <3>1
  <2> QED BY <2>2
<1>13. b[1] = Array(n) /\ b[1].argc = n /\ Len(b) >= n + 1
  <2>1. 1 \in 1 .. n + 1 /\ 1 <= Len(b)
    BY <1>2, <1>6
  <2>2. b[1] = Array(n) /\ b[1].argc = n
    BY <1>6, <1>12, <2>1, Kinds
  <2>3. ~ (Len(b) <= n)
    BY <1>2, <2>2
  <2> QED BY <1>2, <1>6, <2>2, <2>3
<1>14. Arguments(b) = args
  <2>1. ASSUME NEW i \in 1 .. n PROVE b[i + 1] = Arg(args[i])
    <3>1. i + 1 \in 1 .. n + 1 /\ i + 1 <= Len(b)
      BY <1>2, <1>6, <1>13
    <3> QED BY <1>6, <1>12, <3>1
  <2>2. \A i \in 1 .. n : b[i + 1].str = args[i]
    BY <2>1, Kinds
  <2>3. Arguments(b) = [i \in 1 .. n |-> args[i]]
    BY <1>13, <2>2 DEF Arguments
  <2> QED BY <1>5, <1>6, <2>3 DEF IsSeq
<1> HIDE DEF args, n
<1>15. Picked(Append(ex, args), full, k + 1) /\ IsSeq(Append(ex, args))
  BY <1>1, <1>3, PickedNext DEF Heard, args
<1>16. Picked(Append(ex, args), full, m)
  BY <1>3, <1>4, <1>15, PickedMore
<1>17. IsSeq(<<>>) /\ AllBulk(<<>>) /\ m \in 0 .. m
  BY <1>3, SoundEmpty DEF Sound, AllBulk
<1> QED BY <1>14, <1>15, <1>16, <1>17 DEF Heard, m

-----------------------------------------------------------------------------
(* A client that waits for its replies. *)

(* A client that waits: all it began is executed and answered, or all but
   the request that is under way, of which nothing is lost.  *)
Idle(sc, un, b, ex, n, full) ==
    un = <<>> /\ b = <<>> /\ n = Begun(sc, full) /\ Len(ex) = n

Busy(sc, un, b, ex, n, full) ==
    /\ Begun(sc, full) > 0 /\ b # <<>> /\ b \o un = Request(full[Begun(sc, full)])
    /\ n = Begun(sc, full) - 1 /\ Len(ex) = n

Waits(sc, un, b, ex, n, full) ==
    /\ \A i \in 1 .. Len(ex) : ex[i] = full[i]
    /\ Idle(sc, un, b, ex, n, full) \/ Busy(sc, un, b, ex, n, full)

LEMMA WaitsMore ==
    ASSUME NEW sc, NEW un, NEW b, NEW ex, NEW n, NEW full, Heard(sc, un, b, ex, full),
           Waits(sc, un, b, ex, n, full), un # <<>>
    PROVE  Waits(sc, Tail(un), Append(b, Head(un)), ex, n, full)
<1>1. Busy(sc, un, b, ex, n, full)
  BY DEF Waits, Idle
<1>2. Append(b, Head(un)) \o Tail(un) = b \o un /\ Append(b, Head(un)) # <<>>
  BY Passed DEF Heard
<1> QED BY <1>1, <1>2 DEF Waits, Busy

LEMMA WaitsNext ==
    ASSUME NEW sc, NEW b, NEW ex, NEW n, NEW full, Heard(sc, <<>>, b, ex, full), sc # <<>>,
           Waits(sc, <<>>, b, ex, n, full), n = Begun(sc, full)
    PROVE  LET r == Request(Head(sc))
           IN Waits(Tail(sc), Tail(r), Append(b, Head(r)), ex, n, full)
<1> DEFINE m == Begun(sc, full)
           r == Request(Head(sc))
           a == Append(b, Head(r))
<1>1. /\ Begun(Tail(sc), full) = m + 1 /\ m \in Nat
      /\ Head(sc) = full[m + 1] /\ IsSeq(Head(sc))
  BY ScriptNext DEF Heard
<1>2. IsSeq(r) /\ r # <<>>
  BY <1>1, RequestIs
<1>3. b = <<>> /\ Len(ex) = n
  BY <1>1 DEF Waits, Idle, Busy
<1> HIDE DEF r
<1>4. a \o Tail(r) = b \o r /\ a # <<>>
  BY <1>2, Passed DEF Heard
<1>5. <<>> \o r = r
  <2>1. r \in Seq(ToSet(r))
    BY <1>2 DEF IsSeq
  <2> QED BY <2>1, ConcatEmptySeq
<1> HIDE DEF a, m
<1>6. a \o Tail(r) = Request(full[m + 1])
  BY <1>1, <1>3, <1>4, <1>5 DEF r
<1>7. m + 1 > 0 /\ n = m + 1 - 1
  BY <1>1 DEF m
<1>8. Busy(Tail(sc), Tail(r), a, ex, n, full)
  BY <1>1, <1>3, <1>4, <1>6, <1>7 DEF Busy
<1> QED BY <1>8 DEF Waits, a, r

\* What is read of it is no error, and is complete when all of it is there.
LEMMA WaitsRead ==
    ASSUME NEW sc, NEW un, NEW b, NEW ex, NEW n, NEW full, Heard(sc, un, b, ex, full),
           Waits(sc, un, b, ex, n, full)
    PROVE  /\ parse(b) # "ERROR"
           /\ parse(b) = "COMPLETE" =>
                 Waits(sc, un, <<>>, Append(ex, Arguments(b)), n + 1, full)
<1> DEFINE m == Begun(sc, full)
           args == full[m]
           R == Request(args)
           k == Len(args)
<1>1. CASE Idle(sc, un, b, ex, n, full)
  BY <1>1 DEF Idle, parse
<1>2. CASE Busy(sc, un, b, ex, n, full)
  <2>1. /\ m \in Nat /\ m > 0 /\ IsSeq(args) /\ b # <<>> /\ b \o un = R
        /\ n = m - 1 /\ Len(ex) = m - 1
    <3>1. m \in 0 .. Len(full) /\ m > 0 /\ Len(full) \in Nat /\ DOMAIN full = 1 .. Len(full)
      BY <1>2 DEF Busy, Heard, ScriptLeft, IsSeq
    <3>2. m \in DOMAIN full
      BY <3>1
    <3> QED BY <1>2, <3>1, <3>2 DEF Busy, Heard, ScriptLeft
  <2>2. /\ IsSeq(R) /\ Len(R) = k + 1 /\ k \in Nat /\ R[1] = Array(k)
        /\ \A i \in 1 .. k : R[i + 1] = Arg(args[i])
    BY <2>1, RequestIs
  <2> HIDE DEF R, m, args, k
  <2>3. IsSeq(b) /\ IsSeq(un) /\ IsSeq(ex)
    BY DEF Heard
  <2>4. /\ \A i \in 1 .. Len(b) : b[i] = R[i]
        /\ Len(b) + Len(un) = k + 1 /\ Len(b) \in Nat /\ Len(un) \in Nat
        /\ DOMAIN b = 1 .. Len(b)
    BY <2>1, <2>2, <2>3, Begins
  <2>5. 1 \in 1 .. Len(b)
    BY <2>1, <2>3, <2>4 DEF IsSeq
  <2>6. b[1].kind = "array" /\ b[1].argc = k
    BY <2>2, <2>4, <2>5, Kinds
  <2>7. \A i \in 2 .. k + 1 : R[i].kind = "bulk"
    <3> TAKE i \in 2 .. k + 1
    <3>1. i - 1 \in 1 .. k /\ (i - 1) + 1 = i
      BY <2>2
    <3>2. R[(i - 1) + 1] = Arg(args[i - 1])
      BY <2>2, <3>1
    <3> QED BY <3>1, <3>2, Kinds
  <2>8. \A i \in DOMAIN b : i \in 2 .. b[1].argc + 1 => b[i].kind = "bulk"
    BY <2>4, <2>6, <2>7
  <2>9. parse(b) # "ERROR"
    BY <2>6, <2>8 DEF parse
  <2>10. ASSUME parse(b) = "COMPLETE"
         PROVE  Waits(sc, un, <<>>, Append(ex, Arguments(b)), n + 1, full)
    <3>1. ~ (Len(b) <= k)
      BY <2>6, <2>10 DEF parse
    <3>2. Len(b) = k + 1 /\ Len(un) = 0
      <4>1. k \in Nat /\ Len(b) \in Nat /\ Len(un) \in Nat /\ Len(b) + Len(un) = k + 1
        BY <2>2, <2>4
      <4> QED BY <3>1, <4>1
    <3>3. un = <<>>
      BY <2>3, <3>2 DEF IsSeq
    <3>4. Arguments(b) = args
      <4>1. \A i \in 1 .. k : b[i + 1] = Arg(args[i])
        BY <2>2, <2>4, <3>2
      <4>2. \A i \in 1 .. k : b[i + 1].str = args[i]
        BY <4>1, Kinds
      <4>3. Arguments(b) = [i \in 1 .. k |-> args[i]]
        BY <2>6, <4>2 DEF Arguments
      <4> QED BY <2>1, <2>2, <4>3 DEF IsSeq, k
    <3> DEFINE t == Append(ex, args)
    <3>5. ex \in Seq(ToSet(ex) \cup {args})
      BY <2>3, IsSeqOver
    <3>6. Len(t) = m /\ t[m] = args /\ \A i \in 1 .. m - 1 : t[i] = ex[i]
      BY <2>1, <3>5, AppendProperties
    <3> HIDE DEF t
    <3>7. \A i \in 1 .. Len(t) : t[i] = full[i]
      <4> TAKE i \in 1 .. Len(t)
      <4>1. CASE i = m
        BY <3>6, <4>1 DEF args
      <4>2. CASE i # m
        <5>1. i \in 1 .. m - 1
          BY <2>1, <3>6, <4>2
        <5> QED BY <2>1, <3>6, <5>1 DEF Waits
      <4> QED BY <4>1, <4>2
    <3>8. n + 1 = m
      BY <2>1
    <3>9. Idle(sc, un, <<>>, t, n + 1, full)
      BY <3>3, <3>6, <3>8 DEF Idle, m
    <3> QED BY <3>4, <3>7, <3>9 DEF Waits, t
  <2> QED BY <2>9, <2>10
<1> QED BY <1>1, <1>2 DEF Waits

-----------------------------------------------------------------------------
(* Through the steps of the loop. *)

\* What the connection of c has read, and what is still to be read.
Gathered(c) == IF Open(c) THEN connections[sock[c].fd].rbuf ELSE <<>>
Unparsed(c) == Gathered(c) \o sock[c].inbox

\* What is said of c once all is executed that ever will be.
Ran(c) ==
    /\ Picked(executed[c], Script[c], Len(Script[c]))
    /\ c \in Patient =>
          /\ Len(executed[c]) <= Len(Script[c])
          /\ \A i \in 1 .. Len(executed[c]) : executed[c][i] = Script[c][i]
          /\ Len(replies[c]) = Len(executed[c])

Asking(c) ==
    /\ IsSeq(Gathered(c)) /\ IsSeq(sock[c].inbox) /\ IsSeq(replies[c])
    /\ Heard(client[c].script, client[c].unsent, Unparsed(c), executed[c], Script[c])
    /\ c \in Patient =>
          Waits(client[c].script, client[c].unsent, Unparsed(c), executed[c], Len(replies[c]), Script[c])

RequestsOf(c) ==
    /\ client[c].phase \in {"away", "connected", "gone", "refused"}
    /\ client[c].phase = "refused" => sock[c].fd = NoFd /\ c \notin ToSet(backlog)
    /\ client[c].phase \in {"away", "connected"} => Asking(c)
    /\ Ran(c) /\ IsSeq(executed[c])

Fields ==
    /\ DOMAIN executed = Client /\ DOMAIN replies = Client
    /\ \A c \in Client : {"script", "unsent"} \subseteq DOMAIN client[c] /\ "inbox" \in DOMAIN sock[c]
    /\ \A fd \in DOMAIN connections : "rbuf" \in DOMAIN connections[fd]

Requests == Fields /\ \A c \in Client : RequestsOf(c)

LEMMA AskingRan ==
    ASSUME NEW c \in Client, Asking(c)
    PROVE  Ran(c) /\ IsSeq(executed[c])
<1> DEFINE sc == client[c].script
           full == Script[c]
           ex == executed[c]
           m == Begun(sc, full)
<1>1. /\ Heard(sc, client[c].unsent, Unparsed(c), ex, full)
      /\ m \in 0 .. Len(full) /\ Len(full) \in Nat
  BY DEF Asking, Heard, ScriptLeft, IsSeq
<1>2. IsSeq(ex) /\ \E k \in 0 .. m : Picked(ex, full, k)
  BY <1>1 DEF Heard
<1> HIDE DEF m, ex, full, sc
<1>3. Picked(ex, full, Len(full))
  <2>1. PICK k \in 0 .. m : Picked(ex, full, k)
    BY <1>2
  <2>2. k \in Nat /\ k <= Len(full)
    BY <1>1
  <2> QED BY <1>1, <2>1, <2>2, PickedMore
<1>4. ASSUME c \in Patient
      PROVE  /\ Len(ex) <= Len(full) /\ \A i \in 1 .. Len(ex) : ex[i] = full[i]
             /\ Len(replies[c]) = Len(ex)
  <2>1. Waits(sc, client[c].unsent, Unparsed(c), ex, Len(replies[c]), full)
    BY <1>4 DEF Asking, sc, ex, full
  <2>2. Len(replies[c]) = Len(ex) /\ (Len(ex) = m \/ Len(ex) = m - 1)
    BY <2>1 DEF Waits, Idle, Busy, m
  <2> QED BY <1>1, <2>1, <2>2 DEF Waits
<1> QED BY <1>2, <1>3, <1>4 DEF Ran, ex, full

\* Nothing happens to the requests of c.
Undisturbed(c) ==
    /\ client'[c].phase = client[c].phase
    /\ client'[c].script = client[c].script /\ client'[c].unsent = client[c].unsent
    /\ sock'[c].fd = sock[c].fd /\ sock'[c].inbox = sock[c].inbox
    /\ Gathered(c)' = Gathered(c)
    /\ executed'[c] = executed[c] /\ replies'[c] = replies[c]
    /\ c \notin ToSet(backlog) => c \notin ToSet(backlog')

LEMMA UndisturbedKeeps ==
    ASSUME NEW c \in Client, RequestsOf(c), Undisturbed(c)
    PROVE  RequestsOf(c)'
<1>1. Unparsed(c)' = Unparsed(c)
  BY DEF Undisturbed, Unparsed
<1>2. Ran(c)' <=> Ran(c)
  BY DEF Undisturbed, Ran
<1>3. Asking(c)' <=> Asking(c)
  BY <1>1 DEF Undisturbed, Asking
<1> QED BY <1>2, <1>3 DEF Undisturbed, RequestsOf

\* Only the connection on fd is changed, or removed, and c is not on it.
LEMMA ElsewhereRead ==
    ASSUME IInv, NEW c \in Client, NEW fd, sock[c].fd # fd,
           sock'[c].fd = sock[c].fd,
           \A d \in DOMAIN connections : d # fd => connections'[d] = connections[d]
    PROVE  Gathered(c)' = Gathered(c)
<1>1. Open(c) => sock[c].fd \in DOMAIN connections
  BY DEF Open, IInv, Consistent, Table, Fds
<1>2. Open(c)' <=> Open(c)
  BY DEF Open
<1> QED BY <1>1, <1>2 DEF Gathered

LEMMA SameRead ==
    ASSUME NEW c \in Client, sock'[c].fd = sock[c].fd,
           \A fd \in DOMAIN connections : connections'[fd].rbuf = connections[fd].rbuf,
           IInv
    PROVE  Gathered(c)' = Gathered(c)
<1>1. Open(c) => sock[c].fd \in DOMAIN connections
  BY DEF Open, IInv, Consistent, Table, Fds
<1> QED BY <1>1 DEF Gathered, Open

LEMMA AppendAcross ==
    ASSUME NEW b, IsSeq(b), NEW i, IsSeq(i), NEW x
    PROVE  b \o Append(i, x) = Append(b \o i, x) /\ IsSeq(Append(i, x)) /\ IsSeq(b \o i)
<1> DEFINE S == ToSet(b) \cup (ToSet(i) \cup {x})
           h == <<x>>
<1>1. b \in Seq(S) /\ i \in Seq(S) /\ x \in S /\ h \in Seq(S)
  BY IsSeqOver
<1> HIDE DEF S
<1>2. Append(i, x) = i \o h /\ Append(i, x) \in Seq(S)
  BY <1>1, AppendProperties, AppendIsConcat
<1>3. b \o i \in Seq(S)
  BY <1>1, ConcatProperties
<1> DEFINE bi == b \o i
<1>4. Append(bi, x) = bi \o h
  BY <1>1, <1>3, AppendIsConcat
<1> HIDE DEF h
<1>5. (b \o i) \o h = b \o (i \o h)
  BY <1>1, ConcatAssociative
<1> QED BY <1>2, <1>3, <1>4, <1>5, SeqIsSeq

LEMMA ConnectRequests ==
    ASSUME IInv, Requests, NEW c \in Client, Connect(c)
    PROVE  Requests'
<1>1. /\ client[c].phase = "away"
      /\ client' = [client EXCEPT ![c].phase = "connected"]
      /\ backlog' = Append(backlog, c)
      /\ UNCHANGED <<sock, connections, executed, replies>>
  BY DEF Connect, server
<1>2. DOMAIN client = Client /\ \A d \in Client : {"phase", "script", "unsent"} \subseteq DOMAIN client[d]
  BY DEF IInv, Shapes, Requests, Fields
<1>3. Fields'
  BY <1>1, <1>2 DEF Requests, Fields
<1>4. \A d \in Client : Gathered(d)' = Gathered(d)
  BY <1>1, SameRead
<1>5. ASSUME NEW d \in Client, d # c PROVE RequestsOf(d)'
  <2>1. d \notin ToSet(backlog) => d \notin ToSet(backlog')
    <3>1. backlog \in Seq(Client) /\ Distinct(backlog) /\ c \notin ToSet(backlog)
      BY <1>1 DEF IInv, Consistent, Queue, Phases
    <3>2. ToSet(backlog') = ToSet(backlog) \cup {c}
      BY <1>1, <3>1, WithOneMore
    <3> QED BY <1>5, <3>2
  <2>2. Undisturbed(d)
    BY <1>1, <1>2, <1>4, <1>5, <2>1 DEF Undisturbed
  <2> QED BY <2>2, UndisturbedKeeps DEF Requests
<1>6. RequestsOf(c)'
  <2>1. /\ client'[c].phase = "connected"
        /\ client'[c].script = client[c].script /\ client'[c].unsent = client[c].unsent
    BY <1>1, <1>2
  <2>2. Asking(c) /\ Ran(c) /\ IsSeq(executed[c])
    BY <1>1 DEF Requests, RequestsOf
  <2>3. Unparsed(c)' = Unparsed(c)
    BY <1>1, <1>4 DEF Unparsed
  <2>4. Asking(c)'
    BY <1>1, <1>4, <2>1, <2>2, <2>3 DEF Asking
  <2>5. Ran(c)'
    BY <1>1, <2>2 DEF Ran
  <2> QED BY <1>1, <2>1, <2>2, <2>4, <2>5 DEF RequestsOf
<1> QED BY <1>3, <1>5, <1>6 DEF Requests

\* What is sent is the rest of the last request, or the next one.
LEMMA Sends ==
    ASSUME NEW c \in Client, Requests, Send(c)
    PROVE  \E rest, script :
              /\ Deliver(c, rest, script)
              /\ Heard(script, Tail(rest), Append(Unparsed(c), Head(rest)), executed[c], Script[c])
              /\ c \in Patient => Waits(script, Tail(rest), Append(Unparsed(c), Head(rest)),
                                        executed[c], Len(replies[c]), Script[c])
<1>1. Asking(c)
  BY DEF Send, Requests, RequestsOf
<1> DEFINE sc == client[c].script
           un == client[c].unsent
           b  == Unparsed(c)
           ex == executed[c]
           n  == Len(replies[c])
           full == Script[c]
<1>2. /\ Heard(sc, un, b, ex, full)
      /\ c \in Patient => Waits(sc, un, b, ex, n, full)
  BY <1>1 DEF Asking
<1>3. CASE un # <<>> /\ Deliver(c, un, sc)
  <2> HIDE DEF sc, un, b, ex, n, full
  <2>1. Heard(sc, Tail(un), Append(b, Head(un)), ex, full)
    BY <1>2, <1>3, HeardMore
  <2>2. c \in Patient => Waits(sc, Tail(un), Append(b, Head(un)), ex, n, full)
    BY <1>2, <1>3, WaitsMore
  <2> QED BY <1>3, <2>1, <2>2 DEF b, ex, n, full
<1>4. CASE MayBegin(c) /\ Deliver(c, Request(Head(sc)), Tail(sc))
  <2>1. un = <<>> /\ sc # <<>> /\ (c \in Patient => n = Begun(sc, full))
    BY <1>4 DEF MayBegin, Begun
  <2> HIDE DEF sc, un, b, ex, n, full
  <2> DEFINE r == Request(Head(sc))
  <2>2. Heard(Tail(sc), Tail(r), Append(b, Head(r)), ex, full)
    BY <1>2, <2>1, HeardNext
  <2>3. c \in Patient => Waits(Tail(sc), Tail(r), Append(b, Head(r)), ex, n, full)
    BY <1>2, <2>1, WaitsNext
  <2> QED BY <1>4, <2>2, <2>3 DEF b, ex, n, full
<1> QED BY <1>3, <1>4 DEF Send

LEMMA SendRequests ==
    ASSUME IInv, Requests, NEW c \in Client, Send(c)
    PROVE  Requests'
<1>1. PICK rest, script :
              /\ Deliver(c, rest, script)
              /\ Heard(script, Tail(rest), Append(Unparsed(c), Head(rest)), executed[c], Script[c])
              /\ c \in Patient => Waits(script, Tail(rest), Append(Unparsed(c), Head(rest)),
                                        executed[c], Len(replies[c]), Script[c])
  BY Sends
<1>2. /\ client' = [client EXCEPT ![c].unsent = Tail(rest), ![c].script = script]
      /\ sock' = [sock EXCEPT ![c].inbox = Append(@, Head(rest))]
      /\ UNCHANGED <<backlog, connections, executed, replies>>
  BY <1>1 DEF Deliver, server
<1>3. /\ DOMAIN client = Client /\ DOMAIN sock = Client
      /\ \A d \in Client : {"phase", "script", "unsent"} \subseteq DOMAIN client[d]
      /\ \A d \in Client : {"fd", "inbox"} \subseteq DOMAIN sock[d]
  BY DEF IInv, Shapes, Requests, Fields
<1>4. Fields'
  BY <1>2, <1>3 DEF Requests, Fields
<1>5. \A d \in Client : sock'[d].fd = sock[d].fd
  BY <1>2, <1>3
<1>6. \A d \in Client : Gathered(d)' = Gathered(d)
  BY <1>2, <1>5, SameRead
<1>7. ASSUME NEW d \in Client, d # c PROVE RequestsOf(d)'
  <2>1. Undisturbed(d)
    BY <1>2, <1>3, <1>6, <1>7 DEF Undisturbed
  <2> QED BY <2>1, UndisturbedKeeps DEF Requests
<1>8. RequestsOf(c)'
  <2>1. /\ client'[c].phase = client[c].phase /\ client[c].phase = "connected"
        /\ client'[c].script = script /\ client'[c].unsent = Tail(rest)
        /\ sock'[c].inbox = Append(sock[c].inbox, Head(rest))
    BY <1>2, <1>3 DEF Send
  <2>2. Asking(c) /\ Ran(c) /\ IsSeq(executed[c])
    BY <2>1 DEF Requests, RequestsOf
  <2>3. Unparsed(c)' = Append(Unparsed(c), Head(rest)) /\ IsSeq(sock'[c].inbox)
    <3>1. IsSeq(Gathered(c)) /\ IsSeq(sock[c].inbox)
      BY <2>2 DEF Asking
    <3>2. /\ Gathered(c) \o Append(sock[c].inbox, Head(rest)) = Append(Gathered(c) \o sock[c].inbox, Head(rest))
          /\ IsSeq(Append(sock[c].inbox, Head(rest)))
      <4> DEFINE b == Gathered(c)
                 i == sock[c].inbox
      <4>1. IsSeq(b) /\ IsSeq(i)
        BY <3>1
      <4> HIDE DEF b, i
      <4>2. b \o Append(i, Head(rest)) = Append(b \o i, Head(rest)) /\ IsSeq(Append(i, Head(rest)))
        BY <4>1, AppendAcross
      <4> QED BY <4>2 DEF b, i
    <3> QED BY <1>6, <2>1, <3>2 DEF Unparsed
  <2>4. Asking(c)'
    BY <1>1, <1>2, <1>6, <2>1, <2>2, <2>3 DEF Asking
  <2>5. Ran(c)'
    BY <1>2, <2>2 DEF Ran
  <2> QED BY <1>2, <2>1, <2>2, <2>4, <2>5 DEF RequestsOf
<1> QED BY <1>4, <1>7, <1>8 DEF Requests

LEMMA ReceiveRequests ==
    ASSUME IInv, Requests, NEW c \in Client, Receive(c)
    PROVE  Requests'
<1>1. /\ client' = [client EXCEPT ![c].got = Append(@, Head(sock[c].outbox))]
      /\ sock' = [sock EXCEPT ![c].outbox = Tail(@)]
      /\ UNCHANGED <<backlog, connections, executed, replies>>
  BY DEF Receive, server
<1>2. /\ DOMAIN client = Client /\ DOMAIN sock = Client
      /\ \A d \in Client : {"phase", "script", "unsent"} \subseteq DOMAIN client[d]
      /\ \A d \in Client : {"fd", "inbox"} \subseteq DOMAIN sock[d]
  BY DEF IInv, Shapes, Requests, Fields
<1>3. Fields'
  BY <1>1, <1>2 DEF Requests, Fields
<1>4. \A d \in Client : sock'[d].fd = sock[d].fd /\ sock'[d].inbox = sock[d].inbox
  BY <1>1, <1>2
<1>5. ASSUME NEW d \in Client PROVE RequestsOf(d)'
  <2>1. Gathered(d)' = Gathered(d)
    BY <1>1, <1>4, SameRead
  <2>2. /\ client'[d].phase = client[d].phase
        /\ client'[d].script = client[d].script /\ client'[d].unsent = client[d].unsent
    BY <1>1, <1>2
  <2>3. Undisturbed(d)
    BY <1>1, <1>4, <2>1, <2>2 DEF Undisturbed
  <2> QED BY <2>3, UndisturbedKeeps DEF Requests
<1> QED BY <1>3, <1>5 DEF Requests

LEMMA HangUpRequests ==
    ASSUME IInv, Requests, NEW c \in Client, HangUp(c)
    PROVE  Requests'
<1>1. /\ client[c].phase = "connected"
      /\ client' = [client EXCEPT ![c].phase = "gone", ![c].script = <<>>, ![c].unsent = <<>>]
      /\ UNCHANGED <<sock, backlog, connections, executed, replies>>
  BY DEF HangUp, server
<1>2. DOMAIN client = Client /\ \A d \in Client : {"phase", "script", "unsent"} \subseteq DOMAIN client[d]
  BY DEF IInv, Shapes, Requests, Fields
<1>3. Fields'
  BY <1>1, <1>2 DEF Requests, Fields
<1>4. \A d \in Client : Gathered(d)' = Gathered(d)
  BY <1>1, SameRead
<1>5. ASSUME NEW d \in Client, d # c PROVE RequestsOf(d)'
  <2>1. Undisturbed(d)
    BY <1>1, <1>2, <1>4, <1>5 DEF Undisturbed
  <2> QED BY <2>1, UndisturbedKeeps DEF Requests
<1>6. RequestsOf(c)'
  <2>1. client'[c].phase = "gone"
    BY <1>1, <1>2
  <2>2. Ran(c) /\ IsSeq(executed[c])
    BY DEF Requests, RequestsOf
  <2>3. Ran(c)'
    BY <1>1, <2>2 DEF Ran
  <2> QED BY <1>1, <2>1, <2>2, <2>3 DEF RequestsOf
<1> QED BY <1>3, <1>5, <1>6 DEF Requests

LEMMA AcceptRequests == ASSUME IInv, Requests, Accept PROVE Requests'
<1>1. PICK c \in ToSet(backlog), fd \in FD \ DOMAIN connections :
              /\ sock' = [sock EXCEPT ![c].fd = fd]
              /\ connections' = [d \in DOMAIN connections \cup {fd} |->
                                    IF d = fd THEN Connection ELSE connections[d]]
              /\ c \in Client /\ Fds[c] = NoFd
              /\ ToSet(backlog') \subseteq ToSet(backlog)
  BY Accepts
<1>2. UNCHANGED <<client, executed, replies>>
  BY DEF Accept
<1>3. DOMAIN sock = Client /\ \A d \in Client : {"fd", "inbox"} \subseteq DOMAIN sock[d]
  BY DEF IInv, Shapes, Requests, Fields
<1>4. fd # NoFd /\ Connection.rbuf = <<>> /\ "rbuf" \in DOMAIN Connection
  BY Descriptors DEF Connection
<1>5. Fields'
  <2>1. \A d \in DOMAIN connections' : "rbuf" \in DOMAIN connections'[d]
    BY <1>1, <1>4 DEF Requests, Fields
  <2>2. \A d \in Client : "inbox" \in DOMAIN sock'[d]
    BY <1>1, <1>3
  <2> QED BY <1>2, <2>1, <2>2 DEF Requests, Fields
<1>6. ASSUME NEW d \in Client, d # c PROVE RequestsOf(d)'
  <2>1. sock'[d] = sock[d]
    BY <1>1, <1>3, <1>6
  <2>2. sock[d].fd # fd
    BY <1>1 DEF IInv, Consistent, Table, Fds
  <2>3. \A x \in DOMAIN connections : x # fd => connections'[x] = connections[x]
    BY <1>1
  <2>4. Gathered(d)' = Gathered(d)
    BY <2>1, <2>2, <2>3, ElsewhereRead
  <2>5. Undisturbed(d)
    BY <1>1, <1>2, <2>1, <2>4 DEF Undisturbed
  <2> QED BY <2>5, UndisturbedKeeps DEF Requests
<1>7. RequestsOf(c)'
  <2>1. sock[c].fd = NoFd /\ sock'[c].fd = fd /\ sock'[c].inbox = sock[c].inbox
    BY <1>1, <1>3 DEF Fds
  <2>2. connections'[fd] = Connection
    BY <1>1
  <2>3. Gathered(c)' = Gathered(c)
    BY <1>4, <2>1, <2>2 DEF Gathered, Open
  <2>4. Unparsed(c)' = Unparsed(c)
    BY <2>1, <2>3 DEF Unparsed
  <2>5. client[c].phase # "refused" /\ RequestsOf(c)
    BY <1>1 DEF Requests, RequestsOf
  <2>6. Ran(c)' <=> Ran(c)
    BY <1>2 DEF Ran
  <2>7. Asking(c)' <=> Asking(c)
    BY <1>2, <2>1, <2>3, <2>4 DEF Asking
  <2> QED BY <1>2, <2>5, <2>6, <2>7 DEF RequestsOf
<1> QED BY <1>5, <1>6, <1>7 DEF Requests

LEMMA RefuseRequests == ASSUME IInv, Requests, Refuse PROVE Requests'
<1> DEFINE h == Head(backlog)
<1>1. PICK c \in Client :
         /\ client' = [client EXCEPT ![c].phase = "refused"]
         /\ sock' = [sock EXCEPT ![c].inbox = <<>>]
         /\ Fds[c] = NoFd /\ c \notin ToSet(backlog')
         /\ ToSet(backlog') \subseteq ToSet(backlog)
  <2>1. Taken /\ Head(events) = listen_fd
    BY TakesFirst DEF Refuse
  <2>2. backlog # <<>> /\ backlog \in Seq(Client) /\ Distinct(backlog)
    BY <2>1 DEF IInv, Consistent, Batch, Queue, Taken
  <2>3. /\ client' = [client EXCEPT ![h].phase = "refused"]
        /\ sock' = [sock EXCEPT ![h].inbox = <<>>]
        /\ backlog' = Tail(backlog)
    BY DEF Refuse
  <2>4. h \in Client /\ h \in ToSet(backlog) /\ h \notin ToSet(backlog') /\ ToSet(backlog') \subseteq ToSet(backlog)
    BY <2>2, <2>3, WithoutFirst
  <2> HIDE DEF h
  <2>5. Fds[h] = NoFd
    BY <2>4 DEF IInv, Consistent, Queue
  <2> QED BY <2>3, <2>4, <2>5
<1>2. UNCHANGED <<connections, executed, replies>>
  BY DEF Refuse
<1>3. /\ DOMAIN client = Client /\ DOMAIN sock = Client
      /\ \A d \in Client : {"phase", "script", "unsent"} \subseteq DOMAIN client[d]
      /\ \A d \in Client : {"fd", "inbox"} \subseteq DOMAIN sock[d]
  BY DEF IInv, Shapes, Requests, Fields
<1>4. Fields'
  BY <1>1, <1>2, <1>3 DEF Requests, Fields
<1>5. ASSUME NEW d \in Client, d # c PROVE RequestsOf(d)'
  <2>1. client'[d] = client[d] /\ sock'[d] = sock[d]
    BY <1>1, <1>3, <1>5
  <2>2. Gathered(d)' = Gathered(d)
    BY <1>2, <2>1, SameRead
  <2>3. Undisturbed(d)
    BY <1>1, <1>2, <2>1, <2>2 DEF Undisturbed
  <2> QED BY <2>3, UndisturbedKeeps DEF Requests
<1>6. RequestsOf(c)'
  <2>1. client'[c].phase = "refused" /\ sock'[c].fd = sock[c].fd
    BY <1>1, <1>3
  <2>2. Ran(c) /\ IsSeq(executed[c])
    BY DEF Requests, RequestsOf
  <2>3. Ran(c)'
    BY <1>2, <2>2 DEF Ran
  <2> QED BY <1>1, <1>2, <2>1, <2>2, <2>3 DEF RequestsOf, Fds
<1> QED BY <1>4, <1>5, <1>6 DEF Requests

LEMMA CloseRequests ==
    ASSUME IInv, Requests, NEW fd \in DOMAIN connections, Close(fd),
           client[ClientOf(fd)].phase = "gone", UNCHANGED <<client, backlog, executed, replies>>
    PROVE  Requests'
<1> DEFINE o == ClientOf(fd)
<1>1. PICK c \in Client :
         /\ sock[c].fd = fd /\ Fds[c] = fd /\ client[c].phase = "gone"
         /\ sock' = [sock EXCEPT ![c] = [inbox |-> <<>>, outbox |-> @.outbox, fd |-> NoFd]]
  <2>1. o \in Client /\ sock[o].fd = fd /\ Fds[o] = fd
    BY Owner DEF IInv, Consistent
  <2>2. /\ sock' = [sock EXCEPT ![o] = [inbox |-> <<>>, outbox |-> @.outbox, fd |-> NoFd]]
        /\ client[o].phase = "gone"
    BY DEF Close
  <2> HIDE DEF o
  <2> QED BY <2>1, <2>2
<1>2. connections' = [d \in DOMAIN connections \ {fd} |-> connections[d]]
  BY DEF Close
<1>3. DOMAIN sock = Client /\ \A d \in Client : {"fd", "inbox"} \subseteq DOMAIN sock[d]
  BY DEF IInv, Shapes, Requests, Fields
<1>4. Fields'
  <2>1. \A d \in Client : "inbox" \in DOMAIN sock'[d]
    BY <1>1, <1>3
  <2> QED BY <1>2, <2>1 DEF Requests, Fields
<1>5. ASSUME NEW d \in Client, d # c PROVE RequestsOf(d)'
  <2>1. sock'[d] = sock[d]
    BY <1>1, <1>3, <1>5
  <2>2. sock[d].fd # fd
    <3>1. Fds[d] # Fds[c] /\ Fds[d] = sock[d].fd /\ fd \in FD
      BY <1>1, <1>5, Descriptors DEF IInv, Consistent, Table, Fds
    <3> QED BY <1>1, <3>1
  <2>3. \A x \in DOMAIN connections : x # fd => connections'[x] = connections[x]
    BY <1>2
  <2>4. Gathered(d)' = Gathered(d)
    BY <2>1, <2>2, <2>3, ElsewhereRead
  <2>5. Undisturbed(d)
    BY <2>1, <2>4 DEF Undisturbed
  <2> QED BY <2>5, UndisturbedKeeps DEF Requests
<1>6. RequestsOf(c)'
  <2>1. Ran(c) /\ IsSeq(executed[c])
    BY DEF Requests, RequestsOf
  <2>2. Ran(c)'
    BY <2>1 DEF Ran
  <2> QED BY <1>1, <2>1, <2>2 DEF RequestsOf
<1> QED BY <1>4, <1>5, <1>6 DEF Requests

LEMMA DisconnectRequests == ASSUME IInv, Requests, Disconnect PROVE Requests'
<1>1. Taken /\ Head(events) # listen_fd
  BY TakesFirst DEF Disconnect
<1>2. Head(events) \in DOMAIN connections
  BY <1>1 DEF Taken
<1>3. /\ Close(Head(events)) /\ client[ClientOf(Head(events))].phase = "gone"
      /\ UNCHANGED <<client, backlog, executed, replies>>
  BY DEF Disconnect, outside
<1> QED BY <1>2, <1>3, CloseRequests

LEMMA WriteFailsRequests == ASSUME IInv, Requests, WriteFails PROVE Requests'
<1>1. writing \in DOMAIN connections
  BY DEF WriteFails, IInv, Consistent, Batch
<1>2. /\ Close(writing) /\ client[ClientOf(writing)].phase = "gone"
      /\ UNCHANGED <<client, backlog, executed, replies>>
  BY DEF WriteFails, outside
<1> QED BY <1>1, <1>2, CloseRequests

LEMMA WriteRequests == ASSUME IInv, Requests, Write PROVE Requests'
<1> DEFINE o == ClientOf(writing)
           out == connections[writing].wbuf
           n == LesserOf(Room(o), Len(out))
<1>1. /\ sock' = [sock EXCEPT ![o].outbox = @ \o SubSeq(out, 1, n)]
      /\ connections' = [connections EXCEPT ![writing].wbuf = SubSeq(out, n + 1, Len(out))]
      /\ UNCHANGED <<client, backlog, executed, replies>>
  BY DEF Write, outside
<1> HIDE DEF o, out, n
<1>2. DOMAIN sock = Client /\ \A d \in Client : {"fd", "inbox"} \subseteq DOMAIN sock[d]
  BY DEF IInv, Shapes, Requests, Fields
<1>3. Fields'
  <2>1. \A d \in Client : "inbox" \in DOMAIN sock'[d]
    BY <1>1, <1>2
  <2>2. \A fd \in DOMAIN connections' : "rbuf" \in DOMAIN connections'[fd]
    BY <1>1 DEF Requests, Fields
  <2> QED BY <1>1, <2>1, <2>2 DEF Requests, Fields
<1>4. \A fd \in DOMAIN connections : connections'[fd].rbuf = connections[fd].rbuf
  BY <1>1 DEF Requests, Fields
<1>5. ASSUME NEW d \in Client PROVE RequestsOf(d)'
  <2>1. sock'[d].fd = sock[d].fd /\ sock'[d].inbox = sock[d].inbox
    BY <1>1, <1>2
  <2>2. Gathered(d)' = Gathered(d)
    BY <1>4, <2>1, SameRead
  <2>3. Undisturbed(d)
    BY <1>1, <2>1, <2>2 DEF Undisturbed
  <2> QED BY <2>3, UndisturbedKeeps DEF Requests
<1> QED BY <1>3, <1>5 DEF Requests

LEMMA IdleRequests ==
    ASSUME IInv, Requests, UNCHANGED <<client, sock, backlog, connections, executed, replies>>
    PROVE  Requests'
<1>1. Fields'
  BY DEF Requests, Fields
<1>2. ASSUME NEW c \in Client PROVE RequestsOf(c)'
  <2>1. Gathered(c)' = Gathered(c)
    BY SameRead
  <2>2. Undisturbed(c)
    BY <2>1 DEF Undisturbed
  <2> QED BY <2>2, UndisturbedKeeps DEF Requests
<1> QED BY <1>1, <1>2 DEF Requests

\* A read leaves b in the buffer of c, ex of its commands and rep of its replies.
Leaves(c, b, ex, rep) ==
    LET fd == sock[c].fd
    IN /\ fd \in DOMAIN connections /\ client[c].phase \in {"away", "connected"}
       /\ sock' = [sock EXCEPT ![c].inbox = <<>>]
       /\ DOMAIN connections' = DOMAIN connections
       /\ \A x \in DOMAIN connections : x # fd => connections'[x] = connections[x]
       /\ connections'[fd].rbuf = b /\ "rbuf" \in DOMAIN connections'[fd]
       /\ DOMAIN executed' = Client /\ DOMAIN replies' = Client
       /\ \A d \in Client : d # c => executed'[d] = executed[d] /\ replies'[d] = replies[d]
       /\ executed'[c] = ex /\ replies'[c] = rep
       /\ IsSeq(b) /\ IsSeq(rep)
       /\ Heard(client[c].script, client[c].unsent, b, ex, Script[c])
       /\ c \in Patient => Waits(client[c].script, client[c].unsent, b, ex, Len(rep), Script[c])

LEMMA ReadsOne == ASSUME IInv, Requests, Read PROVE \E c \in Client : \E b, ex, rep : Leaves(c, b, ex, rep)
<1> DEFINE fd == Head(events)
           c  == ClientOf(fd)
           b  == connections[fd].rbuf \o sock[c].inbox
           args == Arguments(b)
           sc == client[c].script
           un == client[c].unsent
           ex == executed[c]
           rep == replies[c]
           full == Script[c]
           n == Len(rep)
           r  == execute(data, args).reply
           What(a, e, p) ==
              /\ DOMAIN connections' = DOMAIN connections
              /\ \A x \in DOMAIN connections : x # fd => connections'[x] = connections[x]
              /\ connections'[fd].rbuf = a /\ "rbuf" \in DOMAIN connections'[fd]
              /\ DOMAIN executed' = Client /\ DOMAIN replies' = Client
              /\ \A d \in Client : d # c => executed'[d] = executed[d] /\ replies'[d] = replies[d]
              /\ executed'[c] = e /\ replies'[c] = p
              /\ IsSeq(a) /\ IsSeq(p)
              /\ Heard(sc, un, a, e, full)
              /\ c \in Patient => Waits(sc, un, a, e, Len(p), full)
<1>1. fd \in DOMAIN connections
  <2>1. Taken /\ fd # listen_fd
    BY TakesFirst DEF Read
  <2> QED BY <2>1 DEF Taken
<1>2. c \in Client /\ sock[c].fd = fd /\ fd # NoFd
  BY <1>1, Owner, Descriptors DEF IInv, Consistent, Table
<1>3. client[c].phase \in {"away", "connected"} /\ Asking(c)
  <2>1. client[c].phase # "gone"
    BY DEF Read
  <2> HIDE DEF fd, c
  <2> QED BY <1>2, <2>1 DEF Requests, RequestsOf
<1>4. sock' = [sock EXCEPT ![c].inbox = <<>>]
  BY DEF Read
<1>5. Unparsed(c) = b
  BY <1>2 DEF Unparsed, Gathered, Open
<1>6. /\ IsSeq(b) /\ IsSeq(rep)
      /\ Heard(sc, un, b, ex, full) /\ (c \in Patient => Waits(sc, un, b, ex, n, full))
  <2>1. IsSeq(Gathered(c)) /\ IsSeq(sock[c].inbox) /\ IsSeq(rep)
    BY <1>3 DEF Asking
  <2>2. IsSeq(Gathered(c) \o sock[c].inbox)
    BY <2>1, Concats
  <2> HIDE DEF b
  <2> QED BY <1>3, <1>5, <2>1, <2>2 DEF Asking, Unparsed
<1>7. IsSeq(<<>>)
  BY SoundEmpty DEF Sound
<1>8. ASSUME NEW x PROVE IsSeq(Append(rep, x)) /\ Len(Append(rep, x)) = n + 1
  <2> HIDE DEF rep
  <2>1. rep \in Seq(ToSet(rep) \cup {x})
    BY <1>6, IsSeqOver
  <2>2. Append(rep, x) \in Seq(ToSet(rep) \cup {x}) /\ Len(Append(rep, x)) = Len(rep) + 1
    BY <2>1, AppendProperties
  <2> QED BY <2>2, SeqIsSeq
<1>9. DOMAIN executed = Client /\ DOMAIN replies = Client /\ "rbuf" \in DOMAIN connections[fd]
  BY <1>1 DEF Requests, Fields
<1>10. \/ /\ parse(b) = "COMPLETE"
          /\ executed' = [executed EXCEPT ![c] = Append(@, args)]
          /\ Respond(c, fd, r, <<>>)
       \/ /\ parse(b) = "ERROR"
          /\ Respond(c, fd, Error, <<>>) /\ executed' = executed
       \/ /\ parse(b) = "INCOMPLETE"
          /\ connections' = [connections EXCEPT ![fd].rbuf = b]
          /\ executed' = executed /\ replies' = replies
  BY DEF Read, consumeInput
<1> HIDE DEF fd, c, b, args, sc, un, ex, rep, full, n, r
<1>11. ASSUME NEW y, NEW e, Respond(c, fd, y, <<>>), DOMAIN executed' = Client, executed'[c] = e,
              \A d \in Client : d # c => executed'[d] = executed[d],
              Heard(sc, un, <<>>, e, full),
              c \in Patient => Waits(sc, un, <<>>, e, n + 1, full)
       PROVE  What(<<>>, e, Append(rep, y))
  <2>1. /\ DOMAIN connections' = DOMAIN connections
        /\ \A x \in DOMAIN connections : x # fd => connections'[x] = connections[x]
        /\ connections'[fd].rbuf = <<>> /\ "rbuf" \in DOMAIN connections'[fd]
    BY <1>1, <1>9, <1>11 DEF Respond
  <2>2. /\ DOMAIN replies' = Client /\ replies'[c] = Append(rep, y)
        /\ \A d \in Client : d # c => replies'[d] = replies[d]
    BY <1>2, <1>9, <1>11 DEF Respond, rep
  <2>3. IsSeq(Append(rep, y)) /\ Len(Append(rep, y)) = n + 1
    BY <1>8
  <2> QED BY <1>7, <1>11, <2>1, <2>2, <2>3
<1>12. \E a, e, p : What(a, e, p)
  <2>1. CASE /\ parse(b) = "COMPLETE"
             /\ executed' = [executed EXCEPT ![c] = Append(@, args)]
             /\ Respond(c, fd, r, <<>>)
    <3>1. /\ DOMAIN executed' = Client /\ executed'[c] = Append(ex, args)
          /\ \A d \in Client : d # c => executed'[d] = executed[d]
      BY <1>2, <1>9, <2>1 DEF ex
    <3>2. Heard(sc, un, <<>>, Append(ex, args), full)
      BY <1>6, <2>1, HeardRun DEF args
    <3>3. c \in Patient => Waits(sc, un, <<>>, Append(ex, args), n + 1, full)
      BY <1>6, <2>1, WaitsRead DEF args
    <3> HIDE DEF What
    <3> QED BY <1>11, <2>1, <3>1, <3>2, <3>3
  <2>2. CASE parse(b) = "ERROR" /\ Respond(c, fd, Error, <<>>) /\ executed' = executed
    <3>1. /\ DOMAIN executed' = Client /\ executed'[c] = ex
          /\ \A d \in Client : d # c => executed'[d] = executed[d]
      BY <1>9, <2>2 DEF ex
    <3>2. Heard(sc, un, <<>>, ex, full)
      BY <1>6, HeardDrop
    <3>3. c \notin Patient
      BY <1>6, <2>2, WaitsRead
    <3> HIDE DEF What
    <3> QED BY <1>11, <2>2, <3>1, <3>2, <3>3
  <2>3. CASE /\ connections' = [connections EXCEPT ![fd].rbuf = b]
             /\ executed' = executed /\ replies' = replies
    <3>1. /\ DOMAIN connections' = DOMAIN connections
          /\ \A x \in DOMAIN connections : x # fd => connections'[x] = connections[x]
          /\ connections'[fd].rbuf = b /\ "rbuf" \in DOMAIN connections'[fd]
      BY <1>1, <1>9, <2>3
    <3>2. What(b, ex, rep)
      BY <1>6, <1>9, <2>3, <3>1 DEF ex, rep, n
    <3> QED BY <3>2
  <2> QED BY <1>10, <2>1, <2>2, <2>3
<1>13. PICK a, e, p : What(a, e, p)
  BY <1>12
<1> QED BY <1>1, <1>2, <1>3, <1>4, <1>13 DEF Leaves, sc, un, full

LEMMA ReadRequests == ASSUME IInv, Requests, Read PROVE Requests'
<1>0. PICK c \in Client : \E b, ex, rep : Leaves(c, b, ex, rep)
  BY ReadsOne
<1>1. PICK b, ex, rep : Leaves(c, b, ex, rep)
  BY <1>0
<1> USE DEF Leaves
<1>2. UNCHANGED <<client, backlog>>
  BY DEF Read, outside
<1>3. DOMAIN sock = Client /\ \A d \in Client : {"fd", "inbox"} \subseteq DOMAIN sock[d]
  BY DEF IInv, Shapes, Requests, Fields
<1>4. /\ \A d \in Client : sock'[d].fd = sock[d].fd
      /\ \A d \in Client : d # c => sock'[d].inbox = sock[d].inbox
      /\ sock'[c].inbox = <<>>
  BY <1>1, <1>3
<1>5. Fields'
  <2>1. \A d \in Client : "inbox" \in DOMAIN sock'[d]
    BY <1>1, <1>3
  <2>2. \A fd \in DOMAIN connections' : "rbuf" \in DOMAIN connections'[fd]
    BY <1>1 DEF Requests, Fields
  <2> QED BY <1>1, <1>2, <2>1, <2>2 DEF Requests, Fields
<1>6. ASSUME NEW d \in Client, d # c PROVE RequestsOf(d)'
  <2>1. sock[d].fd # sock[c].fd
    <3>1. sock[c].fd \in FD /\ sock[c].fd # NoFd
      BY <1>1, Descriptors DEF IInv, Consistent, Table
    <3> QED BY <1>6, <3>1 DEF IInv, Consistent, Table, Fds
  <2>2. Gathered(d)' = Gathered(d)
    <3>1. \A x \in DOMAIN connections : x # sock[c].fd => connections'[x] = connections[x]
      BY <1>1
    <3>2. sock'[d].fd = sock[d].fd
      BY <1>4
    <3> QED BY <2>1, <3>1, <3>2, ElsewhereRead, ZenonT(30)
  <2>3. Undisturbed(d)
    BY <1>1, <1>2, <1>4, <1>6, <2>2 DEF Undisturbed
  <2> QED BY <2>3, UndisturbedKeeps DEF Requests
<1>7. RequestsOf(c)'
  <2>1. sock[c].fd # NoFd
    BY <1>1, Descriptors DEF IInv, Consistent, Table
  <2>2. Gathered(c)' = b
    BY <1>1, <1>4, <2>1 DEF Gathered, Open
  <2>3. Unparsed(c)' = b
    <3>1. b \in Seq(ToSet(b))
      BY <1>1 DEF IsSeq
    <3>2. b \o <<>> = b
      BY <3>1, ConcatEmptySeq
    <3> QED BY <1>4, <2>2, <3>2 DEF Unparsed
  <2>4. IsSeq(<<>>)
    BY SoundEmpty DEF Sound
  <2>5. Asking(c)'
    BY <1>1, <1>2, <1>4, <2>2, <2>3, <2>4 DEF Asking
  <2>6. (Ran(c) /\ IsSeq(executed[c]))'
    BY <2>5, AskingRan, PTL
  <2> QED BY <1>1, <1>2, <2>5, <2>6 DEF RequestsOf
<1> QED BY <1>5, <1>6, <1>7 DEF Requests

LEMMA InitRequests == Init => Requests
<1> SUFFICES ASSUME Init PROVE Requests
  OBVIOUS
<1>1. /\ client = [c \in Client |->
             [phase |-> "away", script |-> Script[c], unsent |-> <<>>, got |-> <<>>]]
      /\ sock = [c \in Client |-> [inbox |-> <<>>, outbox |-> <<>>, fd |-> NoFd]]
      /\ connections = <<>> /\ executed = [c \in Client |-> <<>>]
      /\ replies = [c \in Client |-> <<>>]
  BY DEF Init
<1>2. Fields
  BY <1>1 DEF Fields
<1>3. ASSUME NEW c \in Client PROVE RequestsOf(c)
  <2> DEFINE full == Script[c]
  <2>1. IsSeq(<<>>) /\ AllBulk(<<>>) /\ Len(<<>>) = 0 /\ <<>> \o <<>> = <<>>
    BY SoundEmpty DEF Sound, AllBulk
  <2>2. /\ client[c].phase = "away" /\ client[c].script = full /\ client[c].unsent = <<>>
        /\ Gathered(c) = <<>> /\ sock[c].inbox = <<>> /\ executed[c] = <<>> /\ replies[c] = <<>>
    BY <1>1 DEF Gathered, Open
  <2>3. IsSeq(full) /\ \A i \in DOMAIN full : IsSeq(full[i])
    BY ScriptAssumption DEF IsSeq
  <2> HIDE DEF full
  <2>4. Len(full) \in Nat
    BY <2>3 DEF IsSeq
  <2>5. Begun(full, full) = 0
    BY <2>4 DEF Begun
  <2>6. ScriptLeft(full, full)
    <3>1. \A i \in 1 .. Len(full) : 0 + i = i
      BY <2>4
    <3> QED BY <2>3, <2>4, <2>5, <3>1 DEF ScriptLeft
  <2>7. Picked(<<>>, full, 0)
    <3> DEFINE at == [i \in {} |-> 0]
    <3>1. DOMAIN <<>> = {} /\ at \in [{} -> 1 .. 0]
      OBVIOUS
    <3> HIDE DEF at
    <3> QED BY <3>1 DEF Picked
  <2>8. Heard(full, <<>>, <<>>, <<>>, full)
    BY <2>1, <2>5, <2>6, <2>7 DEF Heard
  <2>9. Waits(full, <<>>, <<>>, <<>>, 0, full)
    BY <2>1, <2>5 DEF Waits, Idle
  <2>10. Asking(c)
    BY <2>1, <2>2, <2>8, <2>9 DEF Asking, Unparsed, full
  <2> QED BY <2>2, <2>10, AskingRan DEF RequestsOf
<1> QED BY <1>2, <1>3 DEF Requests

\* The commands of a client that waits are its first requests.
LEMMA FirstOnes ==
    ASSUME NEW s, IsSeq(s), NEW t, IsSeq(t), Len(s) <= Len(t),
           \A i \in 1 .. Len(s) : s[i] = t[i]
    PROVE  IsPrefix(s, t)
<1>1. /\ Len(s) \in Nat /\ Len(t) \in Nat /\ DOMAIN s = 1 .. Len(s) /\ DOMAIN t = 1 .. Len(t)
      /\ s \in Seq(ToSet(s)) /\ t \in Seq(ToSet(t))
  BY DEF IsSeq
<1>2. DOMAIN s \subseteq DOMAIN t
  BY <1>1
<1>3. SubSeq(t, 1, Len(s)) = s
  <2> DEFINE u == SubSeq(t, 1, Len(s))
  <2>1. u \in Seq(ToSet(t)) /\ Len(u) = Len(s) /\ \A i \in 1 .. Len(u) : u[i] = t[i]
    BY <1>1
  <2> HIDE DEF u
  <2> QED BY <1>1, <2>1 DEF u
<1> QED BY <1>1, <1>2, <1>3 DEF IsPrefix, IsSeq

LEMMA RequestsOnly == Requests => OnlyRequestsRun
<1> SUFFICES ASSUME Requests, NEW c \in Client
             PROVE  /\ PickedFrom(executed[c], Script[c])
                    /\ c \in Patient => /\ IsPrefix(executed[c], Script[c])
                                        /\ Len(replies[c]) = Len(executed[c])
  BY DEF OnlyRequestsRun
<1>1. Ran(c) /\ IsSeq(executed[c])
  BY DEF Requests, RequestsOf
<1>2. IsSeq(Script[c]) /\ DOMAIN Script[c] = 1 .. Len(Script[c])
  BY ScriptAssumption DEF IsSeq
<1>3. PickedFrom(executed[c], Script[c])
  BY <1>1, <1>2 DEF Ran, Picked, PickedFrom
<1>4. ASSUME c \in Patient
      PROVE  IsPrefix(executed[c], Script[c]) /\ Len(replies[c]) = Len(executed[c])
  BY <1>1, <1>2, <1>4, FirstOnes DEF Ran
<1> QED BY <1>3, <1>4

(* For every number of clients and descriptors, whatever they send and
   however it is cut and joined on its way: what is executed for a client are
   requests it sent, in order, none twice (RespParser::parse, consumeInput,
   Server::run).  *)
THEOREM RequestsInOrder == Spec => []OnlyRequestsRun
<1>1. IInv /\ Requests /\ [Next]_vars => Requests'
  <2> SUFFICES ASSUME IInv, Requests, [Next]_vars PROVE Requests'
    OBVIOUS
  <2>1. ASSUME NEW c \in Client, Connect(c) \/ Send(c) \/ Receive(c) \/ HangUp(c) PROVE Requests'
    BY <2>1, ConnectRequests, SendRequests, ReceiveRequests, HangUpRequests
  <2>2. CASE Wait \/ AcceptFails \/ UNCHANGED vars
    BY <2>2, IdleRequests DEF Wait, AcceptFails, vars
  <2>3. CASE Server
    BY <2>2, <2>3, AcceptRequests, RefuseRequests, DisconnectRequests, ReadRequests,
       WriteRequests, WriteFailsRequests DEF Server
  <2> QED BY <2>1, <2>2, <2>3 DEF Next
<1> QED BY <1>1, InitRequests, RequestsOnly, Invariance, PTL DEF Spec
=============================================================================
