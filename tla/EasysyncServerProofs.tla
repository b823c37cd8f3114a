------------------------ MODULE EasysyncServerProofs ------------------------
(***************************************************************************)
(* Theorems about module EasysyncServer, for any sockets, clients, names,  *)
(* limit and bounds.  Bookkeeping is the inductive invariant that holds    *)
(* whatever the surroundings do; Alignment adds to it what holds when no   *)
(* host connects over a connection of its own, no two instants are equal   *)
(* and nobody changes settings; Presence adds what holds while nobody      *)
(* leaves.                                                                 *)
(***************************************************************************)
EXTENDS EasysyncServer, OperatorProofs

Enlisted(c) == \E i \in DOMAIN clientConnections : clientConnections[i] = c

\* No connection is in the lists twice.
NoConnectionTwice ==
  \A i, j \in DOMAIN clientConnections : clientConnections[i] = clientConnections[j] => i = j

\* clientLastSeen never outgrows clientConnections, so that the first loop of
\* checkClientsConnection stays in range even when the lists disagree.
SeenWithinConnections == Len(clientLastSeen) <= Len(clientConnections)

\* A listed connection has been accepted and its socket object exists.
EnlistedAreOpen == \A c \in Sockets : Enlisted(c) => sock[c] \in {"open", "closing"}

\* A greeting is the first line of a connection that is not listed yet.
GreetsOnce ==
  \A c \in Sockets : \A k \in DOMAIN toServer[c] :
    toServer[c][k].kind = "greet" => k = 1 /\ ~Enlisted(c)

Bookkeeping ==
  /\ TypeOK
  /\ KeepAliveRuns
  /\ NoConnectionTwice
  /\ SeenWithinConnections
  /\ EnlistedAreOpen
  /\ GreetsOnce

\* Connections that exist belong to different hosts.
HostsApart ==
  \A c, d \in Sockets :
    sock[c] # "none" /\ sock[d] # "none" /\ peer[c].host = peer[d].host => c = d

\* A line carries the host name of the client that sent it.
LinesNamed ==
  \A c \in Sockets : \A k \in DOMAIN toServer[c] : toServer[c][k].host = peer[c].host

Alignment ==
  /\ Bookkeeping
  /\ ListsParallel
  /\ HostsApart
  /\ LinesNamed

-----------------------------------------------------------------------------
(* Bookkeeping: the initial state and the steps that do not end connections. *)

LEMMA SomeClientType == SomeClient \in Clients
BY ServerAssumption DEF SomeClient

LEMMA ClientNames ==
  \A client \in Clients : client.user \in Usernames /\ client.host \in Hostnames
BY ServerAssumption

LEMMA EmptyTypes ==
  /\ \A S : << >> \in Seq(S)
  /\ 0 \in Nat /\ TRUE \in BOOLEAN /\ FALSE \in BOOLEAN
  /\ "none" \in {"none", "queued", "open", "closing"}
  /\ \A x, S : x \in S => [c \in Sockets |-> x] \in [Sockets -> S]
OBVIOUS

LEMMA BookkeepingInit == Init => Bookkeeping
<1> SUFFICES ASSUME Init PROVE Bookkeeping
  OBVIOUS
<1> USE DEF Init
<1>1. TypeOK
  BY SomeClientType, EmptyTypes, ServerAssumption, Zenon DEF TypeOK
<1>2. KeepAliveRuns
  BY DEF KeepAliveRuns
<1>3. NoConnectionTwice /\ EnlistedAreOpen /\ GreetsOnce
  BY DEF NoConnectionTwice, EnlistedAreOpen, GreetsOnce, Enlisted
<1>4. SeenWithinConnections
  BY DEF SeenWithinConnections
<1>5. QED
  BY <1>1, <1>2, <1>3, <1>4 DEF Bookkeeping

\* The end of the process leaves nothing to keep books of.
LEMMA BookkeepingEnds ==
  ASSUME Bookkeeping, ProcessEnds, users' \subseteq Usernames, hosts' \in Seq(Row)
  PROVE  Bookkeeping'
<1> USE DEF ProcessEnds
<1>1. TypeOK'
  BY SomeClientType, EmptyTypes, Zenon DEF Bookkeeping, TypeOK
<1>2. KeepAliveRuns'
  BY DEF KeepAliveRuns
<1>3. NoConnectionTwice' /\ EnlistedAreOpen' /\ GreetsOnce'
  BY DEF NoConnectionTwice, EnlistedAreOpen, GreetsOnce, Enlisted
<1>4. SeenWithinConnections'
  BY DEF SeenWithinConnections
<1>5. QED
  BY <1>1, <1>2, <1>3, <1>4 DEF Bookkeeping

\* Steps of the controller, the network and the clients leave the lists alone.
LEMMA BookkeepingListsKept ==
  ASSUME Bookkeeping, TypeOK', UNCHANGED << lists, keepAliveTimer >>,
         \A c \in Sockets : Enlisted(c) => sock'[c] \in {"open", "closing"},
         \A c \in Sockets : \A k \in DOMAIN toServer'[c] :
           toServer'[c][k].kind = "greet" => k = 1 /\ ~Enlisted(c)
  PROVE  Bookkeeping'
<1>1. KeepAliveRuns' /\ NoConnectionTwice' /\ SeenWithinConnections'
  BY DEF Bookkeeping, KeepAliveRuns, NoConnectionTwice, SeenWithinConnections, lists
<1>2. \A c : Enlisted(c)' <=> Enlisted(c)
  BY DEF Enlisted, lists
<1>3. EnlistedAreOpen' /\ GreetsOnce'
  BY <1>2 DEF EnlistedAreOpen, GreetsOnce
<1>4. QED
  BY <1>1, <1>3 DEF Bookkeeping

LEMMA BookkeepingProcess ==
  ASSUME Bookkeeping,
         \/ Stop \/ Start \/ Pause \/ Resume
         \/ \E username \in Usernames : AddUser(username)
  PROVE  Bookkeeping'
<1>1. CASE Stop
  <2>1. users' \subseteq Usernames /\ hosts' \in Seq(Row)
    BY <1>1 DEF Stop, db, Bookkeeping, TypeOK
  <2>2. QED
    BY <1>1, <2>1, BookkeepingEnds DEF Stop
<1>2. CASE Start \/ Pause \/ Resume
  <2>1. UNCHANGED << db, network, lists, keepAliveTimer, mustDisconnect, traffic >>
    BY <1>2 DEF Start, Pause, Resume
  <2>2. up' \in BOOLEAN /\ disabled' \in BOOLEAN
    BY <1>2 DEF Start, Pause, Resume, Bookkeeping, TypeOK
  <2>3. TypeOK'
    BY <2>1, <2>2 DEF Bookkeeping, TypeOK, db, network, lists, traffic
  <2>4. QED
    BY <2>1, <2>3, BookkeepingListsKept
       DEF Bookkeeping, EnlistedAreOpen, GreetsOnce, network, traffic
<1>3. ASSUME NEW username \in Usernames, AddUser(username)
      PROVE  Bookkeeping'
  <2>1. UNCHANGED << process, network, lists, keepAliveTimer, mustDisconnect, traffic >>
    BY <1>3 DEF AddUser
  <2>2. users' \subseteq Usernames /\ hosts' \in Seq(Row)
    BY <1>3 DEF AddUser, addUser, createTables, Bookkeeping, TypeOK
  <2>3. TypeOK'
    BY <2>1, <2>2 DEF Bookkeeping, TypeOK, process, network, lists, traffic
  <2>4. QED
    BY <2>1, <2>3, BookkeepingListsKept
       DEF Bookkeeping, EnlistedAreOpen, GreetsOnce, network, traffic
<1>4. QED
  BY <1>1, <1>2, <1>3

Message == [kind : Kinds, user : Usernames, host : Hostnames]

LEMMA LineType ==
  ASSUME NEW kind \in Kinds, NEW client \in Clients
  PROVE  /\ Line(kind, client) \in Message
         /\ Line(kind, client).kind = kind /\ Line(kind, client).host = client.host
BY ClientNames DEF Line, Message

\* One more connection: it is not listed, and its first line may be a greeting.
LEMMA BookkeepingConnect ==
  ASSUME Bookkeeping, NEW c \in Sockets, NEW client \in Clients, Connect(c, client)
  PROVE  Bookkeeping'
<1> USE DEF Connect
<1>1. PICK line \in Message : toServer' = [toServer EXCEPT ![c] = << line >>]
  BY LineType DEF Kinds
<1>2. TypeOK'
  <2>1. << line >> \in Seq(Message)
    OBVIOUS
  <2>2. toServer' \in [Sockets -> Seq(Message)]
    BY <1>1, <2>1 DEF Bookkeeping, TypeOK, Message
  <2>3. /\ sock' \in [Sockets -> {"none", "queued", "open", "closing"}]
        /\ alive' \in [Sockets -> BOOLEAN] /\ peer' \in [Sockets -> Clients]
        /\ newConnection' \in BOOLEAN
    BY DEF Bookkeeping, TypeOK
  <2>4. QED
    BY <2>2, <2>3 DEF Bookkeeping, TypeOK, Message, process, db, lists
<1>3. ~Enlisted(c)
  BY DEF Bookkeeping, EnlistedAreOpen
<1>4. \A d \in Sockets : Enlisted(d) => sock'[d] \in {"open", "closing"}
  BY <1>3 DEF Bookkeeping, EnlistedAreOpen, TypeOK
<1>5. \A d \in Sockets : \A k \in DOMAIN toServer'[d] :
        toServer'[d][k].kind = "greet" => k = 1 /\ ~Enlisted(d)
  <2> TAKE d \in Sockets
  <2>1. CASE d = c
    BY <1>1, <1>3, <2>1 DEF Bookkeeping, TypeOK
  <2>2. CASE d # c
    BY <1>1, <2>2 DEF Bookkeeping, TypeOK, GreetsOnce
  <2>3. QED
    BY <2>1, <2>2
<1>6. QED
  BY <1>2, <1>4, <1>5, BookkeepingListsKept

\* Lines that a connected client sends are no greetings.
LEMMA BookkeepingSend ==
  ASSUME Bookkeeping, NEW c \in Sockets, NEW kind \in {"ping", "roger", "notifyAll"}, Send(c, kind)
  PROVE  Bookkeeping'
<1> DEFINE line == Line(kind, peer[c])
<1>1. line \in Message /\ line.kind # "greet"
  BY LineType DEF Kinds, Bookkeeping, TypeOK
<1>2. toServer' = [toServer EXCEPT ![c] = Append(toServer[c], line)]
  BY DEF Send
<1> HIDE DEF line
<1>3. toServer[c] \in Seq(Message)
  BY DEF Bookkeeping, TypeOK, Message
<1>4. /\ Append(toServer[c], line) \in Seq(Message)
      /\ DOMAIN Append(toServer[c], line) = 1 .. Len(toServer[c]) + 1
      /\ \A k \in 1 .. Len(toServer[c]) : Append(toServer[c], line)[k] = toServer[c][k]
      /\ Append(toServer[c], line)[Len(toServer[c]) + 1] = line
      /\ DOMAIN toServer[c] = 1 .. Len(toServer[c]) /\ Len(toServer[c]) \in Nat
  BY <1>1, <1>3, AppendProperties, LenProperties
<1>5. toServer' \in [Sockets -> Seq(Message)]
  BY <1>2, <1>4 DEF Bookkeeping, TypeOK, Message
<1>6. UNCHANGED << process, db, network, lists, keepAliveTimer, mustDisconnect, arrived, toClient >>
  BY DEF Send
<1>7. TypeOK'
  BY <1>5, <1>6 DEF Bookkeeping, TypeOK, Message, process, db, network, lists
<1>8. \A d \in Sockets : Enlisted(d) => sock'[d] \in {"open", "closing"}
  BY <1>6 DEF Bookkeeping, EnlistedAreOpen, network
<1>9. \A d \in Sockets : \A k \in DOMAIN toServer'[d] :
        toServer'[d][k].kind = "greet" => k = 1 /\ ~Enlisted(d)
  <2> TAKE d \in Sockets
  <2>1. CASE d = c
    <3>1. toServer'[d] = Append(toServer[c], line)
      BY <1>2, <2>1 DEF Bookkeeping, TypeOK
    <3>2. QED
      BY <1>1, <1>4, <2>1, <3>1 DEF Bookkeeping, GreetsOnce
  <2>2. CASE d # c
    BY <1>2, <2>2 DEF Bookkeeping, TypeOK, GreetsOnce
  <2>3. QED
    BY <2>1, <2>2
<1>10. QED
  BY <1>6, <1>7, <1>8, <1>9, BookkeepingListsKept

\* Steps that touch neither the lists nor the lines nor a socket's life.
LEMMA BookkeepingAside ==
  ASSUME Bookkeeping, NEW c \in Sockets,
         \/ ReadNotice(c) \/ Vanish(c) \/ ArriveUnread(c)
         \/ \E client \in Clients : ChangeSettings(c, client)
  PROVE  Bookkeeping'
<1>1. UNCHANGED << process, db, sock, newConnection, lists, keepAliveTimer, mustDisconnect, toServer >>
  BY DEF ReadNotice, Vanish, ArriveUnread, ChangeSettings, network, traffic
<1>2. /\ alive' \in [Sockets -> BOOLEAN] /\ peer' \in [Sockets -> Clients]
      /\ arrived' \in [Sockets -> Nat] /\ toClient' \in [Sockets -> Seq(Hostnames)]
  <2>1. CASE ReadNotice(c)
    <3>1. toClient[c] \in Seq(Hostnames) /\ toClient[c] # << >>
      BY <2>1 DEF ReadNotice, Bookkeeping, TypeOK
    <3>2. Tail(toClient[c]) \in Seq(Hostnames)
      BY <3>1, HeadTailProperties
    <3>3. QED
      BY <2>1, <3>2 DEF ReadNotice, Bookkeeping, TypeOK, network
  <2>2. CASE Vanish(c)
    BY <2>2 DEF Vanish, Bookkeeping, TypeOK, traffic
  <2>3. CASE ArriveUnread(c)
    <3>1. Len(toServer[c]) \in Nat
      BY LenProperties DEF Bookkeeping, TypeOK
    <3>2. QED
      BY <2>3, <3>1 DEF ArriveUnread, Bookkeeping, TypeOK, network
  <2>4. CASE \E client \in Clients : ChangeSettings(c, client)
    BY <2>4 DEF ChangeSettings, Bookkeeping, TypeOK, traffic
  <2>5. QED
    BY <2>1, <2>2, <2>3, <2>4
<1>3. TypeOK'
  BY <1>1, <1>2 DEF Bookkeeping, TypeOK, process, db, lists
<1>4. QED
  BY <1>1, <1>3, BookkeepingListsKept DEF Bookkeeping, EnlistedAreOpen, GreetsOnce

\* Accepting opens queued connections, none of which is listed.
LEMMA BookkeepingAccept ==
  ASSUME Bookkeeping, handleNewConnection
  PROVE  Bookkeeping'
<1> USE DEF handleNewConnection
<1>1. sock' \in [Sockets -> {"none", "queued", "open", "closing"}]
  BY DEF Bookkeeping, TypeOK
<1>2. TypeOK'
  BY <1>1 DEF Bookkeeping, TypeOK, process, db, lists, traffic
<1>3. \A d \in Sockets : Enlisted(d) => sock'[d] \in {"open", "closing"}
  BY DEF Bookkeeping, EnlistedAreOpen
<1>4. QED
  BY <1>2, <1>3, BookkeepingListsKept DEF Bookkeeping, GreetsOnce, traffic

-----------------------------------------------------------------------------
(* Bookkeeping: steps that end a connection.                               *)

\* What removeAll takes from clientLastSeen holds the position it was called for.
LEMMA ForgottenHolds ==
  ASSUME NEW seen, NEW index, NEW same \in Forgotten(seen, index), InRange(seen, index)
  PROVE  index + 1 \in same
BY DEF Forgotten, EqualInstants

\* The slot leaves the books in order when it finds the lists as a handler may
\* leave them: no connection twice, no more instants than connections, and apart
\* from its own connection only listed ones.
LEMMA BookkeepingLeave ==
  ASSUME Bookkeeping, NEW c \in Sockets, NEW rest \in Seq(Sockets),
         NEW connections \in Seq(Sockets), NEW names \in Seq(Hostnames), NEW seen \in Seq(Silence),
         \A i, j \in DOMAIN connections : connections[i] = connections[j] => i = j,
         \A i \in DOMAIN connections : connections[i] = c \/ Enlisted(connections[i]),
         Enlisted(c) => \E i \in DOMAIN connections : connections[i] = c,
         Len(seen) <= Len(connections),
         Leave(c, rest, connections, names, seen)
  PROVE  Bookkeeping'
<1> DEFINE socketId == indexOf(connections, c)
           Stays == /\ SocketGone(c)
                    /\ socketId = -1
                    /\ UNCHANGED << lists, hosts >>
                    /\ keepAliveTimer' = (keepAliveTimer /\ clientConnections' # << >>)
                    /\ mustDisconnect' = rest
                    /\ UNCHANGED << process, users >>
           Goes(hostname, same) ==
                    /\ SocketGone(c)
                    /\ socketId # -1
                    /\ clientConnections' = removeAll(connections, c)
                    /\ Update("unstored", hosts, voidConnection(hosts, hostname))
                    /\ peerNames' = removeAll(names, hostname)
                    /\ clientLastSeen' = Keep(seen, DOMAIN seen \ same)
                    /\ keepAliveTimer' = (keepAliveTimer /\ clientConnections' # << >>)
                    /\ mustDisconnect' = rest
                    /\ UNCHANGED << process, users >>
           Fails == ProcessEnds /\ UNCHANGED db
<1>1. \/ Stays
      \/ \E hostname \in at(names, socketId, Hostnames), same \in Forgotten(seen, socketId) :
           Goes(hostname, same)
      \/ Fails
  BY DEF Leave
<1>2. CASE Fails
  <2>1. users' \subseteq Usernames /\ hosts' \in Seq(Row)
    BY <1>2 DEF db, Bookkeeping, TypeOK
  <2>2. QED
    BY <1>2, <2>1, BookkeepingEnds
<1>3. ASSUME SocketGone(c)
      PROVE  /\ sock' \in [Sockets -> {"none", "queued", "open", "closing"}]
             /\ alive' \in [Sockets -> BOOLEAN] /\ peer' \in [Sockets -> Clients]
             /\ newConnection' \in BOOLEAN
             /\ toServer' \in [Sockets -> Seq(Message)]
             /\ arrived' \in [Sockets -> Nat]
             /\ toClient' \in [Sockets -> Seq(Hostnames)]
             /\ \A d \in Sockets : d # c => sock'[d] = sock[d] /\ toServer'[d] = toServer[d]
             /\ toServer'[c] = << >>
  <2>1. /\ sock' \in [Sockets -> {"none", "queued", "open", "closing"}]
        /\ alive' \in [Sockets -> BOOLEAN] /\ peer' \in [Sockets -> Clients]
        /\ newConnection' \in BOOLEAN
        /\ arrived' \in [Sockets -> Nat]
    BY <1>3, SomeClientType DEF SocketGone, Bookkeeping, TypeOK
  <2>2. toServer' \in [Sockets -> Seq(Message)]
    <3>1. << >> \in Seq(Message)
      OBVIOUS
    <3>2. QED
      BY <1>3, <3>1 DEF SocketGone, Bookkeeping, TypeOK, Message
  <2>3. toClient' \in [Sockets -> Seq(Hostnames)]
    BY <1>3 DEF SocketGone, Bookkeeping, TypeOK
  <2>4. /\ \A d \in Sockets : d # c => sock'[d] = sock[d] /\ toServer'[d] = toServer[d]
        /\ toServer'[c] = << >>
    BY <1>3 DEF SocketGone, Bookkeeping, TypeOK
  <2>5. QED
    BY <2>1, <2>2, <2>3, <2>4
<1>4. CASE Stays
  <2>1. ~Enlisted(c)
    BY <1>4, IndexOfFinds
  <2>2. keepAliveTimer' = keepAliveTimer
    BY <1>4 DEF Bookkeeping, KeepAliveRuns, TypeOK, lists
  <2>3. TypeOK'
    BY <1>3, <1>4, <2>2 DEF Bookkeeping, TypeOK, Message, process, lists
  <2>4. \A d \in Sockets : Enlisted(d) => sock'[d] \in {"open", "closing"}
    BY <1>3, <1>4, <2>1 DEF Bookkeeping, EnlistedAreOpen
  <2>5. \A d \in Sockets : \A k \in DOMAIN toServer'[d] :
          toServer'[d][k].kind = "greet" => k = 1 /\ ~Enlisted(d)
    <3> TAKE d \in Sockets
    <3>1. CASE d = c
      BY <1>3, <1>4, <3>1
    <3>2. CASE d # c
      BY <1>3, <1>4, <3>2 DEF Bookkeeping, GreetsOnce
    <3>3. QED
      BY <3>1, <3>2
  <2>6. UNCHANGED << lists, keepAliveTimer >>
    BY <1>4, <2>2
  <2>7. QED
    BY <2>3, <2>4, <2>5, <2>6, BookkeepingListsKept
<1>5. ASSUME NEW hostname \in at(names, socketId, Hostnames), NEW same \in Forgotten(seen, socketId),
             Goes(hostname, same)
      PROVE  Bookkeeping'
  <2> DEFINE p == socketId + 1
  <2>1. /\ Len(connections) \in Nat /\ DOMAIN connections = 1 .. Len(connections)
        /\ Len(seen) \in Nat /\ DOMAIN seen = 1 .. Len(seen)
    BY LenProperties
  <2>2. socketId \in Int /\ p \in DOMAIN connections /\ connections[p] = c
    BY <1>5, <2>1, IndexOfFinds
  <2>3. \A i \in DOMAIN connections : connections[i] = c <=> i = p
    BY <2>2
  <2>4. /\ clientConnections' \in Seq(Sockets)
        /\ Len(clientConnections') = Len(connections) - 1
        /\ \A i, j \in DOMAIN clientConnections' : clientConnections'[i] = clientConnections'[j] => i = j
        /\ \A i \in DOMAIN clientConnections' :
             clientConnections'[i] # c /\ \E k \in DOMAIN connections : clientConnections'[i] = connections[k]
    <3>1. clientConnections' = removeAll(connections, c)
      BY <1>5
    <3>2. Len(removeAll(connections, c)) = Len(connections) - 1
      BY <2>2, <2>3, RemoveAllOnce
    <3> DEFINE left == removeAll(connections, c)
    <3>3. /\ left \in Seq(Sockets)
          /\ \A i \in DOMAIN left : left[i] # c /\ \E k \in DOMAIN connections : left[i] = connections[k]
      BY RemoveAllType
    <3>4. \A i, j \in DOMAIN left : left[i] = left[j] => i = j
      BY RemoveAllDiffer
    <3> HIDE DEF left
    <3>5. QED
      BY <3>1, <3>2, <3>3, <3>4 DEF left
  <2>5. \A d : Enlisted(d)' => d # c /\ Enlisted(d)
    BY <2>4 DEF Enlisted
  <2>6. clientLastSeen' \in Seq(Silence) /\ Len(clientLastSeen') <= Len(clientConnections')
    <3> DEFINE K == DOMAIN seen \ same
    <3>1. clientLastSeen' = Keep(seen, K) /\ K \in SUBSET DOMAIN seen
      BY <1>5
    <3>2. /\ Keep(seen, K) \in Seq(Silence)
          /\ Len(Keep(seen, K)) = Cardinality(K)
          /\ Cardinality(K) \in Nat /\ Cardinality(K) <= Len(seen)
      BY <3>1, KeepType
    <3>3. CASE InRange(seen, socketId)
      <4>1. p \in DOMAIN seen /\ p \notin K
        BY <3>3, ForgottenHolds DEF InRange
      <4>2. Len(Keep(seen, K)) <= Len(seen) - 1
        BY <3>1, <4>1, KeepShorter
      <4>3. QED
        BY <2>1, <2>4, <3>1, <3>2, <4>2
    <3>4. CASE ~InRange(seen, socketId)
      <4>1. Len(seen) < p
        BY <2>1, <2>2, <3>4 DEF InRange
      <4>2. QED
        BY <2>1, <2>2, <2>4, <3>1, <3>2, <4>1
    <3>5. QED
      BY <3>3, <3>4
  <2>7. hostname \in Hostnames
    <3>1. names \in [1 .. Len(names) -> Hostnames] /\ DOMAIN names = 1 .. Len(names)
      BY LenProperties
    <3>2. QED
      BY <1>5, <3>1 DEF at, InRange
  <2>8. hosts' \in Seq(Row)
    BY <1>5, VoidConnection DEF Bookkeeping, TypeOK, Update
  <2>9. peerNames' \in Seq(Hostnames)
    BY <1>5, RemoveAllType
  <2>10. keepAliveTimer' \in BOOLEAN /\ KeepAliveRuns'
    <3>1. ASSUME clientConnections' # << >>
          PROVE  keepAliveTimer = TRUE
      <4>1. 1 \in DOMAIN clientConnections'
        BY <2>4, <3>1, EmptySeq, LenProperties
      <4>2. PICK k \in DOMAIN connections : connections[k] # c
        BY <2>4, <4>1
      <4>3. Enlisted(connections[k])
        BY <4>2
      <4>4. clientConnections # << >>
        BY <4>3 DEF Enlisted
      <4>5. QED
        BY <4>4 DEF Bookkeeping, KeepAliveRuns, TypeOK
    <3>2. QED
      BY <1>5, <3>1 DEF Bookkeeping, KeepAliveRuns, TypeOK
  <2>11. TypeOK'
    BY <1>3, <1>5, <2>4, <2>6, <2>8, <2>9, <2>10 DEF Bookkeeping, TypeOK, Message, process
  <2>12. NoConnectionTwice' /\ SeenWithinConnections'
    BY <2>4, <2>6 DEF NoConnectionTwice, SeenWithinConnections
  <2>13. EnlistedAreOpen'
    BY <1>3, <1>5, <2>5 DEF Bookkeeping, EnlistedAreOpen
  <2>14. GreetsOnce'
    <3>1. SUFFICES ASSUME NEW d \in Sockets, NEW k \in DOMAIN toServer'[d], toServer'[d][k].kind = "greet"
                   PROVE  k = 1 /\ ~Enlisted(d)'
      BY DEF GreetsOnce
    <3>2. CASE d = c
      BY <1>3, <1>5, <3>1, <3>2
    <3>3. CASE d # c
      BY <1>3, <1>5, <2>5, <3>1, <3>3 DEF Bookkeeping, GreetsOnce
    <3>4. QED
      BY <3>2, <3>3
  <2>15. QED
    BY <2>10, <2>11, <2>12, <2>13, <2>14 DEF Bookkeeping
<1>6. QED
  BY <1>1, <1>2, <1>4, <1>5

\* The slot on the lists as they are.
LEMMA BookkeepingDisconnected ==
  ASSUME Bookkeeping, NEW c \in Sockets, NEW rest \in Seq(Sockets), clientDisconnected(c, rest)
  PROVE  Bookkeeping'
<1>1. /\ clientConnections \in Seq(Sockets) /\ peerNames \in Seq(Hostnames)
      /\ clientLastSeen \in Seq(Silence)
  BY DEF Bookkeeping, TypeOK
<1>2. \A i \in DOMAIN clientConnections :
        clientConnections[i] = c \/ Enlisted(clientConnections[i])
  BY DEF Enlisted
<1>3. QED
  BY <1>1, <1>2, BookkeepingLeave
     DEF clientDisconnected, Bookkeeping, NoConnectionTwice, SeenWithinConnections, Enlisted

\* A connection that leaves the queue was never listed.
LEMMA BookkeepingLeavesQueue ==
  ASSUME Bookkeeping, NEW c \in Sockets, PeerLeavesQueue(c)
  PROVE  Bookkeeping'
<1> USE DEF PeerLeavesQueue
<1>1. ~Enlisted(c)
  BY DEF Bookkeeping, EnlistedAreOpen
<1>2. /\ sock' \in [Sockets -> {"none", "queued", "open", "closing"}]
      /\ alive' \in [Sockets -> BOOLEAN] /\ peer' \in [Sockets -> Clients]
      /\ newConnection' \in BOOLEAN
      /\ arrived' \in [Sockets -> Nat]
  BY SomeClientType DEF SocketGone, Bookkeeping, TypeOK
<1>3. toServer' \in [Sockets -> Seq(Message)] /\ toServer'[c] = << >>
  <2>1. << >> \in Seq(Message)
    OBVIOUS
  <2>2. QED
    BY <2>1 DEF SocketGone, Bookkeeping, TypeOK, Message
<1>4. toClient' \in [Sockets -> Seq(Hostnames)]
  BY DEF SocketGone, Bookkeeping, TypeOK
<1>5. TypeOK'
  BY <1>2, <1>3, <1>4 DEF Bookkeeping, TypeOK, Message, process, db, lists
<1>6. \A d \in Sockets : d # c => sock'[d] = sock[d] /\ toServer'[d] = toServer[d]
  BY DEF SocketGone, Bookkeeping, TypeOK
<1>7. \A d \in Sockets : Enlisted(d) => sock'[d] \in {"open", "closing"}
  BY <1>1, <1>6 DEF Bookkeeping, EnlistedAreOpen
<1>8. \A d \in Sockets : \A k \in DOMAIN toServer'[d] :
        toServer'[d][k].kind = "greet" => k = 1 /\ ~Enlisted(d)
  <2> TAKE d \in Sockets
  <2>1. CASE d = c
    BY <1>3, <2>1
  <2>2. CASE d # c
    BY <1>6, <2>2 DEF Bookkeeping, GreetsOnce
  <2>3. QED
    BY <2>1, <2>2
<1>9. QED
  BY <1>5, <1>7, <1>8, BookkeepingListsKept

\* One turn of the loop that disconnects silent clients.
LEMMA BookkeepingDisconnectNext ==
  ASSUME Bookkeeping, disconnectNext
  PROVE  Bookkeeping'
<1> DEFINE c == Head(mustDisconnect)
<1>1. c \in Sockets /\ Tail(mustDisconnect) \in Seq(Sockets)
  BY HeadTailProperties DEF disconnectNext, Bookkeeping, TypeOK
<1>2. CASE clientDisconnected(c, Tail(mustDisconnect))
  BY <1>1, <1>2, BookkeepingDisconnected
<1>3. CASE /\ mustDisconnect' = Tail(mustDisconnect)
           /\ UNCHANGED << process, db, network, lists, keepAliveTimer, traffic >>
  <2>1. TypeOK'
    BY <1>1, <1>3 DEF Bookkeeping, TypeOK, process, db, network, lists, traffic
  <2>2. QED
    BY <1>3, <2>1, BookkeepingListsKept DEF Bookkeeping, EnlistedAreOpen, GreetsOnce, network, traffic
<1>4. QED
  BY <1>2, <1>3 DEF disconnectNext

\* The first loop ages the entries and picks connections at their positions.
LEMMA BookkeepingCheck ==
  ASSUME Bookkeeping, checkClientsConnection
  PROVE  Bookkeeping'
<1> DEFINE older(pastMidnight) ==
             [i \in DOMAIN clientLastSeen |->
                IF pastMidnight \/ clientLastSeen[i] > Limit THEN Limit + 1 ELSE clientLastSeen[i] + 1]
           K == {i \in DOMAIN clientLastSeen : clientLastSeen'[i] > Limit}
<1>1. /\ clientLastSeen \in Seq(Silence) /\ clientConnections \in Seq(Sockets)
      /\ Len(clientLastSeen) \in Nat /\ DOMAIN clientLastSeen = 1 .. Len(clientLastSeen)
      /\ Len(clientConnections) \in Nat /\ DOMAIN clientConnections = 1 .. Len(clientConnections)
      /\ Len(clientLastSeen) <= Len(clientConnections)
  BY LenProperties DEF Bookkeeping, TypeOK, SeenWithinConnections
<1>2. PICK pastMidnight \in BOOLEAN : clientLastSeen' = older(pastMidnight)
  BY DEF checkClientsConnection
<1>3. clientLastSeen' \in Seq(Silence) /\ Len(clientLastSeen') = Len(clientLastSeen)
  <2>1. \A i \in DOMAIN clientLastSeen : clientLastSeen[i] \in Silence
    BY <1>1, ElementOfSeq
  <2>2. \A i \in DOMAIN clientLastSeen : older(pastMidnight)[i] \in Silence
    BY <2>1, ServerAssumption DEF Silence
  <2>3. older(pastMidnight) \in [1 .. Len(clientLastSeen) -> Silence]
    BY <1>1, <2>2
  <2>4. clientLastSeen' \in [1 .. Len(clientLastSeen) -> Silence]
    BY <1>2, <2>3
  <2>5. clientLastSeen' \in Seq(Silence)
    BY <1>1, <2>4, SeqDef
  <2>6. QED
    BY <1>1, <2>4, <2>5, LenProperties
<1>4. mustDisconnect' \in Seq(Sockets)
  <2>1. K \in SUBSET DOMAIN clientConnections
    BY <1>1
  <2>2. QED
    BY <1>1, <2>1, KeepType DEF checkClientsConnection
<1>5. UNCHANGED << process, db, network, clientConnections, peerNames, keepAliveTimer, traffic >>
  BY DEF checkClientsConnection
<1>6. TypeOK'
  BY <1>3, <1>4, <1>5 DEF Bookkeeping, TypeOK, process, db, network, traffic
<1>7. KeepAliveRuns' /\ NoConnectionTwice' /\ SeenWithinConnections'
  BY <1>1, <1>3, <1>5 DEF Bookkeeping, KeepAliveRuns, NoConnectionTwice, SeenWithinConnections
<1>8. EnlistedAreOpen' /\ GreetsOnce'
  BY <1>5 DEF Bookkeeping, EnlistedAreOpen, GreetsOnce, Enlisted, network, traffic
<1>9. QED
  BY <1>6, <1>7, <1>8 DEF Bookkeeping

-----------------------------------------------------------------------------
(* Bookkeeping: steps of readClient.                                       *)

\* Taking a line leaves the later lines, none of which is a greeting.
LEMMA ConsumedLines ==
  ASSUME Bookkeeping, NEW c \in Sockets, toServer[c] # << >>, Consumed(c)
  PROVE  /\ toServer' \in [Sockets -> Seq(Message)]
         /\ arrived' \in [Sockets -> Nat]
         /\ \A d \in Sockets : d # c => toServer'[d] = toServer[d]
         /\ \A k \in DOMAIN toServer'[c] :
              /\ k + 1 \in DOMAIN toServer[c] /\ toServer'[c][k] = toServer[c][k + 1]
              /\ toServer'[c][k].kind # "greet"
<1>1. toServer[c] \in Seq(Message) /\ toServer \in [Sockets -> Seq(Message)]
  BY DEF Bookkeeping, TypeOK, Message
<1>2. toServer' = [toServer EXCEPT ![c] = Tail(toServer[c])]
  BY DEF Consumed
<1>3. /\ Tail(toServer[c]) \in Seq(Message)
      /\ Len(Tail(toServer[c])) = Len(toServer[c]) - 1
      /\ \A k \in 1 .. Len(Tail(toServer[c])) : Tail(toServer[c])[k] = toServer[c][k + 1]
  BY <1>1, HeadTailProperties
<1>4. /\ DOMAIN Tail(toServer[c]) = 1 .. Len(Tail(toServer[c]))
      /\ Len(toServer[c]) \in Nat /\ DOMAIN toServer[c] = 1 .. Len(toServer[c])
  BY <1>1, <1>3, LenProperties
<1>5. toServer' \in [Sockets -> Seq(Message)] /\ toServer'[c] = Tail(toServer[c])
  BY <1>1, <1>2, <1>3
<1>6. \A d \in Sockets : d # c => toServer'[d] = toServer[d]
  BY <1>1, <1>2
<1>7. \A k \in DOMAIN toServer'[c] :
        /\ k + 1 \in DOMAIN toServer[c] /\ toServer'[c][k] = toServer[c][k + 1]
        /\ k + 1 # 1
  BY <1>3, <1>4, <1>5
<1>8. \A k \in DOMAIN toServer'[c] : toServer'[c][k].kind # "greet"
  BY <1>7 DEF Bookkeeping, GreetsOnce
<1>9. arrived' \in [Sockets -> Nat]
  <2>1. PICK new \in 1 .. Len(toServer[c]) - arrived[c] :
          arrived' = [arrived EXCEPT ![c] = arrived[c] + new - 1]
    BY DEF Consumed
  <2>2. arrived[c] \in Nat /\ arrived \in [Sockets -> Nat]
    BY DEF Bookkeeping, TypeOK
  <2>3. new \in Int /\ new >= 1
    BY <1>4, <2>2
  <2>4. QED
    BY <2>1, <2>2, <2>3
<1>10. QED
  BY <1>5, <1>6, <1>7, <1>8, <1>9

\* A step that takes a line and leaves the lists alone.
LEMMA BookkeepingConsumes ==
  ASSUME Bookkeeping, NEW c \in Sockets, toServer[c] # << >>, Consumed(c),
         UNCHANGED << process, users, alive, peer, newConnection, lists, keepAliveTimer, mustDisconnect >>,
         hosts' \in Seq(Row), toClient' \in [Sockets -> Seq(Hostnames)],
         sock' = sock \/ sock' = [sock EXCEPT ![c] = "closing"]
  PROVE  Bookkeeping'
<1>1. /\ toServer' \in [Sockets -> Seq(Message)]
      /\ arrived' \in [Sockets -> Nat]
      /\ \A d \in Sockets : d # c => toServer'[d] = toServer[d]
      /\ \A k \in DOMAIN toServer'[c] : toServer'[c][k].kind # "greet"
  BY ConsumedLines
<1>2. /\ sock' \in [Sockets -> {"none", "queued", "open", "closing"}]
      /\ \A d \in Sockets : sock'[d] = sock[d] \/ sock'[d] = "closing"
  BY DEF Bookkeeping, TypeOK
<1>3. TypeOK'
  BY <1>1, <1>2 DEF Bookkeeping, TypeOK, Message, process, lists
<1>4. \A d \in Sockets : Enlisted(d) => sock'[d] \in {"open", "closing"}
  BY <1>2 DEF Bookkeeping, EnlistedAreOpen
<1>5. \A d \in Sockets : \A k \in DOMAIN toServer'[d] :
        toServer'[d][k].kind = "greet" => k = 1 /\ ~Enlisted(d)
  BY <1>1 DEF Bookkeeping, GreetsOnce
<1>6. QED
  BY <1>3, <1>4, <1>5, BookkeepingListsKept

LEMMA BookkeepingPing ==
  ASSUME Bookkeeping, NEW c \in Sockets, readPing(c)
  PROVE  Bookkeeping'
<1>1. /\ toServer' \in [Sockets -> Seq(Message)]
      /\ arrived' \in [Sockets -> Nat]
      /\ \A d \in Sockets : d # c => toServer'[d] = toServer[d]
      /\ \A k \in DOMAIN toServer'[c] : toServer'[c][k].kind # "greet"
  BY ConsumedLines DEF readPing, Reads
<1>2. UNCHANGED << process, db, sock, alive, peer, newConnection, clientConnections, peerNames,
                   keepAliveTimer, mustDisconnect, toClient >>
  BY DEF readPing, Reads
<1>3. clientLastSeen' \in Seq(Silence) /\ Len(clientLastSeen') = Len(clientLastSeen)
  <2>1. clientLastSeen \in Seq(Silence) /\ DOMAIN clientLastSeen = 1 .. Len(clientLastSeen)
    BY LenProperties DEF Bookkeeping, TypeOK
  <2>2. 0 \in Silence
    BY ServerAssumption DEF Silence
  <2>3. CASE clientLastSeen' = clientLastSeen
    BY <2>1, <2>3
  <2>4. CASE \E i \in DOMAIN clientLastSeen : clientLastSeen' = [clientLastSeen EXCEPT ![i] = 0]
    BY <2>1, <2>2, <2>4, ExceptSeq
  <2>5. QED
    BY <2>3, <2>4 DEF readPing, InRange
<1>4. TypeOK'
  BY <1>1, <1>2, <1>3 DEF Bookkeeping, TypeOK, Message, process, db
<1>5. KeepAliveRuns' /\ NoConnectionTwice' /\ SeenWithinConnections'
  BY <1>2, <1>3 DEF Bookkeeping, KeepAliveRuns, NoConnectionTwice, SeenWithinConnections
<1>6. \A d : Enlisted(d)' <=> Enlisted(d)
  BY <1>2 DEF Enlisted
<1>7. EnlistedAreOpen' /\ GreetsOnce'
  BY <1>1, <1>2, <1>6 DEF Bookkeeping, EnlistedAreOpen, GreetsOnce
<1>8. QED
  BY <1>4, <1>5, <1>7 DEF Bookkeeping

\* A line that is refused, or that no branch of readClient knows.
LEMMA BookkeepingRefused ==
  ASSUME Bookkeeping, NEW c \in Sockets,
         readOther(c) \/ refuseGreeting(c) \/ refuseNotifyAll(c)
  PROVE  Bookkeeping'
<1>1. toServer[c] # << >> /\ UNCHANGED newConnection
  BY DEF readOther, refuseGreeting, refuseNotifyAll, Reads
<1>2. CASE Hangup(c)
  <2>1. << >> \in Seq(Sockets)
    OBVIOUS
  <2>2. QED
    BY <1>2, <2>1, BookkeepingDisconnected DEF Hangup
<1>3. CASE Refuse(c)
  <2>1. /\ Consumed(c) /\ sock' = [sock EXCEPT ![c] = "closing"]
        /\ UNCHANGED << process, db, alive, peer, lists, keepAliveTimer, mustDisconnect, toClient >>
    BY <1>3 DEF Refuse
  <2>2. hosts' \in Seq(Row) /\ toClient' \in [Sockets -> Seq(Hostnames)] /\ UNCHANGED users
    BY <2>1 DEF Bookkeeping, TypeOK, db
  <2>3. QED
    BY <1>1, <2>1, <2>2, BookkeepingConsumes
<1>4. QED
  BY <1>2, <1>3 DEF readOther, refuseGreeting, refuseNotifyAll

\* What at() returns from a list of names, or from beyond it, is a name.
LEMMA NameAt ==
  ASSUME NEW names \in Seq(Hostnames), NEW index, NEW hostname \in at(names, index, Hostnames)
  PROVE  hostname \in Hostnames
<1>1. names \in [1 .. Len(names) -> Hostnames] /\ DOMAIN names = 1 .. Len(names)
  BY LenProperties
<1>2. QED
  BY <1>1 DEF at, InRange

LEMMA BookkeepingRoger ==
  ASSUME Bookkeeping, NEW c \in Sockets, readRoger(c)
  PROVE  Bookkeeping'
<1> DEFINE socketId == indexOf(clientConnections, c)
<1>1. toServer[c] # << >> /\ UNCHANGED newConnection
  BY DEF readRoger, Reads
<1>2. ASSUME Consumed(c),
             NEW hostname \in at(peerNames, socketId, Hostnames),
             Update("unnoted", hosts, syncIsDone(hosts, hostname)),
             UNCHANGED << process, users, sock, alive, peer, lists, keepAliveTimer, mustDisconnect, toClient >>
      PROVE  Bookkeeping'
  <2>1. hosts' \in Seq(Row)
    BY <1>2, SyncIsDone DEF Bookkeeping, TypeOK, Update
  <2>2. toClient' \in [Sockets -> Seq(Hostnames)]
    BY <1>2 DEF Bookkeeping, TypeOK
  <2>3. QED
    BY <1>1, <1>2, <2>1, <2>2, BookkeepingConsumes
<1>3. CASE ProcessEnds /\ UNCHANGED db
  <2>1. users' \subseteq Usernames /\ hosts' \in Seq(Row)
    BY <1>3 DEF db, Bookkeeping, TypeOK
  <2>2. QED
    BY <1>3, <2>1, BookkeepingEnds
<1>4. QED
  BY <1>2, <1>3 DEF readRoger

\* The lists with a greeting connection at their ends.
LEMMA GrownLists ==
  ASSUME Bookkeeping, NEW c \in Sockets, NEW hostname \in Hostnames, ~Enlisted(c)
  PROVE  LET connections == Append(clientConnections, c)
             names       == Append(peerNames, hostname)
             seen        == Append(clientLastSeen, 0) IN
         /\ connections \in Seq(Sockets) /\ names \in Seq(Hostnames) /\ seen \in Seq(Silence)
         /\ connections # << >>
         /\ Len(connections) = Len(clientConnections) + 1
         /\ Len(seen) <= Len(connections)
         /\ \A i, j \in DOMAIN connections : connections[i] = connections[j] => i = j
         /\ \A i \in DOMAIN connections : connections[i] = c \/ Enlisted(connections[i])
         /\ \E i \in DOMAIN connections : connections[i] = c
<1> DEFINE connections == Append(clientConnections, c)
           names       == Append(peerNames, hostname)
           seen        == Append(clientLastSeen, 0)
<1>1. /\ clientConnections \in Seq(Sockets) /\ peerNames \in Seq(Hostnames)
      /\ clientLastSeen \in Seq(Silence) /\ 0 \in Silence
  BY ServerAssumption DEF Bookkeeping, TypeOK, Silence
<1>2. /\ Len(clientConnections) \in Nat /\ DOMAIN clientConnections = 1 .. Len(clientConnections)
      /\ Len(clientLastSeen) \in Nat
  BY <1>1, LenProperties
<1>3. /\ connections \in Seq(Sockets) /\ connections # << >>
      /\ Len(connections) = Len(clientConnections) + 1
      /\ \A i \in 1 .. Len(clientConnections) : connections[i] = clientConnections[i]
      /\ connections[Len(clientConnections) + 1] = c
  BY <1>1, AppendProperties
<1>4. names \in Seq(Hostnames)
  BY <1>1, AppendProperties
<1>5. seen \in Seq(Silence) /\ Len(seen) = Len(clientLastSeen) + 1
  BY <1>1, AppendProperties
<1> HIDE DEF connections, names, seen
<1>6. DOMAIN connections = 1 .. Len(clientConnections) + 1
  BY <1>3, LenProperties
<1>7. Len(seen) <= Len(connections)
  BY <1>2, <1>3, <1>5 DEF Bookkeeping, SeenWithinConnections
<1>8. \A i \in 1 .. Len(clientConnections) : clientConnections[i] # c
  BY <1>2 DEF Enlisted
<1>9. \A i, j \in DOMAIN connections : connections[i] = connections[j] => i = j
  BY <1>2, <1>3, <1>6, <1>8 DEF Bookkeeping, NoConnectionTwice
<1>10. \A i \in DOMAIN connections : connections[i] = c \/ Enlisted(connections[i])
  BY <1>2, <1>3, <1>6 DEF Enlisted
<1>11. \E i \in DOMAIN connections : connections[i] = c
  BY <1>2, <1>3, <1>6
<1>12. QED
  BY <1>3, <1>4, <1>5, <1>7, <1>9, <1>10, <1>11 DEF connections, names, seen

\* The connection whose first line is a greeting is not listed.
LEMMA GreetingIsNew ==
  ASSUME Bookkeeping, NEW c \in Sockets, Reads(c, "greet")
  PROVE  ~Enlisted(c) /\ Head(toServer[c]) \in Message
<1>1. toServer[c] \in Seq(Message) /\ toServer[c] # << >> /\ Head(toServer[c]).kind = "greet"
  BY DEF Reads, Bookkeeping, TypeOK, Message
<1>2. 1 \in DOMAIN toServer[c] /\ Head(toServer[c]) = toServer[c][1]
  BY <1>1, EmptySeq, LenProperties
<1>3. QED
  BY <1>1, <1>2, HeadTailProperties DEF Bookkeeping, GreetsOnce

LEMMA BookkeepingFailedGreeting ==
  ASSUME Bookkeeping, NEW c \in Sockets, failGreeting(c)
  PROVE  Bookkeeping'
<1> DEFINE hostname == Head(toServer[c]).host
<1>1. ~Enlisted(c) /\ hostname \in Hostnames
  BY GreetingIsNew DEF failGreeting, Message
<1>2. Leave(c, << >>, Append(clientConnections, c), Append(peerNames, hostname), Append(clientLastSeen, 0))
  BY DEF failGreeting
<1>3. << >> \in Seq(Sockets)
  OBVIOUS
<1>4. QED
  BY <1>1, <1>2, <1>3, GrownLists, BookkeepingLeave

LEMMA BookkeepingGreeting ==
  ASSUME Bookkeeping, NEW c \in Sockets, readGreeting(c)
  PROVE  Bookkeeping'
<1> DEFINE line == Head(toServer[c])
           socketId == indexOf(Append(clientConnections, c), c)
<1>1. Reads(c, "greet") /\ toServer[c] # << >> /\ Consumed(c) /\ sock[c] = "open"
  BY DEF readGreeting, Reads
<1>2. ~Enlisted(c) /\ line.host \in Hostnames /\ line.user \in Usernames
  BY <1>1, GreetingIsNew DEF Message
<1>3. /\ clientConnections' = Append(clientConnections, c)
      /\ peerNames' = Append(peerNames, line.host)
      /\ clientLastSeen' = Append(clientLastSeen, 0)
      /\ keepAliveTimer' = (keepAliveTimer \/ Len(clientConnections') = 1)
      /\ \/ hosts' = addHostname(hosts, users, line.user, line.host, socketId)
         \/ hosts' = withHostname(hosts, users, line.user, line.host)
      /\ toClient' = toClient \/ toClient' = [toClient EXCEPT ![c] = Append(toClient[c], line.host)]
      /\ UNCHANGED << process, users, sock, alive, peer, newConnection, mustDisconnect >>
  BY DEF readGreeting, Reads, Enlist, Update
<1>4. /\ clientConnections' \in Seq(Sockets) /\ peerNames' \in Seq(Hostnames)
      /\ clientLastSeen' \in Seq(Silence)
      /\ clientConnections' # << >> /\ Len(clientConnections') = Len(clientConnections) + 1
      /\ SeenWithinConnections' /\ NoConnectionTwice'
      /\ \A d : Enlisted(d)' => d = c \/ Enlisted(d)
  BY <1>2, <1>3, GrownLists DEF SeenWithinConnections, NoConnectionTwice, Enlisted
<1>5. /\ toServer' \in [Sockets -> Seq(Message)]
      /\ arrived' \in [Sockets -> Nat]
      /\ \A d \in Sockets : d # c => toServer'[d] = toServer[d]
      /\ \A k \in DOMAIN toServer'[c] : toServer'[c][k].kind # "greet"
  BY <1>1, ConsumedLines
<1>6. hosts' \in Seq(Row)
  <2>1. socketId \in Int
    BY <1>3, <1>4, IndexOfFinds
  <2>2. QED
    <3>1. hosts \in Seq(Row)
      BY DEF Bookkeeping, TypeOK
    <3> HIDE DEF line, socketId
    <3>2. addHostname(hosts, users, line.user, line.host, socketId) \in Seq(Row)
      BY <1>2, <2>1, <3>1, AddHostname
    <3>3. withHostname(hosts, users, line.user, line.host) \in Seq(Row)
      BY <1>2, <3>1, WithHostname
    <3>4. QED
      BY <1>3, <3>2, <3>3
<1>7. toClient' \in [Sockets -> Seq(Hostnames)]
  <2>1. toClient[c] \in Seq(Hostnames)
    BY DEF Bookkeeping, TypeOK
  <2>2. Append(toClient[c], line.host) \in Seq(Hostnames)
    BY <1>2, <2>1, AppendProperties
  <2>3. QED
    BY <1>3, <2>2 DEF Bookkeeping, TypeOK
<1>8. keepAliveTimer' = TRUE
  <2>1. CASE clientConnections = << >>
    <3>1. Len(clientConnections') = 1
      BY <1>4, <2>1, EmptySeq
    <3>2. QED
      BY <1>3, <3>1
  <2>2. CASE clientConnections # << >>
    BY <1>3, <2>2 DEF Bookkeeping, TypeOK, KeepAliveRuns
  <2>3. QED
    BY <2>1, <2>2
<1>9. TypeOK'
  BY <1>3, <1>4, <1>5, <1>6, <1>7, <1>8 DEF Bookkeeping, TypeOK, Message, process
<1>10. KeepAliveRuns'
  BY <1>4, <1>8 DEF KeepAliveRuns
<1>11. EnlistedAreOpen'
  BY <1>1, <1>3, <1>4 DEF Bookkeeping, EnlistedAreOpen
<1>12. GreetsOnce'
  <2>1. SUFFICES ASSUME NEW d \in Sockets, NEW k \in DOMAIN toServer'[d], toServer'[d][k].kind = "greet"
                 PROVE  k = 1 /\ ~Enlisted(d)'
    BY DEF GreetsOnce
  <2>2. d # c
    BY <1>5, <2>1
  <2>3. QED
    BY <1>4, <1>5, <2>1, <2>2 DEF Bookkeeping, GreetsOnce
<1>13. QED
  BY <1>4, <1>9, <1>10, <1>11, <1>12 DEF Bookkeeping

\* The notices written, to the right connections or astray, are host names.
LEMMA NoticesWritten ==
  ASSUME Bookkeeping, hosts' \in Seq(Row), NEW rows \in SUBSET DOMAIN hosts',
         notifyClients(rows) \/ notifyClientsAstray(rows)
  PROVE  toClient' \in [Sockets -> Seq(Hostnames)]
<1>1. toClient \in [Sockets -> Seq(Hostnames)] /\ peerNames \in Seq(Hostnames)
  BY DEF Bookkeeping, TypeOK
<1>2. CASE notifyClients(rows)
  <2> DEFINE place(c) == CHOOSE i \in DOMAIN clientConnections : Names(i, c)
             sent(i) == [n \in 1 .. Notices(rows, i) |-> peerNames[i]]
  <2>1. ASSUME NEW c \in Sockets, \E i \in DOMAIN clientConnections : Names(i, c)
        PROVE  toClient[c] \o sent(place(c)) \in Seq(Hostnames)
    <3> DEFINE i == place(c)
               N == {id \in rows : hosts'[id].socket_id = i - 1}
    <3>1. i \in DOMAIN clientConnections /\ Names(i, c)
      BY <2>1
    <3> HIDE DEF i
    <3>2. peerNames[i] \in Hostnames
      <4>1. DOMAIN clientConnections = 1 .. Len(clientConnections) /\ Len(clientConnections) \in Nat
        BY LenProperties DEF Bookkeeping, TypeOK
      <4>2. i - 1 + 1 = i
        BY <3>1, <4>1
      <4>3. i \in DOMAIN peerNames
        BY <3>1, <4>2 DEF Names, InRange
      <4>4. QED
        BY <1>1, <4>3, LenProperties
    <3>3. Notices(rows, i) \in Nat
      <4>1. Len(hosts') \in Nat /\ DOMAIN hosts' = 1 .. Len(hosts')
        BY LenProperties
      <4>2. N \in SUBSET (1 .. Len(hosts'))
        BY <4>1
      <4>3. Cardinality(N) \in Nat
        BY <4>1, <4>2, PositionsFinite
      <4>4. QED
        BY <4>3 DEF Notices
    <3>4. sent(i) \in [1 .. Notices(rows, i) -> Hostnames]
      BY <3>2
    <3>5. sent(i) \in Seq(Hostnames)
      BY <3>3, <3>4, SeqDef
    <3>6. toClient[c] \in Seq(Hostnames)
      BY <1>1
    <3>7. toClient[c] \o sent(i) \in Seq(Hostnames)
      BY <3>5, <3>6, ConcatProperties
    <3>8. QED
      BY <3>7 DEF i
  <2>2. toClient' = [c \in Sockets |->
                       IF \E i \in DOMAIN clientConnections : Names(i, c)
                       THEN toClient[c] \o sent(place(c)) ELSE toClient[c]]
    BY <1>2 DEF notifyClients
  <2> HIDE DEF sent, place
  <2>3. QED
    BY <1>1, <2>1, <2>2
<1>3. CASE notifyClientsAstray(rows)
  <2>1. PICK astray \in SUBSET Sockets, hostname \in Hostnames :
          toClient' = [c \in Sockets |-> IF c \in astray THEN Append(toClient[c], hostname) ELSE toClient[c]]
    BY <1>3 DEF notifyClientsAstray
  <2>2. \A c \in Sockets : toClient[c] \in Seq(Hostnames) /\ Append(toClient[c], hostname) \in Seq(Hostnames)
    BY <1>1, AppendProperties
  <2>3. QED
    BY <2>1, <2>2
<1>4. QED
  BY <1>2, <1>3

LEMMA BookkeepingNotifyAll ==
  ASSUME Bookkeeping, NEW c \in Sockets, readNotifyAll(c)
  PROVE  Bookkeeping'
<1> DEFINE line == Head(toServer[c])
<1>1. /\ toServer[c] # << >> /\ UNCHANGED newConnection
      /\ hosts' = hosts \/ hosts' = setNotifyAllExcept(hosts, users, line.user, line.host)
      /\ UNCHANGED users
  BY DEF readNotifyAll, Reads, Update
<1>2. hosts' \in Seq(Row)
  BY <1>1, SetNotifyAllExcept DEF Bookkeeping, TypeOK
<1>3. CASE ProcessEnds
  <2>1. users' \subseteq Usernames
    BY <1>1 DEF Bookkeeping, TypeOK
  <2>2. QED
    BY <1>2, <1>3, <2>1, BookkeepingEnds
<1>4. ASSUME NEW rows \in SUBSET DOMAIN hosts', Consumed(c),
             notifyClients(rows) \/ notifyClientsAstray(rows),
             UNCHANGED << process, sock, alive, peer, lists, keepAliveTimer, mustDisconnect >>
      PROVE  Bookkeeping'
  <2>2. toClient' \in [Sockets -> Seq(Hostnames)]
    BY <1>2, <1>4, NoticesWritten
  <2>3. QED
    BY <1>1, <1>2, <1>4, <2>2, BookkeepingConsumes
<1>5. \A rows \in {clientsToSync(hosts', users, line.user)} \cup (IF "dbfail" \in Env THEN {{}} ELSE {}) :
        rows \in SUBSET DOMAIN hosts'
  BY DEF clientsToSync
<1>6. QED
  BY <1>3, <1>4, <1>5 DEF readNotifyAll

\* Every step keeps the books in order.
LEMMA BookkeepingStep == Bookkeeping /\ [Next]_vars => Bookkeeping'
<1> SUFFICES ASSUME Bookkeeping, [Next]_vars
             PROVE  Bookkeeping'
  OBVIOUS
<1>1. CASE \/ Stop \/ Start \/ Pause \/ Resume
           \/ \E username \in Usernames : AddUser(username)
  BY <1>1, BookkeepingProcess
<1>2. CASE checkClientsConnection
  BY <1>2, BookkeepingCheck
<1>3. CASE disconnectNext
  BY <1>3, BookkeepingDisconnectNext
<1>4. CASE handleNewConnection
  BY <1>4, BookkeepingAccept
<1>5. ASSUME NEW c \in Sockets,
             \/ \E client \in Clients : Connect(c, client)
             \/ \E kind \in {"ping", "roger", "notifyAll"} : Send(c, kind)
      PROVE  Bookkeeping'
  BY <1>5, BookkeepingConnect, BookkeepingSend
<1>6. ASSUME NEW c \in Sockets,
             \/ \E client \in Clients : ChangeSettings(c, client)
             \/ ReadNotice(c) \/ Vanish(c) \/ ArriveUnread(c)
      PROVE  Bookkeeping'
  BY <1>6, BookkeepingAside
<1>7. ASSUME NEW c \in Sockets, PeerCloses(c) \/ RefusalWritten(c)
      PROVE  Bookkeeping'
  <2>1. << >> \in Seq(Sockets)
    OBVIOUS
  <2>2. QED
    BY <1>7, <2>1, BookkeepingDisconnected DEF PeerCloses, RefusalWritten
<1>8. ASSUME NEW c \in Sockets, PeerLeavesQueue(c)
      PROVE  Bookkeeping'
  BY <1>8, BookkeepingLeavesQueue
<1>9. ASSUME NEW c \in Sockets,
             \/ readPing(c) \/ readOther(c) \/ refuseGreeting(c) \/ refuseNotifyAll(c)
             \/ readGreeting(c) \/ failGreeting(c) \/ readRoger(c) \/ readNotifyAll(c)
      PROVE  Bookkeeping'
  BY <1>9, BookkeepingPing, BookkeepingRefused, BookkeepingGreeting,
     BookkeepingFailedGreeting, BookkeepingRoger, BookkeepingNotifyAll
<1>10. CASE UNCHANGED vars
  <2>1. UNCHANGED << process, db, network, lists, keepAliveTimer, mustDisconnect, traffic >>
    BY <1>10 DEF vars
  <2>2. TypeOK'
    BY <2>1 DEF Bookkeeping, TypeOK, process, db, network, lists, traffic
  <2>3. QED
    BY <2>1, <2>2, BookkeepingListsKept DEF Bookkeeping, EnlistedAreOpen, GreetsOnce, network, traffic
<1>11. QED
  BY <1>1, <1>2, <1>3, <1>4, <1>5, <1>6, <1>7, <1>8, <1>9, <1>10 DEF Next

LEMMA BookkeepingHolds == Spec => []Bookkeeping
BY BookkeepingInit, BookkeepingStep, PTL DEF Spec

\* Every variable keeps its type, whatever the surroundings do: the handlers never
\* build a list, a table or a notice out of anything else.
THEOREM TypeCorrect == Spec => []TypeOK
<1>1. Bookkeeping => TypeOK
  BY DEF Bookkeeping
<1>2. QED
  BY <1>1, BookkeepingHolds, PTL

\* The keep-alive timer runs exactly while somebody is in the list of connections,
\* whatever the surroundings do (KeepAliveRuns): the start in readClient and the
\* stop in clientDisconnected keep in step although the lists themselves may not.
THEOREM KeepAliveCorrect == Spec => []KeepAliveRuns
<1>1. Bookkeeping => KeepAliveRuns
  BY DEF Bookkeeping
<1>2. QED
  BY <1>1, BookkeepingHolds, PTL

-----------------------------------------------------------------------------
(* Alignment: the three lists side by side.                                *)

\* No host connects over a connection of its own, no two instants are equal, and
\* nobody changes settings.
Calm == Env \cap {"overlap", "sameinstant", "settings"} = {}

\* ListsParallel, of the lists as a handler has left them.
Parallel(connections, names, seen) ==
  /\ Len(names) = Len(connections)
  /\ Len(seen) = Len(connections)
  /\ \A i \in DOMAIN connections : names[i] = peer[connections[i]].host
  /\ \A i, j \in DOMAIN connections :
       connections[i] = connections[j] \/ names[i] = names[j] => i = j

LEMMA AlignmentInit == Init => Alignment
<1> SUFFICES ASSUME Init PROVE Alignment
  OBVIOUS
<1>1. Bookkeeping
  BY BookkeepingInit
<1>2. ListsParallel /\ HostsApart /\ LinesNamed
  BY DEF Init, ListsParallel, HostsApart, LinesNamed
<1>3. QED
  BY <1>1, <1>2 DEF Alignment

LEMMA AlignmentEnds ==
  ASSUME Bookkeeping', ProcessEnds
  PROVE  Alignment'
<1>1. ListsParallel' /\ HostsApart' /\ LinesNamed'
  BY DEF ProcessEnds, ListsParallel, HostsApart, LinesNamed
<1>2. QED
  BY <1>1 DEF Alignment

\* A step that changes no list but the instants of clientLastSeen, gives nobody
\* another name, and adds neither connections nor lines.
LEMMA AlignmentKept ==
  ASSUME Alignment, Bookkeeping',
         UNCHANGED << clientConnections, peerNames >>, Len(clientLastSeen') = Len(clientLastSeen),
         \A c \in Sockets : sock[c] = "none" => sock'[c] = "none",
         \A c \in Sockets : sock'[c] # "none" => peer'[c] = peer[c],
         \A c \in Sockets : \A k \in DOMAIN toServer'[c] :
           /\ peer'[c] = peer[c]
           /\ \E j \in DOMAIN toServer[c] : toServer'[c][k] = toServer[c][j]
  PROVE  Alignment'
<1>1. ListsParallel'
  <2>1. \A i \in DOMAIN clientConnections : peer'[clientConnections[i]] = peer[clientConnections[i]]
    <3>1. \A i \in DOMAIN clientConnections :
            clientConnections[i] \in Sockets /\ Enlisted(clientConnections[i])'
      BY LenProperties, ElementOfSeq DEF Alignment, Bookkeeping, TypeOK, Enlisted
    <3>2. QED
      BY <3>1 DEF Bookkeeping, EnlistedAreOpen
  <2>2. QED
    BY <2>1 DEF Alignment, ListsParallel
<1>2. HostsApart'
  BY DEF Alignment, HostsApart
<1>3. LinesNamed'
  BY DEF Alignment, LinesNamed
<1>4. QED
  BY <1>1, <1>2, <1>3 DEF Alignment

\* The slot removes the same position from each list.
LEMMA AlignmentLeave ==
  ASSUME Calm, Alignment, Bookkeeping', NEW c \in Sockets, NEW rest,
         NEW connections \in Seq(Sockets), NEW names \in Seq(Hostnames), NEW seen \in Seq(Silence),
         Parallel(connections, names, seen),
         \A i \in DOMAIN clientConnections : clientConnections[i] = c => \E j \in DOMAIN connections : connections[j] = c,
         Leave(c, rest, connections, names, seen)
  PROVE  Alignment'
<1> DEFINE socketId == indexOf(connections, c)
<1>1. ASSUME SocketGone(c)
      PROVE  /\ \A d \in Sockets : sock[d] = "none" => sock'[d] = "none"
             /\ \A d \in Sockets : sock'[d] # "none" => peer'[d] = peer[d]
             /\ \A d \in Sockets : \A k \in DOMAIN toServer'[d] :
                  peer'[d] = peer[d] /\ toServer'[d][k] = toServer[d][k] /\ k \in DOMAIN toServer[d]
             /\ \A d \in Sockets : d # c => peer'[d] = peer[d]
  BY <1>1 DEF SocketGone, Alignment, Bookkeeping, TypeOK
<1>2. CASE SocketGone(c) /\ UNCHANGED lists
  BY <1>1, <1>2, AlignmentKept DEF lists
<1>3. ASSUME SocketGone(c), socketId # -1,
             clientConnections' = removeAll(connections, c),
             NEW hostname \in at(names, socketId, Hostnames), peerNames' = removeAll(names, hostname),
             NEW same \in Forgotten(seen, socketId), clientLastSeen' = Keep(seen, DOMAIN seen \ same)
      PROVE  Alignment'
  <2> DEFINE n == Len(connections)
             p == socketId + 1
             K == (1 .. n) \ {p}
  <2>1. /\ n \in Nat /\ DOMAIN connections = 1 .. n
        /\ DOMAIN names = 1 .. n /\ Len(names) = n
        /\ DOMAIN seen = 1 .. n /\ Len(seen) = n
    BY LenProperties DEF Parallel
  <2>2. p \in 1 .. n /\ connections[p] = c
    BY <1>3, IndexOfFinds
  <2>3. clientConnections' = Keep(connections, K)
    <3>1. \A i \in DOMAIN connections : connections[i] = c <=> i = p
      BY <2>1, <2>2 DEF Parallel
    <3>2. QED
      BY <1>3, <2>1, <2>2, <3>1, RemoveAllOnce
  <2>4. peerNames' = Keep(names, K)
    <3>1. hostname = names[p]
      BY <1>3, <2>1, <2>2 DEF at, InRange
    <3>2. \A i \in DOMAIN names : names[i] = hostname <=> i = p
      BY <2>1, <2>2, <3>1 DEF Parallel
    <3>3. removeAll(names, hostname) = Keep(names, (1 .. Len(names)) \ {p})
      BY <2>1, <2>2, <3>2, RemoveAllOnce
    <3>4. QED
      BY <1>3, <2>1, <3>3
  <2>5. clientLastSeen' = Keep(seen, K)
    <3>1. same = {p}
      BY <1>3, <2>1, <2>2 DEF Forgotten, EqualInstants, InRange, Calm
    <3>2. QED
      BY <1>3, <2>1, <3>1
  <2> DEFINE m == Cardinality(K)
             q(i) == Position(K, i)
  <2>6. K \in SUBSET (1 .. n)
    OBVIOUS
  <2>7. /\ m \in Nat
        /\ DOMAIN clientConnections' = 1 .. m /\ Len(clientConnections') = m
        /\ \A i \in 1 .. m : q(i) \in K /\ clientConnections'[i] = connections[q(i)]
    BY <2>1, <2>3, <2>6, KeepType
  <2>8. /\ Len(peerNames') = m
        /\ \A i \in 1 .. m : peerNames'[i] = names[q(i)]
    BY <2>1, <2>4, <2>6, KeepType
  <2>9. Len(clientLastSeen') = m
    BY <2>1, <2>5, <2>6, KeepType
  <2>10. \A i, j \in 1 .. m : q(i) = q(j) => i = j
    BY <2>1, <2>6, PositionsDiffer
  <2> HIDE DEF m, q
  <2>11. \A i \in 1 .. m : connections[q(i)] # c /\ connections[q(i)] \in Sockets /\ q(i) \in DOMAIN connections
    BY <2>1, <2>2, <2>7, ElementOfSeq DEF Parallel
  <2>12. ListsParallel'
    <3>1. \A i \in 1 .. m : peerNames'[i] = peer'[clientConnections'[i]].host
      <4> TAKE i \in 1 .. m
      <4>1. names[q(i)] = peer[connections[q(i)]].host
        BY <2>11 DEF Parallel
      <4>2. peer'[connections[q(i)]] = peer[connections[q(i)]]
        BY <1>1, <1>3, <2>11
      <4>3. QED
        BY <2>7, <2>8, <4>1, <4>2
    <3>2. \A i, j \in 1 .. m :
            clientConnections'[i] = clientConnections'[j] \/ peerNames'[i] = peerNames'[j] => i = j
      <4> SUFFICES ASSUME NEW i \in 1 .. m, NEW j \in 1 .. m,
                          clientConnections'[i] = clientConnections'[j] \/ peerNames'[i] = peerNames'[j]
                   PROVE  i = j
        OBVIOUS
      <4>1. connections[q(i)] = connections[q(j)] \/ names[q(i)] = names[q(j)]
        BY <2>7, <2>8
      <4>2. q(i) \in DOMAIN connections /\ q(j) \in DOMAIN connections
        BY <2>11
      <4>3. q(i) = q(j)
        BY <4>1, <4>2 DEF Parallel
      <4>4. QED
        BY <2>10, <4>3
    <3>3. QED
      BY <2>7, <2>8, <2>9, <3>1, <3>2 DEF ListsParallel
  <2>13. HostsApart' /\ LinesNamed'
    BY <1>1, <1>3 DEF Alignment, HostsApart, LinesNamed
  <2>14. QED
    BY <2>12, <2>13 DEF Alignment
<1>4. QED
  BY <1>2, <1>3, AlignmentEnds DEF Leave, lists

LEMMA ParallelNow ==
  ASSUME Alignment
  PROVE  /\ Parallel(clientConnections, peerNames, clientLastSeen)
         /\ clientConnections \in Seq(Sockets) /\ peerNames \in Seq(Hostnames)
         /\ clientLastSeen \in Seq(Silence)
BY DEF Alignment, Bookkeeping, TypeOK, ListsParallel, Parallel

\* ... and with a connection at the end that has just greeted under its own name.
LEMMA ParallelGrown ==
  ASSUME Alignment, NEW c \in Sockets, ~Enlisted(c), sock[c] # "none"
  PROVE  Parallel(Append(clientConnections, c), Append(peerNames, peer[c].host), Append(clientLastSeen, 0))
<1> DEFINE connections == Append(clientConnections, c)
           names       == Append(peerNames, peer[c].host)
           seen        == Append(clientLastSeen, 0)
           n           == Len(clientConnections)
<1>1. /\ clientConnections \in Seq(Sockets) /\ peerNames \in Seq(Hostnames)
      /\ clientLastSeen \in Seq(Silence)
      /\ peer[c].host \in Hostnames /\ 0 \in Silence
  BY ParallelNow, ClientNames, ServerAssumption DEF Alignment, Bookkeeping, TypeOK, Silence
<1>2. /\ n \in Nat /\ DOMAIN clientConnections = 1 .. n
      /\ Len(peerNames) = n /\ Len(clientLastSeen) = n
  BY <1>1, LenProperties, ParallelNow DEF Parallel
<1>3. /\ connections \in Seq(Sockets) /\ Len(connections) = n + 1
      /\ \A i \in 1 .. n : connections[i] = clientConnections[i]
      /\ connections[n + 1] = c
  BY <1>1, AppendProperties
<1>4. /\ Len(names) = n + 1
      /\ \A i \in 1 .. n : names[i] = peerNames[i]
      /\ names[n + 1] = peer[c].host
  BY <1>1, <1>2, AppendProperties
<1>5. Len(seen) = n + 1
  BY <1>1, <1>2, AppendProperties
<1> HIDE DEF connections, names, seen
<1>6. DOMAIN connections = 1 .. n + 1
  BY <1>3, LenProperties
<1>7. \A i \in 1 .. n : /\ clientConnections[i] # c /\ clientConnections[i] \in Sockets
                        /\ peerNames[i] = peer[clientConnections[i]].host
                        /\ peerNames[i] # peer[c].host
  <2> TAKE i \in 1 .. n
  <2>1. clientConnections[i] # c /\ clientConnections[i] \in Sockets /\ Enlisted(clientConnections[i])
    BY <1>1, <1>2, ElementOfSeq DEF Enlisted
  <2>2. peerNames[i] = peer[clientConnections[i]].host
    BY <1>2, ParallelNow DEF Parallel
  <2>3. sock[clientConnections[i]] # "none"
    BY <2>1 DEF Alignment, Bookkeeping, EnlistedAreOpen
  <2>4. QED
    BY <2>1, <2>2, <2>3 DEF Alignment, HostsApart
<1>8. \A i \in DOMAIN connections : names[i] = peer[connections[i]].host
  BY <1>2, <1>3, <1>4, <1>6, <1>7
<1>9. \A i, j \in 1 .. n : clientConnections[i] = clientConnections[j] \/ peerNames[i] = peerNames[j] => i = j
  BY <1>2, ParallelNow DEF Parallel
<1>10. \A i, j \in DOMAIN connections : connections[i] = connections[j] \/ names[i] = names[j] => i = j
  BY <1>2, <1>3, <1>4, <1>6, <1>7, <1>9
<1>11. QED
  BY <1>3, <1>4, <1>5, <1>8, <1>10 DEF Parallel, connections, names, seen

LEMMA AlignmentConnect ==
  ASSUME Calm, Alignment, Bookkeeping', NEW c \in Sockets, NEW client \in Clients, Connect(c, client)
  PROVE  Alignment'
<1> USE DEF Connect
<1>1. PICK line : toServer' = [toServer EXCEPT ![c] = << line >>] /\ line.host = client.host
  BY LineType DEF Kinds
<1>2. /\ \A d \in Sockets : d # c => sock'[d] = sock[d] /\ peer'[d] = peer[d] /\ toServer'[d] = toServer[d]
      /\ peer'[c] = client /\ toServer'[c] = << line >>
  BY <1>1 DEF Alignment, Bookkeeping, TypeOK
<1>3. \A d \in Sockets : sock[d] # "none" => peer[d].host # client.host
  BY DEF Calm
<1>4. HostsApart'
  BY <1>2, <1>3 DEF Alignment, HostsApart
<1>5. LinesNamed'
  <2> SUFFICES ASSUME NEW d \in Sockets, NEW k \in DOMAIN toServer'[d]
               PROVE  toServer'[d][k].host = peer'[d].host
    BY DEF LinesNamed
  <2>1. CASE d = c
    BY <1>1, <1>2, <2>1
  <2>2. CASE d # c
    BY <1>2, <2>2 DEF Alignment, LinesNamed
  <2>3. QED
    BY <2>1, <2>2
<1>6. ListsParallel'
  <2>1. UNCHANGED << clientConnections, peerNames, clientLastSeen >>
    BY DEF lists
  <2>2. \A i \in DOMAIN clientConnections : peer'[clientConnections[i]] = peer[clientConnections[i]]
    <3> TAKE i \in DOMAIN clientConnections
    <3>1. clientConnections[i] \in Sockets /\ Enlisted(clientConnections[i])
      BY LenProperties, ElementOfSeq DEF Alignment, Bookkeeping, TypeOK, Enlisted
    <3>2. clientConnections[i] # c
      BY <3>1 DEF Alignment, Bookkeeping, EnlistedAreOpen
    <3>3. QED
      BY <1>2, <3>1, <3>2
  <2>3. QED
    BY <2>1, <2>2 DEF Alignment, ListsParallel
<1>7. QED
  BY <1>4, <1>5, <1>6 DEF Alignment

LEMMA AlignmentSend ==
  ASSUME Alignment, Bookkeeping', NEW c \in Sockets, NEW kind \in {"ping", "roger", "notifyAll"}, Send(c, kind)
  PROVE  Alignment'
<1> DEFINE line == Line(kind, peer[c])
<1>1. line \in Message /\ line.host = peer[c].host
  BY LineType DEF Kinds, Alignment, Bookkeeping, TypeOK
<1>2. /\ toServer' = [toServer EXCEPT ![c] = Append(toServer[c], line)]
      /\ UNCHANGED << network, lists >>
  BY DEF Send
<1> HIDE DEF line
<1>3. toServer[c] \in Seq(Message) /\ toServer \in [Sockets -> Seq(Message)]
  BY DEF Alignment, Bookkeeping, TypeOK, Message
<1>4. /\ DOMAIN Append(toServer[c], line) = 1 .. Len(toServer[c]) + 1
      /\ \A k \in 1 .. Len(toServer[c]) : Append(toServer[c], line)[k] = toServer[c][k]
      /\ Append(toServer[c], line)[Len(toServer[c]) + 1] = line
      /\ DOMAIN toServer[c] = 1 .. Len(toServer[c]) /\ Len(toServer[c]) \in Nat
  BY <1>1, <1>3, AppendProperties, LenProperties
<1>5. \A k \in 1 .. Len(toServer[c]) + 1 : Append(toServer[c], line)[k].host = peer[c].host
  BY <1>1, <1>4 DEF Alignment, LinesNamed
<1>6. LinesNamed'
  BY <1>2, <1>3, <1>4, <1>5 DEF Alignment, LinesNamed, network
<1>7. ListsParallel' /\ HostsApart'
  BY <1>2 DEF Alignment, ListsParallel, HostsApart, network, lists
<1>8. QED
  BY <1>6, <1>7 DEF Alignment

\* A step of readClient that takes a line and leaves the lists alone but for an
\* instant.
LEMMA AlignmentConsumes ==
  ASSUME Alignment, Bookkeeping', NEW c \in Sockets, toServer[c] # << >>, Consumed(c),
         UNCHANGED << clientConnections, peerNames, peer >>, Len(clientLastSeen') = Len(clientLastSeen),
         \/ sock' = sock
         \/ sock[c] # "none" /\ sock' = [sock EXCEPT ![c] = "closing"]
  PROVE  Alignment'
<1>1. /\ \A d \in Sockets : d # c => toServer'[d] = toServer[d]
      /\ \A k \in DOMAIN toServer'[c] : k + 1 \in DOMAIN toServer[c] /\ toServer'[c][k] = toServer[c][k + 1]
  BY ConsumedLines DEF Alignment
<1>2. \A d \in Sockets : sock[d] = "none" => sock'[d] = "none"
  BY DEF Alignment, Bookkeeping, TypeOK
<1>3. \A d \in Sockets : \A k \in DOMAIN toServer'[d] :
        \E j \in DOMAIN toServer[d] : toServer'[d][k] = toServer[d][j]
  BY <1>1
<1>4. QED
  BY <1>2, <1>3, AlignmentKept

LEMMA AlignmentGreeting ==
  ASSUME Alignment, Bookkeeping', NEW c \in Sockets, readGreeting(c)
  PROVE  Alignment'
<1>1. Bookkeeping /\ Reads(c, "greet") /\ toServer[c] # << >> /\ Consumed(c) /\ sock[c] = "open"
  BY DEF readGreeting, Reads, Alignment
<1>2. ~Enlisted(c)
  BY <1>1, GreetingIsNew
<1>3. Head(toServer[c]).host = peer[c].host
  <2>1. 1 \in DOMAIN toServer[c] /\ Head(toServer[c]) = toServer[c][1]
    BY <1>1, EmptySeq, LenProperties DEF Bookkeeping, TypeOK
  <2>2. QED
    BY <2>1 DEF Alignment, LinesNamed
<1>4. /\ clientConnections' = Append(clientConnections, c)
      /\ peerNames' = Append(peerNames, peer[c].host)
      /\ clientLastSeen' = Append(clientLastSeen, 0)
      /\ UNCHANGED << sock, peer >>
  BY <1>3 DEF readGreeting, Enlist
<1>5. ListsParallel'
  <2>1. Parallel(clientConnections', peerNames', clientLastSeen')
    BY <1>1, <1>2, <1>4, ParallelGrown
  <2>2. QED
    BY <1>4, <2>1 DEF Parallel, ListsParallel
<1>6. LinesNamed'
  <2>1. /\ \A d \in Sockets : d # c => toServer'[d] = toServer[d]
        /\ \A k \in DOMAIN toServer'[c] : k + 1 \in DOMAIN toServer[c] /\ toServer'[c][k] = toServer[c][k + 1]
    BY <1>1, ConsumedLines
  <2>2. QED
    BY <1>4, <2>1 DEF Alignment, LinesNamed
<1>7. HostsApart'
  BY <1>4 DEF Alignment, HostsApart
<1>8. QED
  BY <1>5, <1>6, <1>7 DEF Alignment

\* The slot, called in any handler.
LEMMA AlignmentDisconnects ==
  ASSUME Calm, Alignment, Bookkeeping', NEW c \in Sockets, NEW rest,
         clientDisconnected(c, rest) \/ failGreeting(c)
  PROVE  Alignment'
<1>1. CASE clientDisconnected(c, rest)
  BY <1>1, ParallelNow, AlignmentLeave DEF clientDisconnected
<1>2. CASE failGreeting(c)
  <2> DEFINE hostname == Head(toServer[c]).host
  <2>1. Bookkeeping /\ Reads(c, "greet") /\ sock[c] = "open" /\ toServer[c] # << >>
    BY <1>2 DEF failGreeting, Reads, Alignment
  <2>2. ~Enlisted(c)
    BY <2>1, GreetingIsNew
  <2>3. hostname = peer[c].host /\ hostname \in Hostnames
    <3>1. 1 \in DOMAIN toServer[c] /\ Head(toServer[c]) = toServer[c][1]
      BY <2>1, EmptySeq, LenProperties DEF Bookkeeping, TypeOK
    <3>2. QED
      BY <3>1, ClientNames DEF Alignment, LinesNamed, Bookkeeping, TypeOK
  <2>4. Leave(c, << >>, Append(clientConnections, c), Append(peerNames, hostname), Append(clientLastSeen, 0))
    BY <1>2 DEF failGreeting
  <2>5. Parallel(Append(clientConnections, c), Append(peerNames, hostname), Append(clientLastSeen, 0))
    BY <2>1, <2>2, <2>3, ParallelGrown
  <2>6. /\ Append(clientConnections, c) \in Seq(Sockets) /\ Append(peerNames, hostname) \in Seq(Hostnames)
        /\ Append(clientLastSeen, 0) \in Seq(Silence)
        /\ \E j \in DOMAIN Append(clientConnections, c) : Append(clientConnections, c)[j] = c
    BY <2>1, <2>2, <2>3, GrownLists
  <2>7. QED
    BY <2>4, <2>5, <2>6, AlignmentLeave
<1>3. QED
  BY <1>1, <1>2

\* Sequences of the same positions are of the same length.
LEMMA SameLength ==
  ASSUME NEW S, NEW s \in Seq(S), NEW t \in Seq(S), DOMAIN s = DOMAIN t
  PROVE  Len(s) = Len(t)
<1> DEFINE m == Len(s)
           n == Len(t)
<1>1. m \in Nat /\ n \in Nat /\ 1 .. m = 1 .. n
  BY LenProperties
<1> HIDE DEF m, n
<1>2. ~(m < n)
  <2>1. SUFFICES ASSUME m < n PROVE FALSE
    OBVIOUS
  <2>2. n \in 1 .. n /\ n \notin 1 .. m
    BY <1>1, <2>1
  <2>3. QED
    BY <1>1, <2>2
<1>3. ~(n < m)
  <2>1. SUFFICES ASSUME n < m PROVE FALSE
    OBVIOUS
  <2>2. m \in 1 .. m /\ m \notin 1 .. n
    BY <1>1, <2>1
  <2>3. QED
    BY <1>1, <2>2
<1>4. m = n
  BY <1>1, <1>2, <1>3
<1>5. QED
  BY <1>4 DEF m, n

\* While the surroundings are calm, every step keeps the lists side by side.
LEMMA AlignmentStep == Calm /\ Alignment /\ [Next]_vars => Alignment'
<1> SUFFICES ASSUME Calm, Alignment, [Next]_vars
             PROVE  Alignment'
  OBVIOUS
<1>1. Bookkeeping'
  BY BookkeepingStep DEF Alignment
<1>2. CASE Stop
  BY <1>1, <1>2, AlignmentEnds DEF Stop
<1>3. CASE \/ Start \/ Pause \/ Resume
           \/ \E username \in Usernames : AddUser(username)
           \/ UNCHANGED vars
  <2>1. UNCHANGED << network, lists, traffic >>
    BY <1>3 DEF Start, Pause, Resume, AddUser, vars
  <2>2. QED
    BY <1>1, <2>1, AlignmentKept DEF network, lists, traffic
<1>4. CASE checkClientsConnection
  <2>1. UNCHANGED << clientConnections, peerNames, network, traffic >>
    BY <1>4 DEF checkClientsConnection
  <2>2. Len(clientLastSeen') = Len(clientLastSeen)
    <3>1. DOMAIN clientLastSeen' = DOMAIN clientLastSeen
      BY <1>4 DEF checkClientsConnection
    <3>2. clientLastSeen \in Seq(Silence) /\ clientLastSeen' \in Seq(Silence)
      BY <1>1 DEF Alignment, Bookkeeping, TypeOK
    <3>3. QED
      BY <3>1, <3>2, SameLength
  <2>3. QED
    BY <1>1, <2>1, <2>2, AlignmentKept DEF network, traffic
<1>5. CASE disconnectNext
  <2>1. Head(mustDisconnect) \in Sockets
    BY <1>5, HeadTailProperties DEF disconnectNext, Alignment, Bookkeeping, TypeOK
  <2>2. CASE clientDisconnected(Head(mustDisconnect), Tail(mustDisconnect))
    BY <1>1, <2>1, <2>2, AlignmentDisconnects
  <2>3. CASE UNCHANGED << network, lists, traffic >>
    BY <1>1, <2>3, AlignmentKept DEF network, lists, traffic
  <2>4. QED
    BY <1>5, <2>2, <2>3 DEF disconnectNext
<1>6. CASE handleNewConnection
  <2>1. /\ UNCHANGED << lists, peer, traffic >>
        /\ sock' = [c \in Sockets |-> IF ~disabled /\ sock[c] = "queued" THEN "open" ELSE sock[c]]
    BY <1>6 DEF handleNewConnection
  <2>2. QED
    BY <1>1, <2>1, AlignmentKept DEF lists, traffic
<1>7. ASSUME NEW c \in Sockets,
             \/ \E client \in Clients : Connect(c, client)
             \/ \E kind \in {"ping", "roger", "notifyAll"} : Send(c, kind)
      PROVE  Alignment'
  BY <1>1, <1>7, AlignmentConnect, AlignmentSend
<1>8. ASSUME NEW c \in Sockets, \E client \in Clients : ChangeSettings(c, client)
      PROVE  Alignment'
  BY <1>8 DEF ChangeSettings, Calm
<1>9. ASSUME NEW c \in Sockets, ReadNotice(c) \/ Vanish(c) \/ ArriveUnread(c)
      PROVE  Alignment'
  <2>1. UNCHANGED << sock, peer, lists, toServer >>
    BY <1>9 DEF ReadNotice, Vanish, ArriveUnread, network, traffic
  <2>2. QED
    BY <1>1, <2>1, AlignmentKept DEF lists
<1>10. ASSUME NEW c \in Sockets, PeerLeavesQueue(c)
       PROVE  Alignment'
  <2>1. /\ UNCHANGED lists
        /\ \A d \in Sockets : sock[d] = "none" => sock'[d] = "none"
        /\ \A d \in Sockets : sock'[d] # "none" => peer'[d] = peer[d]
        /\ \A d \in Sockets : \A k \in DOMAIN toServer'[d] :
             peer'[d] = peer[d] /\ toServer'[d][k] = toServer[d][k] /\ k \in DOMAIN toServer[d]
    BY <1>10 DEF PeerLeavesQueue, SocketGone, Alignment, Bookkeeping, TypeOK
  <2>2. QED
    BY <1>1, <2>1, AlignmentKept DEF lists
<1>11. ASSUME NEW c \in Sockets,
              \/ PeerCloses(c) \/ RefusalWritten(c) \/ failGreeting(c) \/ readOther(c)
              \/ Hangup(c) /\ (refuseGreeting(c) \/ refuseNotifyAll(c))
       PROVE  Alignment'
  BY <1>1, <1>11, AlignmentDisconnects DEF PeerCloses, RefusalWritten, readOther, Hangup
<1>12. ASSUME NEW c \in Sockets,
              \/ readPing(c) \/ readRoger(c) \/ readNotifyAll(c)
              \/ Refuse(c) /\ (refuseGreeting(c) \/ refuseNotifyAll(c))
       PROVE  Alignment'
  <2>1. toServer[c] # << >> /\ sock[c] = "open"
    BY <1>12 DEF readPing, readRoger, readNotifyAll, refuseGreeting, refuseNotifyAll, Reads
  <2>2. CASE ProcessEnds
    BY <1>1, <2>2, AlignmentEnds
  <2>3. CASE /\ ~ProcessEnds
             /\ Consumed(c)
             /\ UNCHANGED << clientConnections, peerNames, peer >>
             /\ sock' = sock \/ sock' = [sock EXCEPT ![c] = "closing"]
    <3>1. Len(clientLastSeen') = Len(clientLastSeen)
      <4>1. DOMAIN clientLastSeen' = DOMAIN clientLastSeen
        BY <1>12, <2>3 DEF readPing, readRoger, readNotifyAll, Refuse, lists
      <4>2. clientLastSeen \in Seq(Silence) /\ clientLastSeen' \in Seq(Silence)
        BY <1>1 DEF Alignment, Bookkeeping, TypeOK
      <4>3. QED
        BY <4>1, <4>2, SameLength
    <3>2. QED
      BY <1>1, <2>1, <2>3, <3>1, AlignmentConsumes
  <2>4. QED
    BY <1>12, <2>2, <2>3 DEF readPing, readRoger, readNotifyAll, Refuse, lists
<1>13. ASSUME NEW c \in Sockets, readGreeting(c)
       PROVE  Alignment'
  BY <1>1, <1>13, AlignmentGreeting
<1>14. QED
  BY <1>2, <1>3, <1>4, <1>5, <1>6, <1>7, <1>8, <1>9, <1>10, <1>11, <1>12, <1>13
     DEF Next, refuseGreeting, refuseNotifyAll

LEMMA AlignmentHolds ==
  ASSUME Calm
  PROVE  Spec => []Alignment
BY AlignmentInit, AlignmentStep, PTL DEF Spec

\* The three lists speak of the same client at every position (ListsParallel), for
\* any number of clients, as long as the surroundings are calm: pauses, drops,
\* restarts, refusals and failed statements may come in any order.
THEOREM ListsCorrect ==
  ASSUME Calm
  PROVE  Spec => []ListsParallel
<1>1. Alignment => ListsParallel
  BY DEF Alignment
<1>2. QED
  BY <1>1, AlignmentHolds, PTL

-----------------------------------------------------------------------------
(* The table of hosts.                                                     *)

\* No host name holds a quote.
PlainNames == \A hostname \in Hostnames : hostname \notin DOMAIN Escape

\* What the steps do to the table and to the lists that name its rows.
LEMMA TableSteps ==
  ASSUME Bookkeeping, [Next]_vars
  PROVE  \/ /\ ProcessEnds \/ UNCHANGED << clientConnections, peerNames >>
            /\ \/ hosts' = hosts
               \/ \E username, hostname : hosts' = setNotifyAllExcept(hosts, users, username, hostname)
         \/ "adduser" \in Env /\ hosts' = createTables
         \/ \E c \in Sockets :
              \/ readGreeting(c)
              \/ \E rest : clientDisconnected(c, rest)
              \/ failGreeting(c)
              \/ /\ Reads(c, "roger") /\ Consumed(c) /\ UNCHANGED lists
                 /\ \E hostname \in at(peerNames, indexOf(clientConnections, c), Hostnames) :
                      Update("unnoted", hosts, syncIsDone(hosts, hostname))
<1> DEFINE Quiet == /\ ProcessEnds \/ UNCHANGED << clientConnections, peerNames >>
                    /\ \/ hosts' = hosts
                       \/ \E username, hostname : hosts' = setNotifyAllExcept(hosts, users, username, hostname)
<1>1. CASE Stop \/ Start \/ Pause \/ Resume \/ UNCHANGED vars
  BY <1>1 DEF Stop, Start, Pause, Resume, vars, db, lists
<1>2. CASE \E username \in Usernames : AddUser(username)
  BY <1>2 DEF AddUser
<1>3. CASE checkClientsConnection \/ handleNewConnection
  BY <1>3 DEF checkClientsConnection, handleNewConnection, db, lists
<1>4. CASE disconnectNext
  <2>1. CASE clientDisconnected(Head(mustDisconnect), Tail(mustDisconnect))
    <3>1. Head(mustDisconnect) \in Sockets
      BY <1>4, HeadTailProperties DEF disconnectNext, Bookkeeping, TypeOK
    <3>2. QED
      BY <2>1, <3>1
  <2>2. CASE UNCHANGED << db, lists >>
    BY <2>2 DEF db, lists
  <2>3. QED
    BY <1>4, <2>1, <2>2 DEF disconnectNext
<1>5. ASSUME NEW c \in Sockets,
             \/ \E client \in Clients : Connect(c, client) \/ ChangeSettings(c, client)
             \/ \E kind \in {"ping", "roger", "notifyAll"} : Send(c, kind)
             \/ ReadNotice(c) \/ Vanish(c) \/ PeerLeavesQueue(c) \/ ArriveUnread(c) \/ readPing(c)
      PROVE  Quiet
  BY <1>5 DEF Connect, ChangeSettings, Send, ReadNotice, Vanish, PeerLeavesQueue, ArriveUnread, readPing, db, lists
<1>6. ASSUME NEW c \in Sockets,
             PeerCloses(c) \/ RefusalWritten(c) \/ readOther(c) \/ refuseGreeting(c) \/ refuseNotifyAll(c)
      PROVE  Quiet \/ \E rest : clientDisconnected(c, rest)
  BY <1>6 DEF PeerCloses, RefusalWritten, readOther, refuseGreeting, refuseNotifyAll, Hangup, Refuse, db, lists
<1>7. ASSUME NEW c \in Sockets, readRoger(c)
      PROVE  \/ Quiet
             \/ /\ Reads(c, "roger") /\ Consumed(c) /\ UNCHANGED lists
                /\ \E hostname \in at(peerNames, indexOf(clientConnections, c), Hostnames) :
                     Update("unnoted", hosts, syncIsDone(hosts, hostname))
  BY <1>7 DEF readRoger, db
<1>8. ASSUME NEW c \in Sockets, readNotifyAll(c)
      PROVE  Quiet
  BY <1>8 DEF readNotifyAll, Update, lists
<1>9. QED
  BY <1>1, <1>2, <1>3, <1>4, <1>5, <1>6, <1>7, <1>8 DEF Next

\* What Leave does to the table: at most one host's index is voided.
LEMMA LeaveTable ==
  ASSUME NEW c, NEW rest, NEW connections, NEW names, NEW seen, Leave(c, rest, connections, names, seen)
  PROVE  hosts' = hosts \/ \E hostname : hosts' = voidConnection(hosts, hostname)
BY DEF Leave, Update, db

LEMMA OneRowStep ==
  ASSUME PlainNames, Bookkeeping, OneRowPerHostname, [Next]_vars
  PROVE  OneRowPerHostname'
<1>1. UniqueHostnames(hosts) /\ hosts \in Seq(Row)
  BY DEF OneRowPerHostname, UniqueHostnames, Bookkeeping, TypeOK
<1>2. ASSUME SameRows(hosts, hosts')
      PROVE  UniqueHostnames(hosts')
  BY <1>1, <1>2, SameRowsUnique
<1>3. CASE hosts' = hosts \/ hosts' = createTables
  BY <1>1, <1>3 DEF createTables, UniqueHostnames, OneRowPerHostname
<1>4. CASE \/ \E username, hostname : hosts' = setNotifyAllExcept(hosts, users, username, hostname)
           \/ \E hostname : hosts' = syncIsDone(hosts, hostname)
           \/ \E hostname : hosts' = voidConnection(hosts, hostname)
  <2>1. SameRows(hosts, hosts')
    BY <1>1, <1>4, SetNotifyAllExcept, SyncIsDone, VoidConnection
  <2>2. QED
    BY <1>2, <2>1 DEF UniqueHostnames, OneRowPerHostname
<1>5. ASSUME NEW c \in Sockets, readGreeting(c)
      PROVE  OneRowPerHostname'
  <2> DEFINE line == Head(toServer[c])
             socketId == indexOf(Append(clientConnections, c), c)
  <2>1. Reads(c, "greet")
    BY <1>5 DEF readGreeting
  <2>2. /\ line.user \in Usernames /\ line.host \in Hostnames /\ ~Enlisted(c)
    BY <2>1, GreetingIsNew DEF Message
  <2>3. socketId \in Int
    <3>1. Append(clientConnections, c) \in Seq(Sockets)
      BY <2>2, GrownLists
    <3>2. QED
      BY <3>1, IndexOfFinds
  <2>4. /\ \/ hosts' = addHostname(hosts, users, line.user, line.host, socketId)
           \/ hosts' = withHostname(hosts, users, line.user, line.host)
        /\ isUserValid(users, line.user)
    BY <1>5 DEF readGreeting, Update
  <2>5. UniqueHostnames(hosts')
    BY <1>1, <2>2, <2>3, <2>4, AddHostname, WithHostname DEF PlainNames, isUserValid
  <2>6. QED
    BY <2>5 DEF UniqueHostnames, OneRowPerHostname
<1>6. ASSUME NEW c \in Sockets, failGreeting(c) \/ \E rest : clientDisconnected(c, rest)
      PROVE  OneRowPerHostname'
  <2>1. hosts' = hosts \/ \E hostname : hosts' = voidConnection(hosts, hostname)
    BY <1>6, LeaveTable DEF failGreeting, clientDisconnected
  <2>2. QED
    BY <2>1, <1>3, <1>4
<1>7. QED
  BY <1>3, <1>4, <1>5, <1>6, TableSteps DEF Update

\* The table holds one row for each host name, for any names without quotes and
\* whatever the surroundings do (OneRowPerHostname): addHostname looks a name up
\* before it inserts it, and no other statement changes a name.
THEOREM OneRowCorrect ==
  ASSUME PlainNames
  PROVE  Spec => []OneRowPerHostname
<1>1. Init => OneRowPerHostname
  BY DEF Init, OneRowPerHostname
<1>2. QED
  BY <1>1, OneRowStep, BookkeepingHolds, PTL DEF Spec

-----------------------------------------------------------------------------
(* Who can be reached.                                                     *)

LEMMA ReachableStep ==
  ASSUME Calm, "adduser" \notin Env, "unstored" \notin Env, PlainNames,
         Alignment, ListedClientIsReachable, [Next]_vars
  PROVE  ListedClientIsReachable'
<1>1. /\ Bookkeeping /\ hosts \in Seq(Row) /\ peerNames \in Seq(Hostnames)
      /\ clientConnections \in Seq(Sockets)
  BY DEF Alignment, Bookkeeping, TypeOK
<1>2. CASE ProcessEnds
  BY <1>2 DEF ProcessEnds, ListedClientIsReachable
<1>3. ASSUME UNCHANGED peerNames, SameRows(hosts, hosts'),
             \A id \in DOMAIN hosts : hosts'[id].socket_id = hosts[id].socket_id
      PROVE  ListedClientIsReachable'
  BY <1>3 DEF ListedClientIsReachable, SameRows
<1>4. CASE /\ UNCHANGED peerNames
           /\ \/ \E username, hostname : hosts' = setNotifyAllExcept(hosts, users, username, hostname)
              \/ \E hostname : hosts' = syncIsDone(hosts, hostname)
  <2>1. SameRows(hosts, hosts') /\ \A id \in DOMAIN hosts : hosts'[id].socket_id = hosts[id].socket_id
    BY <1>1, <1>4, SetNotifyAllExcept, SyncIsDone
  <2>2. QED
    BY <1>3, <1>4, <2>1
<1>5. CASE UNCHANGED << peerNames, hosts >>
  BY <1>5 DEF ListedClientIsReachable
<1>6. ASSUME NEW c \in Sockets, readGreeting(c)
      PROVE  ListedClientIsReachable'
  <2> DEFINE line == Head(toServer[c])
             connections == Append(clientConnections, c)
             socketId == indexOf(connections, c)
  <2>1. Reads(c, "greet")
    BY <1>6 DEF readGreeting
  <2>2. /\ line.user \in Usernames /\ line.host \in Hostnames /\ ~Enlisted(c)
    BY <1>1, <2>1, GreetingIsNew DEF Message
  <2>3. socketId \in Int /\ socketId # -1
    <3>1. connections \in Seq(Sockets) /\ \E i \in DOMAIN connections : connections[i] = c
      BY <1>1, <2>2, GrownLists
    <3>2. QED
      BY <3>1, IndexOfFinds
  <2>4. /\ hosts' = addHostname(hosts, users, line.user, line.host, socketId)
        /\ peerNames' = Append(peerNames, line.host)
    BY <1>6 DEF readGreeting, Enlist, Update
  <2> HIDE DEF line, socketId
  <2>5. /\ DOMAIN hosts \subseteq DOMAIN hosts'
        /\ \A id \in DOMAIN hosts :
             /\ hosts'[id].hostname = hosts[id].hostname
             /\ hosts[id].hostname # line.host => hosts'[id].socket_id = hosts[id].socket_id
        /\ \A id \in DOMAIN hosts' : hosts'[id].hostname = line.host => hosts'[id].socket_id = socketId
        /\ \E id \in DOMAIN hosts' : hosts'[id].hostname = line.host
    <3> DEFINE new == addHostname(hosts, users, line.user, line.host, socketId)
    <3>1. line.host \notin DOMAIN Escape
      BY <2>2 DEF PlainNames
    <3>2. DOMAIN hosts \subseteq DOMAIN new
      BY <1>1, <2>2, <2>3, AddHostname
    <3>3. \A id \in DOMAIN hosts : new[id].hostname = hosts[id].hostname
      BY <1>1, <2>2, <2>3, AddHostnameKeeps
    <3>4. \A id \in DOMAIN hosts :
            hosts[id].hostname # line.host => new[id].socket_id = hosts[id].socket_id
      BY <1>1, <2>2, <2>3, AddHostnameKeeps
    <3>5. \A id \in DOMAIN new : new[id].hostname = line.host => new[id].socket_id = socketId
      BY <1>1, <2>2, <2>3, AddHostname
    <3>6. \E id \in DOMAIN new : new[id].hostname = line.host
      BY <1>1, <2>2, <2>3, <3>1, AddHostname
    <3>7. hosts' = new
      BY <2>4
    <3> HIDE DEF new
    <3>8. QED
      BY <3>2, <3>3, <3>4, <3>5, <3>6, <3>7
  <2>6. \A i \in DOMAIN peerNames' : peerNames'[i] = line.host \/ \E j \in DOMAIN peerNames : peerNames'[i] = peerNames[j]
    <3>1. /\ Append(peerNames, line.host) \in Seq(Hostnames)
          /\ Len(Append(peerNames, line.host)) = Len(peerNames) + 1
          /\ \A i \in 1 .. Len(peerNames) : Append(peerNames, line.host)[i] = peerNames[i]
          /\ Append(peerNames, line.host)[Len(peerNames) + 1] = line.host
      BY <1>1, <2>2, AppendProperties
    <3>2. /\ DOMAIN peerNames' = 1 .. Len(peerNames) + 1
          /\ DOMAIN peerNames = 1 .. Len(peerNames) /\ Len(peerNames) \in Nat
      BY <1>1, <2>4, <3>1, LenProperties
    <3>3. QED
      BY <2>4, <3>1, <3>2
  <2>7. QED
    BY <2>3, <2>5, <2>6 DEF ListedClientIsReachable
<1>7. ASSUME NEW c \in Sockets, NEW rest, NEW connections \in Seq(Sockets), NEW names \in Seq(Hostnames), NEW seen,
             Leave(c, rest, connections, names, seen), Len(names) = Len(connections),
             \A i \in DOMAIN names : names[i] = peer[c].host \/ \E j \in DOMAIN peerNames : names[i] = peerNames[j],
             \A i \in DOMAIN connections : connections[i] = c => names[i] = peer[c].host
      PROVE  ListedClientIsReachable'
  <2> DEFINE socketId == indexOf(connections, c)
  <2>1. CASE UNCHANGED << lists, hosts >>
    BY <1>5, <2>1 DEF lists
  <2>2. ASSUME socketId # -1, NEW hostname \in at(names, socketId, Hostnames),
               hosts' = voidConnection(hosts, hostname), peerNames' = removeAll(names, hostname)
        PROVE  ListedClientIsReachable'
    <3>1. hostname = peer[c].host
      <4>1. socketId + 1 \in DOMAIN connections /\ connections[socketId + 1] = c
        BY <2>2, IndexOfFinds, LenProperties
      <4>2. socketId + 1 \in DOMAIN names
        BY <1>7, <4>1, LenProperties
      <4>3. hostname = names[socketId + 1]
        BY <2>2, <4>2 DEF at, InRange
      <4>4. QED
        BY <1>7, <4>1, <4>3
    <3>2. \A i \in DOMAIN peerNames' :
            /\ peerNames'[i] # hostname
            /\ \E j \in DOMAIN peerNames : peerNames'[i] = peerNames[j]
      BY <1>7, <2>2, <3>1, RemoveAllType
    <3>3. /\ SameRows(hosts, hosts')
          /\ \A id \in DOMAIN hosts : hosts[id].hostname # hostname => hosts'[id].socket_id = hosts[id].socket_id
      BY <1>1, <2>2, VoidConnection
    <3>4. QED
      BY <3>2, <3>3 DEF ListedClientIsReachable, SameRows
  <2>3. QED
    BY <1>2, <1>7, <2>1, <2>2 DEF Leave, Update
<1>8. ASSUME NEW c \in Sockets, NEW rest, clientDisconnected(c, rest)
      PROVE  ListedClientIsReachable'
  <2>1. \A i \in DOMAIN clientConnections : clientConnections[i] = c => peerNames[i] = peer[c].host
    BY DEF Alignment, ListsParallel
  <2>2. Len(peerNames) = Len(clientConnections)
    BY DEF Alignment, ListsParallel
  <2>3. QED
    BY <1>1, <1>7, <1>8, <2>1, <2>2 DEF clientDisconnected
<1>9. ASSUME NEW c \in Sockets, failGreeting(c)
      PROVE  ListedClientIsReachable'
  <2> DEFINE connections == Append(clientConnections, c)
             hostname == peer[c].host
             names == Append(peerNames, hostname)
  <2>1. Reads(c, "greet") /\ sock[c] = "open" /\ toServer[c] # << >>
    BY <1>9 DEF failGreeting, Reads
  <2>2. ~Enlisted(c) /\ hostname \in Hostnames
    BY <1>1, <2>1, GreetingIsNew, ClientNames DEF Bookkeeping, TypeOK
  <2>3. Head(toServer[c]).host = hostname
    <3>1. 1 \in DOMAIN toServer[c] /\ Head(toServer[c]) = toServer[c][1]
      BY <1>1, <2>1, EmptySeq, LenProperties DEF Bookkeeping, TypeOK
    <3>2. QED
      BY <3>1 DEF Alignment, LinesNamed
  <2>4. Leave(c, << >>, connections, names, Append(clientLastSeen, 0))
    BY <1>9, <2>3 DEF failGreeting
  <2>5. Parallel(connections, names, Append(clientLastSeen, 0)) /\ connections \in Seq(Sockets) /\ names \in Seq(Hostnames)
    BY <1>1, <2>1, <2>2, ParallelGrown, GrownLists
  <2>6. \A i \in DOMAIN names : names[i] = hostname \/ \E j \in DOMAIN peerNames : names[i] = peerNames[j]
    <3>1. /\ Len(names) = Len(peerNames) + 1
          /\ \A i \in 1 .. Len(peerNames) : names[i] = peerNames[i]
          /\ names[Len(peerNames) + 1] = hostname
      BY <1>1, <2>2, AppendProperties
    <3>2. /\ DOMAIN names = 1 .. Len(names)
          /\ DOMAIN peerNames = 1 .. Len(peerNames) /\ Len(peerNames) \in Nat
      BY <1>1, <2>5, LenProperties
    <3>3. QED
      BY <3>1, <3>2
  <2> HIDE DEF names, connections
  <2>7. QED
    BY <1>7, <2>4, <2>5, <2>6 DEF Parallel
<1>10. QED
  BY <1>1, <1>2, <1>4, <1>5, <1>6, <1>8, <1>9, TableSteps DEF lists, Update

\* A client in the lists has a row with an index (ListedClientIsReachable), as long
\* as the surroundings are calm, nobody adds users, no host name holds a quote and no
\* UPDATE of a socket_id fails, of which addHostname and voidConnection take no notice:
\* the index may be another client's by then, but a change by somebody else never
\* passes the client over.  Failing SELECTs, INSERTs and UPDATEs of must_sync are
\* allowed, and restarts, drops and refusals.
THEOREM ReachableCorrect ==
  ASSUME Calm, "adduser" \notin Env, "unstored" \notin Env, PlainNames
  PROVE  Spec => []ListedClientIsReachable
<1>1. Init => ListedClientIsReachable
  BY DEF Init, ListedClientIsReachable
<1>2. QED
  BY <1>1, ReachableStep, AlignmentHolds, PTL DEF Spec

-----------------------------------------------------------------------------
(* Who ends a synchronisation.                                             *)

\* A connection that is not listed has a greeting, or a stranger's line, in front
\* of whatever else it sends.
GreetsFirst ==
  \A c \in Sockets :
    sock[c] \in {"queued", "open"} /\ ~Enlisted(c) =>
      toServer[c] # << >> /\ Head(toServer[c]).kind \in {"greet", "other"}

\* A step that takes no first line keeps the claim for a connection.
LEMMA GreetsFirstKept ==
  ASSUME NEW c \in Sockets, GreetsFirst, toServer'[c] = toServer[c],
         Enlisted(c) => Enlisted(c)',
         sock'[c] \in {"queued", "open"} => sock[c] \in {"queued", "open"}
  PROVE  sock'[c] \in {"queued", "open"} /\ ~Enlisted(c)' =>
           toServer'[c] # << >> /\ Head(toServer'[c]).kind \in {"greet", "other"}
BY DEF GreetsFirst

\* The slot ends its own connection and leaves the others as they are.
LEMMA GreetsFirstLeave ==
  ASSUME Bookkeeping, GreetsFirst, NEW c \in Sockets, NEW rest, NEW connections \in Seq(Sockets), NEW names, NEW seen,
         \A d \in Sockets : Enlisted(d) => \E i \in DOMAIN connections : connections[i] = d,
         Leave(c, rest, connections, names, seen)
  PROVE  GreetsFirst'
<1>1. CASE ProcessEnds
  BY <1>1 DEF ProcessEnds, GreetsFirst
<1>2. CASE /\ SocketGone(c)
           /\ UNCHANGED lists \/ clientConnections' = removeAll(connections, c)
  <2>1. sock'[c] = "none" /\ \A d \in Sockets : d # c => sock'[d] = sock[d] /\ toServer'[d] = toServer[d]
    BY <1>2 DEF SocketGone, Bookkeeping, TypeOK
  <2>2. ASSUME NEW d \in Sockets, d # c, Enlisted(d)
        PROVE  Enlisted(d)'
    <3>1. CASE UNCHANGED lists
      BY <2>2, <3>1 DEF lists, Enlisted
    <3>2. CASE clientConnections' = removeAll(connections, c)
      BY <2>2, <3>2, RemoveAllLeaves DEF Enlisted
    <3>3. QED
      BY <1>2, <3>1, <3>2
  <2>3. \A d \in Sockets : d # c =>
          (sock'[d] \in {"queued", "open"} /\ ~Enlisted(d)' =>
             toServer'[d] # << >> /\ Head(toServer'[d]).kind \in {"greet", "other"})
    BY <2>1, <2>2, GreetsFirstKept
  <2>4. QED
    BY <2>1, <2>3 DEF GreetsFirst
<1>3. QED
  BY <1>1, <1>2 DEF Leave, lists

LEMMA GreetsFirstDisconnects ==
  ASSUME Bookkeeping, GreetsFirst, NEW c \in Sockets, NEW rest,
         clientDisconnected(c, rest) \/ failGreeting(c)
  PROVE  GreetsFirst'
<1>1. CASE clientDisconnected(c, rest)
  <2>1. clientConnections \in Seq(Sockets)
    BY DEF Bookkeeping, TypeOK
  <2>2. QED
    BY <1>1, <2>1, GreetsFirstLeave DEF clientDisconnected, Enlisted
<1>2. CASE failGreeting(c)
  <2> DEFINE connections == Append(clientConnections, c)
  <2>1. clientConnections \in Seq(Sockets)
    BY DEF Bookkeeping, TypeOK
  <2>2. /\ connections \in Seq(Sockets) /\ Len(connections) = Len(clientConnections) + 1
        /\ \A i \in 1 .. Len(clientConnections) : connections[i] = clientConnections[i]
    BY <2>1, AppendProperties
  <2>3. /\ DOMAIN connections = 1 .. Len(connections)
        /\ DOMAIN clientConnections = 1 .. Len(clientConnections) /\ Len(clientConnections) \in Nat
    BY <2>1, <2>2, LenProperties
  <2>4. \A d \in Sockets : Enlisted(d) => \E i \in DOMAIN connections : connections[i] = d
    BY <2>2, <2>3 DEF Enlisted
  <2>5. QED
    BY <1>2, <2>2, <2>4, GreetsFirstLeave DEF failGreeting
<1>3. QED
  BY <1>1, <1>2

\* A line other than a greeting is taken from a listed connection only, or refused.
LEMMA GreetsFirstConsumes ==
  ASSUME Bookkeeping, GreetsFirst, NEW c \in Sockets, toServer[c] # << >>, Consumed(c),
         Enlisted(c)' \/ sock'[c] = "closing",
         \A d \in Sockets : (Enlisted(d) => Enlisted(d)') /\ (d # c => sock'[d] = sock[d])
  PROVE  GreetsFirst'
<1>1. \A d \in Sockets : d # c => toServer'[d] = toServer[d]
  BY ConsumedLines
<1>2. QED
  BY <1>1, GreetsFirstKept DEF GreetsFirst

LEMMA GreetsFirstStep == Bookkeeping /\ GreetsFirst /\ [Next]_vars => GreetsFirst'
<1> SUFFICES ASSUME Bookkeeping, GreetsFirst, [Next]_vars
             PROVE  GreetsFirst'
  OBVIOUS
<1>1. ASSUME UNCHANGED << sock, clientConnections, toServer >>
      PROVE  GreetsFirst'
  BY <1>1 DEF GreetsFirst, Enlisted
<1>2. CASE ProcessEnds
  BY <1>2 DEF ProcessEnds, GreetsFirst
<1>3. CASE \/ Stop \/ Start \/ Pause \/ Resume
           \/ \E username \in Usernames : AddUser(username)
           \/ checkClientsConnection \/ UNCHANGED vars
  BY <1>1, <1>2, <1>3
     DEF Stop, Start, Pause, Resume, AddUser, checkClientsConnection, vars, network, lists, traffic
<1>4. CASE disconnectNext
  <2>1. Head(mustDisconnect) \in Sockets
    BY <1>4, HeadTailProperties DEF disconnectNext, Bookkeeping, TypeOK
  <2>2. QED
    BY <1>1, <1>4, <2>1, GreetsFirstDisconnects DEF disconnectNext, network, lists, traffic
<1>5. CASE handleNewConnection
  <2>1. /\ UNCHANGED << clientConnections, toServer >>
        /\ \A d \in Sockets : sock'[d] \in {"queued", "open"} => sock[d] \in {"queued", "open"}
    BY <1>5 DEF handleNewConnection, lists, traffic
  <2>2. QED
    BY <2>1, GreetsFirstKept DEF GreetsFirst, Enlisted
<1>6. ASSUME NEW c \in Sockets, NEW client \in Clients, Connect(c, client)
      PROVE  GreetsFirst'
  <2>1. PICK line : toServer' = [toServer EXCEPT ![c] = << line >>] /\ line.kind \in {"greet", "other"}
    BY <1>6, LineType DEF Connect, Kinds
  <2>2. /\ toServer'[c] = << line >>
        /\ \A d \in Sockets : d # c => toServer'[d] = toServer[d] /\ sock'[d] = sock[d]
        /\ UNCHANGED clientConnections
    BY <1>6, <2>1 DEF Connect, Bookkeeping, TypeOK, lists
  <2>3. toServer'[c] # << >> /\ Head(toServer'[c]) = line
    BY <2>2
  <2>4. \A d \in Sockets : d # c =>
          (sock'[d] \in {"queued", "open"} /\ ~Enlisted(d)' =>
             toServer'[d] # << >> /\ Head(toServer'[d]).kind \in {"greet", "other"})
    BY <2>2, GreetsFirstKept DEF Enlisted
  <2>5. QED
    BY <2>1, <2>3, <2>4 DEF GreetsFirst
<1>7. ASSUME NEW c \in Sockets, NEW kind \in {"ping", "roger", "notifyAll"}, Send(c, kind)
      PROVE  GreetsFirst'
  <2> DEFINE line == Line(kind, peer[c])
  <2>1. /\ toServer'[c] = Append(toServer[c], line)
        /\ \A d \in Sockets : d # c => toServer'[d] = toServer[d]
        /\ UNCHANGED << sock, clientConnections >>
    BY <1>7 DEF Send, Bookkeeping, TypeOK, network, lists
  <2>2. line \in Message /\ toServer[c] \in Seq(Message)
    BY LineType DEF Kinds, Bookkeeping, TypeOK, Message
  <2> HIDE DEF line
  <2>3. /\ Append(toServer[c], line) # << >>
        /\ toServer[c] # << >> => Head(Append(toServer[c], line)) = Head(toServer[c])
    BY <2>2, AppendProperties, HeadTailAppend
  <2>4. QED
    BY <2>1, <2>3 DEF GreetsFirst, Enlisted
<1>8. ASSUME NEW c \in Sockets,
             \/ \E client \in Clients : ChangeSettings(c, client)
             \/ ReadNotice(c) \/ Vanish(c) \/ ArriveUnread(c)
      PROVE  GreetsFirst'
  BY <1>1, <1>8 DEF ChangeSettings, ReadNotice, Vanish, ArriveUnread, network, lists, traffic
<1>9. ASSUME NEW c \in Sockets, PeerLeavesQueue(c)
      PROVE  GreetsFirst'
  <2>1. /\ sock'[c] = "none" /\ UNCHANGED clientConnections
        /\ \A d \in Sockets : d # c => sock'[d] = sock[d] /\ toServer'[d] = toServer[d]
    BY <1>9 DEF PeerLeavesQueue, SocketGone, Bookkeeping, TypeOK, lists
  <2>2. QED
    BY <2>1 DEF GreetsFirst, Enlisted
<1>10. ASSUME NEW c \in Sockets,
              \/ PeerCloses(c) \/ RefusalWritten(c) \/ failGreeting(c) \/ readOther(c)
              \/ Hangup(c) /\ (refuseGreeting(c) \/ refuseNotifyAll(c))
       PROVE  GreetsFirst'
  BY <1>10, GreetsFirstDisconnects DEF PeerCloses, RefusalWritten, readOther, Hangup
<1>11. ASSUME NEW c \in Sockets,
              \/ readPing(c) \/ readRoger(c) \/ readNotifyAll(c)
              \/ Refuse(c) /\ (refuseGreeting(c) \/ refuseNotifyAll(c))
       PROVE  GreetsFirst'
  <2>1. CASE readPing(c) \/ readRoger(c) \/ readNotifyAll(c)
    <3>1. Enlisted(c) /\ toServer[c] # << >>
      BY <2>1 DEF readPing, readRoger, readNotifyAll, Reads, GreetsFirst
    <3>2. CASE Consumed(c) /\ UNCHANGED << sock, clientConnections >>
      BY <3>1, <3>2, GreetsFirstConsumes DEF Enlisted
    <3>3. QED
      BY <1>2, <2>1, <3>2 DEF readPing, readRoger, readNotifyAll, lists
  <2>2. CASE Refuse(c) /\ (refuseGreeting(c) \/ refuseNotifyAll(c))
    <3>1. /\ Consumed(c) /\ UNCHANGED clientConnections /\ toServer[c] # << >>
          /\ sock'[c] = "closing" /\ \A d \in Sockets : d # c => sock'[d] = sock[d]
      BY <2>2 DEF Refuse, refuseGreeting, refuseNotifyAll, Reads, Bookkeeping, TypeOK, lists
    <3>2. QED
      BY <3>1, GreetsFirstConsumes DEF Enlisted
  <2>3. QED
    BY <1>11, <2>1, <2>2
<1>12. ASSUME NEW c \in Sockets, readGreeting(c)
       PROVE  GreetsFirst'
  <2>1. /\ Consumed(c) /\ toServer[c] # << >> /\ UNCHANGED sock
        /\ clientConnections' = Append(clientConnections, c)
    BY <1>12 DEF readGreeting, Reads, Enlist
  <2>2. /\ clientConnections \in Seq(Sockets)
        /\ Len(clientConnections) \in Nat /\ DOMAIN clientConnections = 1 .. Len(clientConnections)
    BY LenProperties DEF Bookkeeping, TypeOK
  <2>3. /\ clientConnections' \in Seq(Sockets) /\ Len(clientConnections') = Len(clientConnections) + 1
        /\ \A i \in 1 .. Len(clientConnections) : clientConnections'[i] = clientConnections[i]
        /\ clientConnections'[Len(clientConnections) + 1] = c
    BY <2>1, <2>2, AppendProperties
  <2>4. DOMAIN clientConnections' = 1 .. Len(clientConnections) + 1
    BY <2>3, LenProperties
  <2>5. Enlisted(c)' /\ \A d : Enlisted(d) => Enlisted(d)'
    BY <2>2, <2>3, <2>4 DEF Enlisted
  <2>6. QED
    BY <2>1, <2>5, GreetsFirstConsumes
<1>13. QED
  BY <1>3, <1>4, <1>5, <1>6, <1>7, <1>8, <1>9, <1>10, <1>11, <1>12
     DEF Next, refuseGreeting, refuseNotifyAll

LEMMA GreetsFirstHolds == Spec => []GreetsFirst
<1>1. Init => GreetsFirst
  BY DEF Init, GreetsFirst
<1>2. QED
  BY <1>1, GreetsFirstStep, BookkeepingHolds, PTL DEF Spec

\* A table whose rows keep their names, and their must_sync if it is set, releases
\* nobody.
LEMMA NobodyReleased ==
  ASSUME NEW hostname, DOMAIN hosts \subseteq DOMAIN hosts',
         \A id \in DOMAIN hosts :
           /\ hosts'[id].hostname = hosts[id].hostname
           /\ hosts[id].hostname = hostname /\ hosts[id].must_sync = 1 => hosts'[id].must_sync = 1
  PROVE  Owes(hostname) => Owes(hostname)'
BY DEF Owes

LEMMA RogerStep ==
  ASSUME "adduser" \notin Env, Alignment, GreetsFirst, [Next]_vars,
         NEW hostname \in Hostnames, Owes(hostname), ~Owes(hostname)'
  PROVE  \E c \in Sockets : /\ toServer[c] # << >> /\ toServer'[c] = Tail(toServer[c])
                            /\ Head(toServer[c]).kind = "roger" /\ Head(toServer[c]).host = hostname
<1>1. Bookkeeping /\ hosts \in Seq(Row)
  BY DEF Alignment, Bookkeeping, TypeOK
<1>2. ~(hosts' = hosts)
  BY DEF Owes
<1>3. ASSUME NEW username, NEW h, hosts' = setNotifyAllExcept(hosts, users, username, h)
      PROVE  FALSE
  <2>1. /\ SameRows(hosts, hosts')
        /\ \A id \in DOMAIN hosts : hosts[id].must_sync = 1 => hosts'[id].must_sync = 1
    BY <1>1, <1>3, SetNotifyAllExcept
  <2>2. QED
    BY <2>1, NobodyReleased DEF SameRows
<1>4. ASSUME NEW h, hosts' = voidConnection(hosts, h)
      PROVE  FALSE
  <2>1. /\ SameRows(hosts, hosts')
        /\ \A id \in DOMAIN hosts : hosts'[id].must_sync = hosts[id].must_sync
    BY <1>1, <1>4, VoidConnection
  <2>2. QED
    BY <2>1, NobodyReleased DEF SameRows
<1>5. ASSUME NEW c \in Sockets, readGreeting(c)
      PROVE  FALSE
  <2> DEFINE line == Head(toServer[c])
             connections == Append(clientConnections, c)
             socketId == indexOf(connections, c)
             new == addHostname(hosts, users, line.user, line.host, socketId)
             kept == withHostname(hosts, users, line.user, line.host)
  <2>1. Reads(c, "greet") /\ (hosts' = new \/ hosts' = kept)
    BY <1>5 DEF readGreeting, Update
  <2>2. /\ line.user \in Usernames /\ line.host \in Hostnames /\ ~Enlisted(c)
    BY <1>1, <2>1, GreetingIsNew DEF Message
  <2>3. socketId \in Int
    <3>1. connections \in Seq(Sockets)
      BY <1>1, <2>2, GrownLists
    <3>2. QED
      BY <3>1, IndexOfFinds
  <2> HIDE DEF line, socketId
  <2>4. DOMAIN hosts \subseteq DOMAIN new
    BY <1>1, <2>2, <2>3, AddHostname
  <2>5. \A id \in DOMAIN hosts : new[id].hostname = hosts[id].hostname /\ new[id].must_sync = hosts[id].must_sync
    BY <1>1, <2>2, <2>3, AddHostnameKeeps
  <2>6. DOMAIN hosts \subseteq DOMAIN kept
    BY <1>1, <2>2, WithHostname
  <2>7. \A id \in DOMAIN hosts : kept[id] = hosts[id]
    BY <1>1, <2>2, WithHostnameKeeps
  <2> HIDE DEF new, kept
  <2>8. QED
    BY <2>1, <2>4, <2>5, <2>6, <2>7, NobodyReleased
<1>6. ASSUME NEW c \in Sockets, failGreeting(c) \/ \E rest : clientDisconnected(c, rest)
      PROVE  FALSE
  BY <1>2, <1>4, <1>6, LeaveTable DEF failGreeting, clientDisconnected
<1>7. ASSUME NEW c \in Sockets, Reads(c, "roger"), Consumed(c),
             NEW h \in at(peerNames, indexOf(clientConnections, c), Hostnames), hosts' = syncIsDone(hosts, h)
      PROVE  /\ toServer[c] # << >> /\ toServer'[c] = Tail(toServer[c])
             /\ Head(toServer[c]).kind = "roger" /\ Head(toServer[c]).host = hostname
  <2> DEFINE socketId == indexOf(clientConnections, c)
  <2>1. /\ toServer[c] # << >> /\ toServer'[c] = Tail(toServer[c]) /\ Head(toServer[c]).kind = "roger"
        /\ sock[c] = "open"
    BY <1>1, <1>7 DEF Reads, Consumed, Bookkeeping, TypeOK
  <2>2. h = hostname
    <3>1. SUFFICES ASSUME h # hostname PROVE FALSE
      OBVIOUS
    <3>2. /\ SameRows(hosts, hosts')
          /\ \A id \in DOMAIN hosts : hosts[id].hostname # h => hosts'[id].must_sync = hosts[id].must_sync
      BY <1>1, <1>7, SyncIsDone
    <3>3. QED
      BY <3>1, <3>2, NobodyReleased DEF SameRows
  <2>3. Enlisted(c)
    BY <2>1 DEF GreetsFirst
  <2>4. clientConnections \in Seq(Sockets) /\ DOMAIN clientConnections = 1 .. Len(clientConnections)
    BY <1>1, LenProperties DEF Bookkeeping, TypeOK
  <2>5. socketId # -1 /\ socketId + 1 \in DOMAIN clientConnections /\ clientConnections[socketId + 1] = c
    BY <2>3, <2>4, IndexOfFinds DEF Enlisted
  <2>6. DOMAIN peerNames = DOMAIN clientConnections
    <3>1. DOMAIN peerNames = 1 .. Len(peerNames)
      BY <1>1, LenProperties DEF Bookkeeping, TypeOK
    <3>2. QED
      BY <2>4, <3>1 DEF Alignment, ListsParallel
  <2>7. h = peerNames[socketId + 1]
    BY <1>7, <2>5, <2>6 DEF at, InRange
  <2>8. h = peer[c].host
    BY <2>5, <2>7 DEF Alignment, ListsParallel
  <2>9. Head(toServer[c]).host = peer[c].host
    <3>1. 1 \in DOMAIN toServer[c] /\ Head(toServer[c]) = toServer[c][1]
      BY <1>1, <2>1, EmptySeq, LenProperties DEF Bookkeeping, TypeOK
    <3>2. QED
      BY <3>1 DEF Alignment, LinesNamed
  <2>10. QED
    BY <2>1, <2>2, <2>8, <2>9
<1>8. QED
  BY <1>1, <1>2, <1>3, <1>5, <1>6, <1>7, TableSteps DEF Update

\* A host that owes a synchronisation is released by its own "2. Roger" and by
\* nothing else (ReleasedByItsOwnRoger), as long as the surroundings are calm and
\* nobody adds users: no greeting, failure, disconnection, restart or Roger of
\* another host takes must_sync back.
THEOREM RogerCorrect ==
  ASSUME Calm, "adduser" \notin Env
  PROVE  Spec => ReleasedByItsOwnRoger
<1> DEFINE Release == \A hostname \in Hostnames :
                        (Owes(hostname) /\ ~Owes(hostname)') =>
                          \E c \in Sockets : /\ toServer[c] # << >> /\ toServer'[c] = Tail(toServer[c])
                                            /\ Head(toServer[c]).kind = "roger" /\ Head(toServer[c]).host = hostname
<1>1. Alignment /\ GreetsFirst /\ [Next]_vars => [Release]_vars
  BY RogerStep
<1>2. Spec => [][Release]_vars
  BY <1>1, AlignmentHolds, GreetsFirstHolds, PTL DEF Spec
<1>3. QED
  BY <1>2 DEF ReleasedByItsOwnRoger

-----------------------------------------------------------------------------
(* While nobody leaves.                                                    *)

\* The surroundings that take nobody out of the lists, and fail no statement.
NobodyLeaves == Env \subseteq {"pause", "coalesce", "stranger", "adduser"}

\* A line carries the account of its sender, and a stranger's comes first, over a
\* connection that is not listed.
LinesSigned ==
  \A c \in Sockets : \A k \in DOMAIN toServer[c] :
    /\ toServer[c][k].user = peer[c].user
    /\ toServer[c][k].kind = "other" => k = 1 /\ ~Enlisted(c)

\* A listed client gave readable names of a valid account, and is not being refused.
Welcome(c) ==
  /\ sock[c] = "open"
  /\ getUserInfoOK(peer[c]) /\ isUserValid(users, peer[c].user)

ListedAreWelcome == \A c \in Sockets : Enlisted(c) => Welcome(c)

\* Notices wait for listed clients only.
NoticesHaveReaders == \A c \in Sockets : ~Enlisted(c) => toClient[c] = << >>

Presence ==
  /\ NobodyLeaves
  /\ LinesSigned /\ ListedAreWelcome /\ NoticesHaveReaders
  /\ mustDisconnect = << >>
  /\ StoredIndexIsCurrent

(* The steps there are then, one by one or by what they leave alone. *)

\* Only the process, the timer or the clock moves, or a connection is accepted.
Aside ==
  /\ UNCHANGED << db, clientConnections, peerNames, peer, toServer, toClient, mustDisconnect >>
  /\ \A d \in Sockets : (sock'[d] = "none" <=> sock[d] = "none") /\ (sock[d] = "open" => sock'[d] = "open")

\* A connection that is not listed ends.
Ends(c) ==
  /\ ~Enlisted(c) /\ SocketGone(c)
  /\ UNCHANGED << db, clientConnections, peerNames, mustDisconnect >>

\* A connection that is not listed is answered "Negative".
Refuses(c) ==
  /\ ~Enlisted(c) /\ toServer[c] # << >> /\ sock[c] = "open" /\ Refuse(c)

\* A line of a listed client is served.
Serves(c) ==
  /\ Enlisted(c) /\ toServer[c] # << >> /\ Consumed(c)
  /\ UNCHANGED << users, sock, alive, peer, clientConnections, peerNames, mustDisconnect >>
  /\ \/ hosts' = hosts /\ UNCHANGED toClient
     \/ hosts' = syncIsDone(hosts, peer[c].host) /\ UNCHANGED toClient
     \/ /\ isUserValid(users, peer[c].user)
        /\ hosts' = setNotifyAllExcept(hosts, users, peer[c].user, peer[c].host)
        /\ notifyClients(clientsToSync(hosts', users, peer[c].user))

\* The line a connection begins with.
LEMMA FirstLine ==
  ASSUME Alignment, Presence, NEW c \in Sockets, toServer[c] # << >>
  PROVE  LET line == Head(toServer[c]) IN
         /\ 1 \in DOMAIN toServer[c] /\ line = toServer[c][1] /\ line \in Message
         /\ line.user = peer[c].user /\ line.host = peer[c].host
         /\ line.kind \in {"greet", "other"} => ~Enlisted(c)
<1>1. toServer[c] \in Seq(Message)
  BY DEF Alignment, Bookkeeping, TypeOK, Message
<1>2. 1 \in DOMAIN toServer[c] /\ Head(toServer[c]) = toServer[c][1]
  BY <1>1, EmptySeq, LenProperties
<1>3. Head(toServer[c]) \in Message
  BY <1>1, HeadTailProperties
<1>4. /\ Head(toServer[c]).user = peer[c].user /\ Head(toServer[c]).host = peer[c].host
      /\ Head(toServer[c]).kind = "other" => ~Enlisted(c)
  BY <1>2 DEF Presence, LinesSigned, Alignment, LinesNamed
<1>5. Head(toServer[c]).kind = "greet" => ~Enlisted(c)
  BY <1>2 DEF Alignment, Bookkeeping, GreetsOnce
<1>6. QED
  BY <1>2, <1>3, <1>4, <1>5

\* A connection that speaks before it is listed greets, or is a stranger's.
LEMMA SpeakerIsListed ==
  ASSUME Alignment, GreetsFirst, NEW c \in Sockets, NEW kind \in {"ping", "roger", "notifyAll"}, Reads(c, kind)
  PROVE  Enlisted(c) /\ toServer[c] # << >> /\ sock[c] = "open"
BY DEF Reads, GreetsFirst

\* clientDisconnected of a connection that is not in the lists touches neither.
LEMMA UnlistedLeaves ==
  ASSUME Alignment, Presence, NEW c \in Sockets, ~Enlisted(c), clientDisconnected(c, << >>)
  PROVE  Ends(c)
<1>1. clientConnections \in Seq(Sockets)
  BY DEF Alignment, Bookkeeping, TypeOK
<1>2. indexOf(clientConnections, c) = -1
  BY <1>1, IndexOfFinds DEF Enlisted
<1>3. QED
  BY <1>2 DEF clientDisconnected, Leave, Ends, Presence, lists, db, process

\* A listed client's position is in both lists, and its name is there.
LEMMA PositionsInRange ==
  ASSUME Alignment
  PROVE  /\ DOMAIN peerNames = DOMAIN clientConnections
         /\ \A c \in Sockets : Enlisted(c) =>
              /\ InRange(peerNames, indexOf(clientConnections, c))
              /\ peerNames[indexOf(clientConnections, c) + 1] = peer[c].host
<1>1. clientConnections \in Seq(Sockets) /\ peerNames \in Seq(Hostnames)
  BY DEF Alignment, Bookkeeping, TypeOK
<1>2. /\ DOMAIN clientConnections = 1 .. Len(clientConnections)
      /\ DOMAIN peerNames = DOMAIN clientConnections
  BY <1>1, LenProperties DEF Alignment, ListsParallel
<1>3. ASSUME NEW c \in Sockets, Enlisted(c)
      PROVE  /\ InRange(peerNames, indexOf(clientConnections, c))
             /\ peerNames[indexOf(clientConnections, c) + 1] = peer[c].host
  <2>1. /\ indexOf(clientConnections, c) + 1 \in DOMAIN clientConnections
        /\ clientConnections[indexOf(clientConnections, c) + 1] = c
    BY <1>1, <1>2, <1>3, IndexOfFinds DEF Enlisted
  <2>2. QED
    BY <1>2, <2>1 DEF InRange, Alignment, ListsParallel
<1>4. QED
  BY <1>2, <1>3

\* The rows that notifyClients goes through have positions in both lists.
LEMMA NobodyIsStale ==
  ASSUME Alignment, Presence, NEW accounts, NEW username, NEW hostname, NEW other,
         hosts' = setNotifyAllExcept(hosts, accounts, username, hostname)
  PROVE  ~Stale(clientsToSync(hosts', accounts, other))
<1>1. hosts \in Seq(Row)
  BY DEF Alignment, Bookkeeping, TypeOK
<1>2. SameRows(hosts, hosts') /\ \A id \in DOMAIN hosts : hosts'[id].socket_id = hosts[id].socket_id
  BY <1>1, SetNotifyAllExcept
<1>3. \A id \in clientsToSync(hosts', accounts, other) : id \in DOMAIN hosts' /\ hosts'[id].socket_id # -1
  BY DEF clientsToSync
<1>4. \A id \in clientsToSync(hosts', accounts, other) : InRange(peerNames, hosts'[id].socket_id)
  BY <1>2, <1>3 DEF Presence, StoredIndexIsCurrent, SameRows
<1>5. QED
  BY <1>4, PositionsInRange DEF Stale, InRange

\* A Roger releases the host of the connection it is read from.
LEMMA RogerIsServed ==
  ASSUME Alignment, GreetsFirst, Presence, NEW c \in Sockets, readRoger(c)
  PROVE  Serves(c) /\ hosts' = syncIsDone(hosts, peer[c].host) /\ UNCHANGED toClient
<1>1. Enlisted(c) /\ toServer[c] # << >>
  BY SpeakerIsListed DEF readRoger
<1>2. InRange(peerNames, indexOf(clientConnections, c)) /\ peerNames[indexOf(clientConnections, c) + 1] = peer[c].host
  BY <1>1, PositionsInRange
<1>3. at(peerNames, indexOf(clientConnections, c), Hostnames) = {peer[c].host}
  BY <1>2 DEF at
<1>4. hosts' = syncIsDone(hosts, peer[c].host) /\ UNCHANGED toClient
  BY <1>2, <1>3 DEF readRoger, Update, Presence, NobodyLeaves
<1>5. QED
  BY <1>1, <1>2, <1>4 DEF readRoger, Serves, lists

\* A report is made in the name of the connection's host and account, and every row
\* that it notifies leads into the lists.
LEMMA ReportIsServed ==
  ASSUME Alignment, GreetsFirst, Presence, NEW c \in Sockets, readNotifyAll(c)
  PROVE  /\ Serves(c) /\ isUserValid(users, peer[c].user)
         /\ hosts' = setNotifyAllExcept(hosts, users, peer[c].user, peer[c].host)
         /\ notifyClients(clientsToSync(hosts', users, peer[c].user))
<1> DEFINE line == Head(toServer[c])
           rows == clientsToSync(hosts', users, line.user)
<1>1. Enlisted(c) /\ toServer[c] # << >>
  BY SpeakerIsListed DEF readNotifyAll
<1>2. /\ hosts' = setNotifyAllExcept(hosts, users, line.user, line.host) /\ UNCHANGED users
      /\ isUserValid(users, line.user)
      /\ line.user = peer[c].user /\ line.host = peer[c].host
  BY <1>1, FirstLine DEF readNotifyAll, Update, Presence, NobodyLeaves
<1>3. ~Stale(rows)
  BY <1>2, NobodyIsStale
<1>4. /\ Consumed(c) /\ notifyClients(rows)
      /\ UNCHANGED << process, sock, alive, peer, lists, keepAliveTimer, mustDisconnect >>
  <2>1. "dbfail" \notin Env
    BY DEF Presence, NobodyLeaves
  <2>2. QED
    BY <1>3, <2>1 DEF readNotifyAll
<1> HIDE DEF line
<1>5. QED
  BY <1>1, <1>2, <1>4 DEF Serves, lists

\* One of them.
PresentStep ==
  \/ Aside
  \/ \E username \in Usernames : AddUser(username)
  \/ \E c \in Sockets :
       \/ \E client \in Clients : Connect(c, client)
       \/ \E kind \in {"ping", "roger", "notifyAll"} : Send(c, kind)
       \/ ReadNotice(c) \/ Ends(c) \/ Refuses(c) \/ Serves(c) \/ readGreeting(c)

\* Each step is one of these.
LEMMA PresentSteps ==
  ASSUME NobodyLeaves, Alignment, GreetsFirst, Presence, [Next]_vars
  PROVE  PresentStep
<1>1. CASE UNCHANGED vars \/ Stop \/ Start \/ Pause \/ Resume
  BY <1>1 DEF PresentStep, NobodyLeaves, Stop, Start, Pause, Resume, Aside, vars, network, lists, traffic
<1>2. CASE checkClientsConnection
  <2>1. \A i \in DOMAIN clientLastSeen : clientLastSeen[i] < Limit /\ clientLastSeen[i] \in Int
    BY <1>2, LenProperties, ElementOfSeq, ServerAssumption
       DEF checkClientsConnection, NobodyLeaves, Alignment, Bookkeeping, TypeOK, Silence
  <2>2. \A i \in DOMAIN clientLastSeen : clientLastSeen'[i] = clientLastSeen[i] + 1
    <3>1. PICK pastMidnight \in {FALSE} \cup (IF "midnight" \in Env THEN {TRUE} ELSE {}) :
            clientLastSeen' = [i \in DOMAIN clientLastSeen |->
                                 IF pastMidnight \/ clientLastSeen[i] > Limit
                                 THEN Limit + 1 ELSE clientLastSeen[i] + 1]
      BY <1>2 DEF checkClientsConnection
    <3>2. pastMidnight = FALSE
      BY <3>1 DEF NobodyLeaves
    <3>3. Limit \in Nat
      BY ServerAssumption
    <3>4. \A i \in DOMAIN clientLastSeen : ~(clientLastSeen[i] > Limit)
      BY <2>1, <3>3
    <3>5. QED
      BY <3>1, <3>2, <3>4, Zenon
  <2>3. {i \in DOMAIN clientLastSeen : clientLastSeen'[i] > Limit} = {}
    BY <2>1, <2>2, ServerAssumption
  <2>4. mustDisconnect' = << >>
    <3>1. mustDisconnect' = Keep(clientConnections, {})
      BY <1>2, <2>3 DEF checkClientsConnection
    <3>2. Keep(clientConnections, {}) \in Seq(Sockets) /\ Len(Keep(clientConnections, {})) = Cardinality({})
      BY KeepType DEF Alignment, Bookkeeping, TypeOK
    <3>3. QED
      BY <3>1, <3>2, FS_EmptySet, EmptySeq
  <2>5. QED
    BY <1>2, <2>4 DEF PresentStep, checkClientsConnection, Aside, Presence, network, traffic
<1>3. CASE disconnectNext
  BY <1>3 DEF disconnectNext, Presence
<1>4. CASE handleNewConnection
  BY <1>4 DEF PresentStep, handleNewConnection, Aside, db, lists, traffic, Alignment, Bookkeeping, TypeOK
<1>5. ASSUME NEW c \in Sockets,
             \/ \E client \in Clients : ChangeSettings(c, client)
             \/ Vanish(c) \/ PeerCloses(c) \/ PeerLeavesQueue(c) \/ failGreeting(c)
      PROVE  FALSE
  BY <1>5 DEF NobodyLeaves, ChangeSettings, Vanish, PeerCloses, PeerLeavesQueue, failGreeting
<1>6. ASSUME NEW c \in Sockets, ArriveUnread(c)
      PROVE  Aside
  BY <1>6 DEF ArriveUnread, Aside, network, lists
<1>7. ASSUME NEW c \in Sockets, RefusalWritten(c)
      PROVE  Ends(c)
  <2>1. ~Enlisted(c) /\ clientDisconnected(c, << >>)
    BY <1>7 DEF RefusalWritten, Presence, ListedAreWelcome, Welcome
  <2>2. QED
    BY <2>1, UnlistedLeaves
<1>8. ASSUME NEW c \in Sockets, readOther(c) \/ refuseGreeting(c)
      PROVE  Ends(c) \/ Refuses(c)
  <2>1. ~Enlisted(c) /\ toServer[c] # << >> /\ sock[c] = "open"
    BY <1>8, FirstLine DEF readOther, refuseGreeting, Reads
  <2>2. QED
    BY <1>8, <2>1, UnlistedLeaves DEF readOther, refuseGreeting, Hangup, Refuses
<1>9. ASSUME NEW c \in Sockets, refuseNotifyAll(c)
      PROVE  FALSE
  <2>1. Reads(c, "notifyAll")
    BY <1>9 DEF refuseNotifyAll
  <2>2. Enlisted(c) /\ toServer[c] # << >>
    BY <2>1, SpeakerIsListed
  <2>3. Welcome(c)
    BY <2>2 DEF Presence, ListedAreWelcome
  <2>4. QED
    BY <1>9, <2>2, <2>3, FirstLine DEF refuseNotifyAll, Unwelcome, NobodyLeaves, Welcome, getUserInfoOK
<1>10. ASSUME NEW c \in Sockets, readPing(c)
       PROVE  Serves(c)
  BY <1>10, SpeakerIsListed DEF readPing, Serves, db
<1>11. ASSUME NEW c \in Sockets, readRoger(c)
       PROVE  Serves(c)
  BY <1>11, RogerIsServed
<1>12. ASSUME NEW c \in Sockets, readNotifyAll(c)
       PROVE  Serves(c)
  BY <1>12, ReportIsServed
<1>13. QED
  BY <1>1, <1>2, <1>3, <1>4, <1>5, <1>6, <1>7, <1>8, <1>9, <1>10, <1>11, <1>12 DEF Next, PresentStep

\* A greeting puts the connection at the end of the lists and its position in the rows.
LEMMA Greeted ==
  ASSUME Alignment, Presence, NEW c \in Sockets, readGreeting(c)
  PROVE  /\ ~Enlisted(c) /\ toServer[c] # << >> /\ Consumed(c) /\ Welcome(c)
         /\ UNCHANGED << users, sock, peer, mustDisconnect >>
         /\ \A d : Enlisted(d)' <=> Enlisted(d) \/ d = c
         /\ \A i : InRange(peerNames, i) =>
              InRange(peerNames', i) /\ peerNames'[i + 1] = peerNames[i + 1]
         /\ \E socketId \in Int :
              /\ hosts' = addHostname(hosts, users, peer[c].user, peer[c].host, socketId)
              /\ InRange(peerNames', socketId) /\ peerNames'[socketId + 1] = peer[c].host
         /\ toClient' = toClient \/ toClient' = [toClient EXCEPT ![c] = Append(toClient[c], peer[c].host)]
<1> DEFINE line == Head(toServer[c])
           connections == Append(clientConnections, c)
           names == Append(peerNames, line.host)
           socketId == indexOf(connections, c)
<1>1. /\ Reads(c, "greet") /\ Consumed(c) /\ UNCHANGED << users, sock, peer, mustDisconnect >>
      /\ toServer[c] # << >> /\ line.kind = "greet" /\ sock[c] = "open"
      /\ getUserInfoOK(line) /\ isUserValid(users, line.user)
      /\ clientConnections' = connections /\ peerNames' = names
      /\ hosts' = addHostname(hosts, users, line.user, line.host, socketId)
      /\ toClient' = toClient \/ toClient' = [toClient EXCEPT ![c] = Append(toClient[c], line.host)]
  BY DEF readGreeting, Reads, Enlist, Update, Presence, NobodyLeaves
<1>2. line \in Message /\ line.user = peer[c].user /\ line.host = peer[c].host /\ ~Enlisted(c)
  BY <1>1, FirstLine
<1>3. Welcome(c)
  BY <1>1, <1>2 DEF Welcome, getUserInfoOK
<1>4. /\ clientConnections \in Seq(Sockets) /\ peerNames \in Seq(Hostnames)
      /\ line.host \in Hostnames
      /\ Len(peerNames) = Len(clientConnections)
  BY <1>2 DEF Alignment, Bookkeeping, TypeOK, ListsParallel, Message
<1>5. /\ Len(clientConnections) \in Nat /\ DOMAIN clientConnections = 1 .. Len(clientConnections)
      /\ DOMAIN peerNames = 1 .. Len(clientConnections)
  BY <1>4, LenProperties
<1> HIDE DEF line
<1>6. /\ connections \in Seq(Sockets) /\ DOMAIN connections = 1 .. Len(clientConnections) + 1
      /\ Len(connections) = Len(clientConnections) + 1
      /\ \A i \in 1 .. Len(clientConnections) : connections[i] = clientConnections[i]
      /\ connections[Len(clientConnections) + 1] = c
  BY <1>4, <1>5, AppendProperties, LenProperties
<1>7. /\ DOMAIN names = 1 .. Len(clientConnections) + 1
      /\ \A i \in 1 .. Len(clientConnections) : names[i] = peerNames[i]
      /\ names[Len(clientConnections) + 1] = line.host
  <2>1. names \in Seq(Hostnames) /\ Len(names) = Len(peerNames) + 1
    BY <1>4, AppendProperties
  <2>2. QED
    BY <2>1, <1>4, <1>5, AppendProperties, LenProperties
<1> HIDE DEF connections, names
<1>8. /\ socketId \in Int /\ socketId # -1 /\ socketId + 1 \in 1 .. Len(clientConnections) + 1
      /\ connections[socketId + 1] = c
  <2>1. \E i \in DOMAIN connections : connections[i] = c
    BY <1>5, <1>6
  <2>2. QED
    BY <1>6, <2>1, IndexOfFinds
<1> HIDE DEF socketId
<1>9. socketId + 1 = Len(clientConnections) + 1
  <2>1. SUFFICES ASSUME socketId + 1 \in 1 .. Len(clientConnections) PROVE FALSE
    BY <1>5, <1>8
  <2>2. clientConnections[socketId + 1] = c
    BY <1>6, <1>8, <2>1
  <2>3. QED
    BY <1>2, <1>5, <2>1, <2>2 DEF Enlisted
<1>10. InRange(peerNames', socketId) /\ peerNames'[socketId + 1] = peer[c].host
  BY <1>1, <1>2, <1>5, <1>7, <1>9 DEF InRange
<1>11. \A d : Enlisted(d)' <=> Enlisted(d) \/ d = c
  BY <1>1, <1>5, <1>6 DEF Enlisted
<1>12. \A i : InRange(peerNames, i) => InRange(peerNames', i) /\ peerNames'[i + 1] = peerNames[i + 1]
  BY <1>1, <1>5, <1>7 DEF InRange
<1>13. QED
  BY <1>1, <1>2, <1>3, <1>8, <1>10, <1>11, <1>12

\* LinesSigned, when each line left was there before, in its place or one further on.
LEMMA SignedKept ==
  ASSUME LinesSigned,
         \A d \in Sockets : \A k \in DOMAIN toServer'[d] :
           /\ peer'[d] = peer[d]
           /\ \E j \in DOMAIN toServer[d] :
                /\ toServer'[d][k] = toServer[d][j]
                /\ j = 1 => k = 1 /\ (Enlisted(d)' => Enlisted(d))
  PROVE  LinesSigned'
BY DEF LinesSigned

\* ... and so whatever step is taken.
LEMMA SignedStep ==
  ASSUME Alignment, Presence, PresentStep
  PROVE  LinesSigned'
<1>1. LinesSigned /\ Bookkeeping
  BY DEF Presence, Alignment
<1>2. ASSUME UNCHANGED << toServer, peer, clientConnections >>
      PROVE  LinesSigned'
  BY <1>1, <1>2 DEF LinesSigned, Enlisted
<1>3. CASE Aside \/ \E username \in Usernames : AddUser(username)
  BY <1>2, <1>3 DEF Aside, AddUser, network, lists, traffic
<1>4. ASSUME NEW c \in Sockets, ReadNotice(c)
      PROVE  LinesSigned'
  BY <1>2, <1>4 DEF ReadNotice, network, lists
<1>5. ASSUME NEW c \in Sockets, NEW client \in Clients, Connect(c, client)
      PROVE  LinesSigned'
  <2>1. PICK line : toServer' = [toServer EXCEPT ![c] = << line >>] /\ line.user = client.user
    BY <1>5 DEF Connect, Line
  <2>2. /\ toServer'[c] = << line >> /\ peer'[c] = client
        /\ \A d \in Sockets : d # c => toServer'[d] = toServer[d] /\ peer'[d] = peer[d]
        /\ UNCHANGED clientConnections
    BY <1>1, <1>5, <2>1 DEF Connect, Bookkeeping, TypeOK, lists
  <2>3. ~Enlisted(c)
    BY <1>1, <1>5 DEF Connect, Bookkeeping, EnlistedAreOpen
  <2>4. \A k \in DOMAIN toServer'[c] : k = 1 /\ toServer'[c][k] = line
    BY <2>2
  <2>5. QED
    BY <1>1, <2>1, <2>2, <2>3, <2>4 DEF LinesSigned, Enlisted
<1>6. ASSUME NEW c \in Sockets, NEW kind \in {"ping", "roger", "notifyAll"}, Send(c, kind)
      PROVE  LinesSigned'
  <2> DEFINE line == Line(kind, peer[c])
  <2>1. line \in Message /\ line.user = peer[c].user /\ line.kind # "other"
    <3>1. peer[c] \in Clients /\ kind \in Kinds
      BY <1>1 DEF Bookkeeping, TypeOK, Kinds
    <3>2. QED
      BY <3>1, LineType DEF Line
  <2>2. /\ toServer' = [toServer EXCEPT ![c] = Append(toServer[c], line)]
        /\ UNCHANGED << peer, clientConnections >>
    BY <1>6 DEF Send, network, lists
  <2> HIDE DEF line
  <2>3. toServer[c] \in Seq(Message) /\ toServer \in [Sockets -> Seq(Message)]
    BY <1>1 DEF Bookkeeping, TypeOK, Message
  <2>4. /\ DOMAIN Append(toServer[c], line) = 1 .. Len(toServer[c]) + 1
        /\ \A k \in 1 .. Len(toServer[c]) : Append(toServer[c], line)[k] = toServer[c][k]
        /\ Append(toServer[c], line)[Len(toServer[c]) + 1] = line
        /\ DOMAIN toServer[c] = 1 .. Len(toServer[c]) /\ Len(toServer[c]) \in Nat
    BY <2>1, <2>3, AppendProperties, LenProperties
  <2>5. \A k \in 1 .. Len(toServer[c]) + 1 :
          /\ Append(toServer[c], line)[k].user = peer[c].user
          /\ Append(toServer[c], line)[k].kind = "other" => k = 1 /\ ~Enlisted(c)
    BY <1>1, <2>1, <2>4 DEF LinesSigned
  <2>6. QED
    BY <1>1, <2>2, <2>3, <2>4, <2>5 DEF LinesSigned, Enlisted
<1>7. ASSUME NEW c \in Sockets, Ends(c)
      PROVE  LinesSigned'
  <2>1. /\ toServer'[c] = << >> /\ UNCHANGED clientConnections
        /\ \A d \in Sockets : d # c => toServer'[d] = toServer[d] /\ peer'[d] = peer[d]
    BY <1>1, <1>7 DEF Ends, SocketGone, Bookkeeping, TypeOK
  <2>2. \A k \in DOMAIN toServer'[c] : FALSE
    BY <2>1
  <2>3. QED
    BY <1>1, <2>1, <2>2 DEF LinesSigned, Enlisted
<1>8. ASSUME NEW c \in Sockets, toServer[c] # << >>, Consumed(c), UNCHANGED peer,
             \A d \in Sockets : Enlisted(d)' => Enlisted(d) \/ d = c
      PROVE  LinesSigned'
  <2>1. /\ \A d \in Sockets : d # c => toServer'[d] = toServer[d]
        /\ \A k \in DOMAIN toServer'[c] : k + 1 \in DOMAIN toServer[c] /\ toServer'[c][k] = toServer[c][k + 1]
    BY <1>1, <1>8, ConsumedLines
  <2>2. \A k \in DOMAIN toServer'[c] : k + 1 # 1
    <3>1. toServer'[c] \in Seq(Message)
      BY <1>1, <1>8, ConsumedLines
    <3>2. QED
      BY <3>1, LenProperties
  <2>3. QED
    BY <1>1, <1>8, <2>1, <2>2, SignedKept
<1>9. ASSUME NEW c \in Sockets, Refuses(c) \/ Serves(c)
      PROVE  LinesSigned'
  BY <1>8, <1>9 DEF Refuses, Refuse, Serves, lists, Enlisted
<1>10. ASSUME NEW c \in Sockets, readGreeting(c)
       PROVE  LinesSigned'
  BY <1>8, <1>10, Greeted
<1>11. QED
  BY <1>3, <1>4, <1>5, <1>6, <1>7, <1>9, <1>10 DEF PresentStep

\* ListedAreWelcome, step by step: accounts are added, never taken away.
LEMMA WelcomeStep ==
  ASSUME Alignment, Presence, PresentStep
  PROVE  ListedAreWelcome'
<1>1. ListedAreWelcome /\ Bookkeeping
  BY DEF Presence, Alignment
<1>2. ASSUME \A d \in Sockets : Enlisted(d) => sock'[d] = sock[d] /\ peer'[d] = peer[d],
             UNCHANGED << clientConnections, users >>
      PROVE  ListedAreWelcome'
  BY <1>1, <1>2 DEF ListedAreWelcome, Welcome, Enlisted, isUserValid, getUserInfoOK
<1>3. CASE Aside
  BY <1>1, <1>3 DEF Aside, db, ListedAreWelcome, Welcome, Enlisted, isUserValid, getUserInfoOK
<1>4. ASSUME NEW username \in Usernames, AddUser(username)
      PROVE  ListedAreWelcome'
  BY <1>1, <1>4 DEF AddUser, addUser, network, lists, ListedAreWelcome, Welcome, Enlisted, isUserValid, getUserInfoOK
<1>5. ASSUME NEW c \in Sockets, NEW client \in Clients, Connect(c, client)
      PROVE  ListedAreWelcome'
  <2>1. ~Enlisted(c)
    BY <1>1, <1>5 DEF Connect, Bookkeeping, EnlistedAreOpen
  <2>2. QED
    BY <1>1, <1>2, <1>5, <2>1 DEF Connect, lists, db, Bookkeeping, TypeOK
<1>6. ASSUME NEW c \in Sockets, ReadNotice(c) \/ \E kind \in {"ping", "roger", "notifyAll"} : Send(c, kind)
      PROVE  ListedAreWelcome'
  BY <1>2, <1>6 DEF ReadNotice, Send, network, lists, db
<1>7. ASSUME NEW c \in Sockets, Ends(c) \/ Refuses(c)
      PROVE  ListedAreWelcome'
  BY <1>1, <1>2, <1>7 DEF Ends, SocketGone, Refuses, Refuse, db, lists, Bookkeeping, TypeOK
<1>8. ASSUME NEW c \in Sockets, Serves(c)
      PROVE  ListedAreWelcome'
  BY <1>2, <1>8 DEF Serves
<1>9. ASSUME NEW c \in Sockets, readGreeting(c)
      PROVE  ListedAreWelcome'
  <2>1. /\ Welcome(c) /\ UNCHANGED << users, sock, peer >>
        /\ \A d : Enlisted(d)' => Enlisted(d) \/ d = c
    BY <1>9, Greeted
  <2>2. QED
    BY <1>1, <2>1 DEF ListedAreWelcome, Welcome, isUserValid, getUserInfoOK
<1>10. QED
  BY <1>3, <1>4, <1>5, <1>6, <1>7, <1>8, <1>9 DEF PresentStep

\* notifyClients writes to a connection nothing but the name at its position.
LEMMA NotifiedByName ==
  ASSUME Alignment, hosts' \in Seq(Row), NEW rows \in SUBSET DOMAIN hosts', notifyClients(rows), NEW c \in Sockets
  PROVE  \/ toClient'[c] = toClient[c]
         \/ /\ Enlisted(c)
            /\ \E n \in Nat : toClient'[c] = toClient[c] \o [m \in 1 .. n |-> peer[c].host]
<1>1. CASE \E i \in DOMAIN clientConnections : Names(i, c)
  <2> DEFINE i == CHOOSE i \in DOMAIN clientConnections : Names(i, c)
  <2>1. i \in DOMAIN clientConnections /\ Names(i, c)
    BY <1>1
  <2>2. toClient'[c] = toClient[c] \o [m \in 1 .. Notices(rows, i) |-> peerNames[i]]
    BY <1>1 DEF notifyClients
  <2> HIDE DEF i
  <2>3. clientConnections[i] = c /\ peerNames[i] = peer[c].host
    BY <2>1 DEF Names, Alignment, ListsParallel
  <2>4. Notices(rows, i) \in Nat
    <3> DEFINE N == {id \in rows : hosts'[id].socket_id = i - 1}
    <3>1. Len(hosts') \in Nat /\ N \in SUBSET (1 .. Len(hosts'))
      BY LenProperties
    <3>2. Cardinality(N) \in Nat
      BY <3>1, PositionsFinite
    <3>3. QED
      BY <3>2 DEF Notices
  <2>5. QED
    BY <2>1, <2>2, <2>3, <2>4 DEF Enlisted
<1>2. CASE ~\E i \in DOMAIN clientConnections : Names(i, c)
  BY <1>2 DEF notifyClients
<1>3. QED
  BY <1>1, <1>2

\* The step is a run of notifyClients.
Notified == hosts' \in Seq(Row) /\ \E rows \in SUBSET DOMAIN hosts' : notifyClients(rows)

\* Serving a line writes no notices, or those of notifyClients.
LEMMA ServedNotices ==
  ASSUME Alignment, NEW c \in Sockets, Serves(c)
  PROVE  UNCHANGED << sock, peer >> /\ (UNCHANGED toClient \/ Notified)
<1>1. hosts \in Seq(Row)
  BY DEF Alignment, Bookkeeping, TypeOK
<1>2. setNotifyAllExcept(hosts, users, peer[c].user, peer[c].host) \in Seq(Row)
  BY <1>1, SetNotifyAllExcept
<1>3. clientsToSync(hosts', users, peer[c].user) \in SUBSET DOMAIN hosts'
  BY DEF clientsToSync
<1>4. QED
  BY <1>2, <1>3 DEF Serves, Notified

\* NoticesHaveReaders, step by step.
LEMMA ReadersStep ==
  ASSUME Alignment, Presence, PresentStep
  PROVE  NoticesHaveReaders'
<1>1. NoticesHaveReaders /\ Bookkeeping
  BY DEF Presence, Alignment
<1>2. ASSUME \A d \in Sockets : toClient'[d] = toClient[d] \/ Enlisted(d),
             UNCHANGED clientConnections
      PROVE  NoticesHaveReaders'
  BY <1>1, <1>2 DEF NoticesHaveReaders, Enlisted
<1>3. CASE Aside \/ \E username \in Usernames : AddUser(username)
  BY <1>2, <1>3 DEF Aside, AddUser, network, traffic, lists
<1>4. ASSUME NEW c \in Sockets,
             \/ \E client \in Clients : Connect(c, client)
             \/ \E kind \in {"ping", "roger", "notifyAll"} : Send(c, kind)
             \/ Refuses(c)
      PROVE  NoticesHaveReaders'
  BY <1>2, <1>4 DEF Connect, Send, Refuses, Refuse, lists
<1>5. ASSUME NEW c \in Sockets, ReadNotice(c)
      PROVE  NoticesHaveReaders'
  <2>1. /\ toClient[c] # << >> /\ UNCHANGED clientConnections
        /\ \A d \in Sockets : d # c => toClient'[d] = toClient[d]
    BY <1>1, <1>5 DEF ReadNotice, lists, Bookkeeping, TypeOK
  <2>2. QED
    BY <1>1, <1>2, <2>1 DEF NoticesHaveReaders
<1>6. ASSUME NEW c \in Sockets, Ends(c)
      PROVE  NoticesHaveReaders'
  <2>1. toClient'[c] = << >> /\ \A d \in Sockets : d # c => toClient'[d] = toClient[d]
    BY <1>1, <1>6 DEF Ends, SocketGone, Bookkeeping, TypeOK
  <2>2. QED
    BY <1>1, <1>2, <1>6, <2>1 DEF Ends, NoticesHaveReaders
<1>7. ASSUME NEW c \in Sockets, Serves(c)
      PROVE  NoticesHaveReaders'
  <2>1. UNCHANGED clientConnections /\ (UNCHANGED toClient \/ Notified)
    BY <1>7, ServedNotices DEF Serves
  <2>2. Notified => \A d \in Sockets : toClient'[d] = toClient[d] \/ Enlisted(d)
    BY NotifiedByName DEF Notified
  <2>3. QED
    BY <1>2, <2>1, <2>2
<1>8. ASSUME NEW c \in Sockets, readGreeting(c)
      PROVE  NoticesHaveReaders'
  <2>1. /\ Enlisted(c)' /\ \A d : Enlisted(d) => Enlisted(d)'
        /\ \A d \in Sockets : d # c => toClient'[d] = toClient[d]
    BY <1>1, <1>8, Greeted DEF Bookkeeping, TypeOK
  <2>2. QED
    BY <1>1, <2>1 DEF NoticesHaveReaders
<1>9. QED
  BY <1>3, <1>4, <1>5, <1>6, <1>7, <1>8 DEF PresentStep

\* StoredIndexIsCurrent, step by step: only a greeting stores an index.
LEMMA IndexStep ==
  ASSUME Alignment, Presence, PresentStep
  PROVE  StoredIndexIsCurrent'
<1>1. StoredIndexIsCurrent /\ Bookkeeping /\ hosts \in Seq(Row)
  BY DEF Presence, Alignment, Bookkeeping, TypeOK
<1>2. ASSUME SameRows(hosts, hosts'), \A id \in DOMAIN hosts : hosts'[id].socket_id = hosts[id].socket_id,
             UNCHANGED peerNames
      PROVE  StoredIndexIsCurrent'
  BY <1>1, <1>2 DEF SameRows, StoredIndexIsCurrent, InRange
<1>3. ASSUME UNCHANGED << hosts, peerNames >>
      PROVE  StoredIndexIsCurrent'
  BY <1>1, <1>3 DEF StoredIndexIsCurrent, InRange
<1>4. CASE Aside
  BY <1>3, <1>4 DEF Aside, db
<1>5. ASSUME NEW username \in Usernames, AddUser(username)
      PROVE  StoredIndexIsCurrent'
  BY <1>5 DEF AddUser, createTables, StoredIndexIsCurrent
<1>6. ASSUME NEW c \in Sockets,
             \/ \E client \in Clients : Connect(c, client)
             \/ \E kind \in {"ping", "roger", "notifyAll"} : Send(c, kind)
             \/ ReadNotice(c) \/ Ends(c) \/ Refuses(c)
      PROVE  StoredIndexIsCurrent'
  BY <1>3, <1>6 DEF Connect, Send, ReadNotice, Ends, Refuses, Refuse, db, lists
<1>7. ASSUME NEW c \in Sockets, Serves(c)
      PROVE  StoredIndexIsCurrent'
  <2>1. UNCHANGED peerNames
    BY <1>7 DEF Serves
  <2>2. ASSUME NEW hostname, hosts' = syncIsDone(hosts, hostname)
        PROVE  StoredIndexIsCurrent'
    BY <1>1, <1>2, <2>1, <2>2, SyncIsDone
  <2>3. ASSUME NEW username, NEW hostname, hosts' = setNotifyAllExcept(hosts, users, username, hostname)
        PROVE  StoredIndexIsCurrent'
    BY <1>1, <1>2, <2>1, <2>3, SetNotifyAllExcept
  <2>4. QED
    BY <1>3, <1>7, <2>1, <2>2, <2>3 DEF Serves
<1>8. ASSUME NEW c \in Sockets, readGreeting(c)
      PROVE  StoredIndexIsCurrent'
  <2>1. \A i : InRange(peerNames, i) => InRange(peerNames', i) /\ peerNames'[i + 1] = peerNames[i + 1]
    BY <1>8, Greeted
  <2>2. PICK socketId \in Int :
          /\ hosts' = addHostname(hosts, users, peer[c].user, peer[c].host, socketId)
          /\ InRange(peerNames', socketId) /\ peerNames'[socketId + 1] = peer[c].host
    BY <1>8, Greeted
  <2>3. peer[c].user \in Usernames /\ peer[c].host \in Hostnames
    BY <1>1, ClientNames DEF Bookkeeping, TypeOK
  <2>4. \A id \in DOMAIN hosts' :
          \/ hosts'[id].hostname = peer[c].host /\ hosts'[id].socket_id = socketId
          \/ /\ id \in DOMAIN hosts
             /\ hosts'[id].hostname = hosts[id].hostname /\ hosts'[id].socket_id = hosts[id].socket_id
    BY <1>1, <2>2, <2>3, AddHostnameRows
  <2>5. QED
    BY <1>1, <2>1, <2>2, <2>4 DEF StoredIndexIsCurrent
<1>9. QED
  BY <1>4, <1>5, <1>6, <1>7, <1>8 DEF PresentStep

\* Presence, step by step.
LEMMA PresenceStep ==
  ASSUME Alignment, Presence, PresentStep
  PROVE  Presence'
<1>1. mustDisconnect' = << >>
  <2>1. CASE \E c \in Sockets : readGreeting(c)
    BY <2>1, Greeted DEF Presence
  <2>2. QED
    BY <2>1 DEF PresentStep, Presence, Aside, AddUser, Connect, Send, ReadNotice, Ends, Refuses, Refuse, Serves
<1>2. QED
  BY <1>1, SignedStep, WelcomeStep, ReadersStep, IndexStep DEF Presence, NobodyLeaves

\* NoticeNamesItsReader, step by step.
LEMMA NoticeStep ==
  ASSUME Alignment, Presence, PresentStep, NoticeNamesItsReader
  PROVE  NoticeNamesItsReader'
<1>1. /\ Bookkeeping /\ toClient \in [Sockets -> Seq(Hostnames)]
      /\ \A d \in Sockets : peer[d].host \in Hostnames
  BY ClientNames DEF Alignment, Bookkeeping, TypeOK
<1>2. ASSUME UNCHANGED << peer, toClient >>
      PROVE  NoticeNamesItsReader'
  BY <1>2 DEF NoticeNamesItsReader
<1>3. ASSUME NEW c \in Sockets, toClient'[c] = << >>,
             \A d \in Sockets : d # c => peer'[d] = peer[d] /\ toClient'[d] = toClient[d]
      PROVE  NoticeNamesItsReader'
  <2>1. \A i \in DOMAIN toClient'[c] : FALSE
    BY <1>3
  <2>2. QED
    BY <1>3, <2>1 DEF NoticeNamesItsReader
<1>4. CASE Aside \/ \E username \in Usernames : AddUser(username)
  BY <1>2, <1>4 DEF Aside, AddUser, network, traffic
<1>5. ASSUME NEW c \in Sockets, Refuses(c) \/ \E kind \in {"ping", "roger", "notifyAll"} : Send(c, kind)
      PROVE  NoticeNamesItsReader'
  BY <1>2, <1>5 DEF Refuses, Refuse, Send, network
<1>6. ASSUME NEW c \in Sockets, NEW client \in Clients, Connect(c, client)
      PROVE  NoticeNamesItsReader'
  <2>1. toClient'[c] = << >>
    BY <1>1, <1>6 DEF Connect, Presence, NoticesHaveReaders, Bookkeeping, EnlistedAreOpen
  <2>2. \A d \in Sockets : d # c => peer'[d] = peer[d] /\ toClient'[d] = toClient[d]
    BY <1>1, <1>6 DEF Connect, Bookkeeping, TypeOK
  <2>3. QED
    BY <1>3, <2>1, <2>2
<1>7. ASSUME NEW c \in Sockets, Ends(c)
      PROVE  NoticeNamesItsReader'
  <2>1. /\ toClient'[c] = << >>
        /\ \A d \in Sockets : d # c => peer'[d] = peer[d] /\ toClient'[d] = toClient[d]
    BY <1>1, <1>7 DEF Ends, SocketGone, Bookkeeping, TypeOK
  <2>2. QED
    BY <1>3, <2>1
<1>8. ASSUME NEW c \in Sockets, ReadNotice(c)
      PROVE  NoticeNamesItsReader'
  <2>1. /\ toClient[c] # << >> /\ toClient'[c] = Tail(toClient[c]) /\ UNCHANGED peer
        /\ \A d \in Sockets : d # c => toClient'[d] = toClient[d]
    BY <1>1, <1>8 DEF ReadNotice, network
  <2>2. \A i \in DOMAIN Tail(toClient[c]) : i + 1 \in DOMAIN toClient[c] /\ Tail(toClient[c])[i] = toClient[c][i + 1]
    <3>1. toClient[c] \in Seq(Hostnames)
      BY <1>1
    <3>2. /\ Tail(toClient[c]) \in Seq(Hostnames) /\ Len(Tail(toClient[c])) = Len(toClient[c]) - 1
          /\ \A i \in 1 .. Len(Tail(toClient[c])) : Tail(toClient[c])[i] = toClient[c][i + 1]
      BY <2>1, <3>1, HeadTailProperties
    <3>3. QED
      BY <3>1, <3>2, LenProperties
  <2>3. QED
    BY <2>1, <2>2 DEF NoticeNamesItsReader
<1>9. ASSUME NEW c \in Sockets, Serves(c)
      PROVE  NoticeNamesItsReader'
  <2>1. UNCHANGED peer /\ (UNCHANGED toClient \/ Notified)
    BY <1>9, ServedNotices
  <2>2. ASSUME Notified, NEW d \in Sockets, NEW i \in DOMAIN toClient'[d]
        PROVE  toClient'[d][i] = peer[d].host
    <3>1. CASE toClient'[d] = toClient[d]
      BY <2>2, <3>1 DEF NoticeNamesItsReader
    <3>2. ASSUME NEW n \in Nat, toClient'[d] = toClient[d] \o [m \in 1 .. n |-> peer[d].host]
          PROVE  toClient'[d][i] = peer[d].host
      <4> DEFINE s == toClient[d]
                 t == [m \in 1 .. n |-> peer[d].host]
      <4>1. s \in Seq(Hostnames) /\ t \in Seq(Hostnames) /\ Len(t) = n
        BY <1>1
      <4>2. /\ Len(s) \in Nat /\ DOMAIN s = 1 .. Len(s) /\ Len(s \o t) = Len(s) + n /\ s \o t \in Seq(Hostnames)
            /\ \A j \in 1 .. Len(s) + n : (s \o t)[j] = IF j <= Len(s) THEN s[j] ELSE t[j - Len(s)]
        BY <4>1, LenProperties, ConcatProperties
      <4>3. i \in 1 .. Len(s) + n
        BY <2>2, <3>2, <4>2, LenProperties
      <4>4. i <= Len(s) => s[i] = peer[d].host
        BY <4>2, <4>3 DEF NoticeNamesItsReader
      <4>5. i > Len(s) => t[i - Len(s)] = peer[d].host
        BY <4>2, <4>3
      <4> HIDE DEF t
      <4>6. QED
        BY <3>2, <4>2, <4>3, <4>4, <4>5 DEF t
    <3>3. QED
      BY <2>2, <3>1, <3>2, NotifiedByName DEF Notified
  <2>3. QED
    BY <1>2, <2>1, <2>2 DEF NoticeNamesItsReader
<1>10. ASSUME NEW c \in Sockets, readGreeting(c)
       PROVE  NoticeNamesItsReader'
  <2>1. UNCHANGED peer
    BY <1>10, Greeted
  <2>2. CASE toClient' = [toClient EXCEPT ![c] = Append(toClient[c], peer[c].host)]
    <3>1. toClient[c] \in Seq(Hostnames) /\ peer[c].host \in Hostnames
      BY <1>1
    <3>2. \A i \in DOMAIN Append(toClient[c], peer[c].host) :
            Append(toClient[c], peer[c].host)[i] = peer[c].host
      <4>1. DOMAIN toClient[c] = 1 .. Len(toClient[c]) /\ Len(toClient[c]) \in Nat
        BY <3>1, LenProperties
      <4>2. /\ DOMAIN Append(toClient[c], peer[c].host) = 1 .. Len(toClient[c]) + 1
            /\ \A i \in 1 .. Len(toClient[c]) : Append(toClient[c], peer[c].host)[i] = toClient[c][i]
            /\ Append(toClient[c], peer[c].host)[Len(toClient[c]) + 1] = peer[c].host
        BY <3>1, <4>1, AppendProperties, LenProperties
      <4>3. QED
        BY <4>1, <4>2 DEF NoticeNamesItsReader
    <3>3. QED
      BY <1>1, <2>1, <2>2, <3>2 DEF NoticeNamesItsReader
  <2>3. QED
    BY <1>2, <1>10, <2>1, <2>2, Greeted
<1>11. QED
  BY <1>4, <1>5, <1>6, <1>7, <1>8, <1>9, <1>10 DEF PresentStep

\* Who leaves nobody out overlaps with nobody, and fails no statement.
LEMMA NobodyLeavesIsCalm == NobodyLeaves => Calm /\ "unstored" \notin Env
BY DEF NobodyLeaves, Calm

\* Both hold in every state that can be reached.
LEMMA PresenceHolds ==
  ASSUME NobodyLeaves
  PROVE  Spec => [](Presence /\ NoticeNamesItsReader)
<1>1. Init => Presence /\ NoticeNamesItsReader
  BY DEF Init, Presence, LinesSigned, ListedAreWelcome, Enlisted, NoticesHaveReaders,
         StoredIndexIsCurrent, NoticeNamesItsReader
<1>2. Alignment /\ GreetsFirst /\ Presence /\ NoticeNamesItsReader /\ [Next]_vars
        => (Presence /\ NoticeNamesItsReader)'
  BY PresentSteps, PresenceStep, NoticeStep
<1>3. Spec => []Alignment
  BY NobodyLeavesIsCalm, AlignmentHolds
<1>4. QED
  BY <1>1, <1>2, <1>3, GreetsFirstHolds, PTL DEF Spec

\* A stored index is the position of its host (StoredIndexIsCurrent), for any number
\* of clients, as long as no connection of a listed client ends and no statement
\* fails: what stales the indexes is clientDisconnected, which voids one row and moves
\* the others' positions, or an UPDATE that is not made, and nothing else in the code.
THEOREM IndexesCorrect ==
  ASSUME NobodyLeaves
  PROVE  Spec => []StoredIndexIsCurrent
<1>1. Presence => StoredIndexIsCurrent
  BY DEF Presence
<1>2. QED
  BY <1>1, PresenceHolds, PTL

\* Then every notice names the host that reads it (NoticeNamesItsReader): notifyClients
\* never writes beyond the lists, and never to a connection another's name.
THEOREM NoticesCorrect ==
  ASSUME NobodyLeaves
  PROVE  Spec => []NoticeNamesItsReader
BY PresenceHolds, PTL

-----------------------------------------------------------------------------
(* Who is told, while nobody leaves.                                       *)

\* A row of the table leads to each listed client, and one only.
Reached == OneRowPerHostname /\ ListedClientIsReachable

\* The host owes after the step.
OwesThen(hostname) == \E id \in DOMAIN hosts' : hosts'[id].hostname = hostname /\ hosts'[id].must_sync = 1

\* A listed client that owes is told once, and another not at all.
ToldOnce(c) ==
  toClient'[c] = IF OwesThen(peer[c].host) THEN Append(toClient[c], peer[c].host) ELSE toClient[c]

\* The stored index of a listed client's row, and of no other row, is its position.
LEMMA RowOfPosition ==
  ASSUME Alignment, Presence, Reached, NEW i \in DOMAIN clientConnections
  PROVE  /\ i \in DOMAIN peerNames
         /\ \E r \in DOMAIN hosts :
              /\ hosts[r].hostname = peerNames[i] /\ hosts[r].socket_id = i - 1
              /\ \A id \in DOMAIN hosts :
                   hosts[id].socket_id = i - 1 \/ hosts[id].hostname = peerNames[i] => id = r
<1>1. /\ hosts \in Seq(Row) /\ clientConnections \in Seq(Sockets)
      /\ DOMAIN peerNames = DOMAIN clientConnections
  BY PositionsInRange DEF Alignment, Bookkeeping, TypeOK
<1>2. i \in Nat /\ i >= 1 /\ DOMAIN peerNames \subseteq Nat
  BY <1>1, LenProperties
<1>3. \A id \in DOMAIN hosts : hosts[id].socket_id \in Int
  <2>1. \A id \in DOMAIN hosts : hosts[id] \in Row
    BY <1>1, LenProperties, ElementOfSeq
  <2>2. QED
    BY <2>1 DEF Row
<1>4. PICK r \in DOMAIN hosts : hosts[r].hostname = peerNames[i] /\ hosts[r].socket_id # -1
  BY <1>1 DEF Reached, ListedClientIsReachable
<1>5. hosts[r].socket_id = i - 1
  <2>1. /\ hosts[r].socket_id + 1 \in DOMAIN clientConnections
        /\ peerNames[hosts[r].socket_id + 1] = peerNames[i]
    BY <1>1, <1>4 DEF Presence, StoredIndexIsCurrent, InRange
  <2>2. hosts[r].socket_id + 1 = i
    BY <2>1 DEF Alignment, ListsParallel
  <2>3. QED
    BY <1>2, <1>3, <2>2
<1>6. ASSUME NEW id \in DOMAIN hosts, hosts[id].socket_id = i - 1
      PROVE  hosts[id].hostname = peerNames[i]
  <2>1. hosts[id].socket_id # -1 /\ hosts[id].socket_id + 1 = i
    BY <1>2, <1>6
  <2>2. QED
    BY <2>1 DEF Presence, StoredIndexIsCurrent
<1>7. QED
  BY <1>1, <1>4, <1>5, <1>6 DEF Reached, OneRowPerHostname

\* notifyClients tells each listed client once, if it owes.
LEMMA NotifiedOnce ==
  ASSUME Alignment, Presence, Reached,
         NEW username, NEW hostname, isUserValid(users, username),
         hosts' = setNotifyAllExcept(hosts, users, username, hostname),
         notifyClients(clientsToSync(hosts', users, username)),
         NEW c \in Sockets, Enlisted(c)
  PROVE  ToldOnce(c)
<1> DEFINE rows == clientsToSync(hosts', users, username)
           h == peer[c].host
<1>1. /\ hosts \in Seq(Row) /\ clientConnections \in Seq(Sockets)
      /\ toClient[c] \in Seq(Hostnames) /\ h \in Hostnames
  BY ClientNames DEF Alignment, Bookkeeping, TypeOK
<1>2. SameRows(hosts, hosts') /\ \A id \in DOMAIN hosts : hosts'[id].socket_id = hosts[id].socket_id
  BY <1>1, SetNotifyAllExcept
<1>3. rows = {id \in DOMAIN hosts' : hosts'[id].must_sync = 1 /\ hosts'[id].socket_id # -1}
  BY DEF clientsToSync, isUserValid
<1>4. PICK i \in DOMAIN clientConnections : clientConnections[i] = c
  BY DEF Enlisted
<1>5. PICK r \in DOMAIN hosts :
        /\ hosts[r].hostname = peerNames[i] /\ hosts[r].socket_id = i - 1
        /\ \A id \in DOMAIN hosts :
             hosts[id].socket_id = i - 1 \/ hosts[id].hostname = peerNames[i] => id = r
  BY RowOfPosition
<1>6. i \in Nat /\ i >= 1 /\ i \in DOMAIN peerNames /\ peerNames[i] = h
  BY <1>1, <1>4, LenProperties, RowOfPosition DEF Alignment, ListsParallel
<1>7. OwesThen(h) <=> hosts'[r].must_sync = 1
  BY <1>2, <1>5, <1>6 DEF OwesThen, SameRows
<1>8. {id \in rows : hosts'[id].socket_id = i - 1} = IF OwesThen(h) THEN {r} ELSE {}
  BY <1>2, <1>3, <1>5, <1>6, <1>7 DEF SameRows
<1>9. Notices(rows, i) = IF OwesThen(h) THEN 1 ELSE 0
  BY <1>8, FS_EmptySet, FS_Singleton DEF Notices
<1>10. toClient'[c] = toClient[c] \o [n \in 1 .. Notices(rows, i) |-> peerNames[i]]
  <2>1. i - 1 + 1 = i
    BY <1>6
  <2>2. Names(i, c) /\ \A j \in DOMAIN clientConnections : Names(j, c) => j = i
    BY <1>4, <1>6, <2>1 DEF Names, InRange, Alignment, ListsParallel
  <2>3. (CHOOSE j \in DOMAIN clientConnections : Names(j, c)) = i
    BY <2>2
  <2>4. QED
    BY <2>2, <2>3 DEF notifyClients
<1> HIDE DEF rows, h
<1>11. CASE OwesThen(h)
  <2>1. toClient'[c] = toClient[c] \o [n \in 1 .. 1 |-> h]
    BY <1>6, <1>9, <1>10, <1>11
  <2>2. [n \in 1 .. 1 |-> h] = << h >>
    OBVIOUS
  <2>3. toClient[c] \o << h >> = Append(toClient[c], h)
    BY <1>1, AppendIsConcat
  <2>4. QED
    BY <1>11, <2>1, <2>2, <2>3 DEF ToldOnce, h
<1>12. CASE ~OwesThen(h)
  <2>1. toClient'[c] = toClient[c] \o [n \in 1 .. 0 |-> h]
    BY <1>6, <1>9, <1>10, <1>12
  <2>2. [n \in 1 .. 0 |-> h] = << >>
    OBVIOUS
  <2>3. toClient[c] \o << >> = toClient[c]
    BY <1>1, ConcatEmptySeq
  <2>4. QED
    BY <1>12, <2>1, <2>2, <2>3 DEF ToldOnce, h
<1>13. QED
  BY <1>11, <1>12

\* A greeting is answered with a notice if the host owes.
LEMMA GreetedOnce ==
  ASSUME PlainNames, Alignment, Presence, NEW c \in Sockets, readGreeting(c)
  PROVE  /\ ToldOnce(c) /\ toClient[c] = << >>
         /\ \A d \in Sockets : d # c => toClient'[d] = toClient[d]
<1> DEFINE line == Head(toServer[c])
<1>1. ~Enlisted(c) /\ toServer[c] # << >>
  BY Greeted
<1>2. line.host = peer[c].host /\ line.host \in Hostnames
  BY <1>1, FirstLine DEF Message
<1>3. toClient' = IF isSyncNeeded(hosts', line.host)
                  THEN [toClient EXCEPT ![c] = Append(toClient[c], line.host)] ELSE toClient
  BY DEF readGreeting, Presence, NobodyLeaves
<1> HIDE DEF line
<1>4. isSyncNeeded(hosts', peer[c].host) <=> OwesThen(peer[c].host)
  BY <1>2, Greeted DEF isSyncNeeded, sqlQuote, PlainNames, OwesThen
<1>5. toClient \in [Sockets -> Seq(Hostnames)]
  BY DEF Alignment, Bookkeeping, TypeOK
<1>6. QED
  BY <1>1, <1>2, <1>3, <1>4, <1>5 DEF ToldOnce, Presence, NoticesHaveReaders

\* A listed client goes by the name it connected with.
LEMMA ListedByName ==
  ASSUME Alignment, NEW c, NEW hostname
  PROVE  /\ Listed(c, hostname) => Enlisted(c) /\ peer[c].host = hostname
         /\ c \in Sockets /\ Enlisted(c) => Listed(c, peer[c].host)
<1>1. clientConnections \in Seq(Sockets) /\ DOMAIN peerNames = DOMAIN clientConnections
  BY PositionsInRange DEF Alignment, Bookkeeping, TypeOK
<1>2. \A i \in DOMAIN clientConnections : i - 1 + 1 = i
  BY <1>1, LenProperties
<1>3. QED
  BY <1>1, <1>2 DEF Listed, Enlisted, InRange, Alignment, ListsParallel

\* ToldWhenObliged, step by step.
LEMMA ToldStep ==
  ASSUME PlainNames, "adduser" \notin Env, Alignment, Presence, Reached, PresentStep,
         NEW c \in Sockets, NEW hostname \in Hostnames,
         ~Obliged(c, hostname), Obliged(c, hostname)'
  PROVE  /\ Len(toClient'[c]) > Len(toClient[c])
         /\ toClient'[c][Len(toClient'[c])] = hostname
<1>1. Bookkeeping /\ hosts \in Seq(Row) /\ toClient[c] \in Seq(Hostnames)
  BY DEF Alignment, Bookkeeping, TypeOK
<1>2. OwesThen(hostname) /\ Listed(c, hostname)'
  BY DEF Obliged, Owes, OwesThen
<1>3. ASSUME ToldOnce(c), peer[c].host = hostname
      PROVE  /\ Len(toClient'[c]) > Len(toClient[c])
             /\ toClient'[c][Len(toClient'[c])] = hostname
  <2>1. toClient'[c] = Append(toClient[c], hostname)
    BY <1>2, <1>3 DEF ToldOnce
  <2>2. Len(toClient[c]) \in Nat
    BY <1>1, LenProperties
  <2>3. QED
    BY <1>1, <2>1, <2>2, AppendProperties
<1>4. ASSUME UNCHANGED << hosts, clientConnections, peerNames >>
      PROVE  FALSE
  BY <1>4 DEF Obliged, Listed, Owes, InRange
<1>5. CASE Aside \/ \E username \in Usernames : AddUser(username)
  BY <1>4, <1>5 DEF Aside, AddUser, db
<1>6. ASSUME NEW d \in Sockets,
             \/ \E client \in Clients : Connect(d, client)
             \/ \E kind \in {"ping", "roger", "notifyAll"} : Send(d, kind)
             \/ ReadNotice(d) \/ Ends(d) \/ Refuses(d)
      PROVE  FALSE
  BY <1>4, <1>6 DEF Connect, Send, ReadNotice, Ends, Refuses, Refuse, db, lists
<1>7. ASSUME NEW d \in Sockets, Serves(d)
      PROVE  /\ Len(toClient'[c]) > Len(toClient[c])
             /\ toClient'[c][Len(toClient'[c])] = hostname
  <2>1. Listed(c, hostname) /\ ~Owes(hostname)
    BY <1>2, <1>7 DEF Serves, Listed, InRange, Obliged
  <2>2. Enlisted(c) /\ peer[c].host = hostname
    BY <2>1, ListedByName
  <2>3. ASSUME hosts' = syncIsDone(hosts, peer[d].host)
        PROVE  FALSE
    <3>1. \A id \in DOMAIN hosts : hosts[id] \in Row
      BY <1>1, LenProperties, ElementOfSeq
    <3>2. OwesThen(hostname) => Owes(hostname)
      BY <2>3, <3>1 DEF OwesThen, Owes, syncIsDone, Row
    <3>3. QED
      BY <1>2, <2>1, <3>2
  <2>4. QED
    BY <1>3, <1>4, <1>7, <2>2, <2>3, NotifiedOnce DEF Serves
<1>8. ASSUME NEW d \in Sockets, readGreeting(d)
      PROVE  /\ Len(toClient'[c]) > Len(toClient[c])
             /\ toClient'[c][Len(toClient'[c])] = hostname
  <2>1. PICK socketId \in Int : hosts' = addHostname(hosts, users, peer[d].user, peer[d].host, socketId)
    BY <1>8, Greeted
  <2>2. peer[d].user \in Usernames /\ peer[d].host \in Hostnames
    BY <1>1, ClientNames DEF Bookkeeping, TypeOK
  <2>3. ~Owes(hostname) => hostname = peer[d].host
    <3>1. \A id \in DOMAIN hosts' : id \in DOMAIN hosts \/ hosts'[id].hostname = peer[d].host
      BY <1>1, <2>1, <2>2, AddHostnameRows
    <3>2. \A id \in DOMAIN hosts :
            hosts'[id].hostname = hosts[id].hostname /\ hosts'[id].must_sync = hosts[id].must_sync
      BY <1>1, <2>1, <2>2, AddHostnameKeeps
    <3>3. QED
      BY <1>2, <3>1, <3>2 DEF OwesThen, Owes
  <2>4. Enlisted(c)' /\ peer'[c].host = hostname
    <3>1. Alignment'
      BY <1>1, <1>8, BookkeepingGreeting, AlignmentGreeting
    <3>2. DOMAIN clientConnections' = DOMAIN peerNames' /\ clientConnections' \in Seq(Sockets)
      BY <3>1, LenProperties DEF Alignment, Bookkeeping, TypeOK, ListsParallel
    <3>3. PICK i \in DOMAIN clientConnections' : clientConnections'[i] = c /\ peerNames'[i] = hostname
      BY <1>2 DEF Listed
    <3>4. QED
      BY <3>1, <3>3 DEF Enlisted, Alignment, ListsParallel
  <2>5. peer' = peer /\ (Enlisted(c) \/ c = d) /\ sock[d] = "open"
    BY <1>8, <2>4, Greeted DEF Welcome
  <2>6. CASE c = d
    BY <1>3, <1>8, <2>4, <2>5, <2>6, GreetedOnce
  <2>7. CASE c # d
    <3>1. Listed(c, hostname) /\ sock[c] = "open"
      BY <2>4, <2>5, <2>7, ListedByName DEF Presence, ListedAreWelcome, Welcome
    <3>2. ~Owes(hostname)
      BY <3>1 DEF Obliged
    <3>3. QED
      BY <2>3, <2>4, <2>5, <2>7, <3>1, <3>2 DEF Alignment, HostsApart
  <2>8. QED
    BY <2>6, <2>7
<1>9. QED
  BY <1>5, <1>6, <1>7, <1>8 DEF PresentStep

\* A listed client that comes to owe a synchronisation, by another's report or by
\* its own greeting, is sent its notice in that very step (ToldWhenObliged), while
\* nobody leaves and no account is added: the row a report marks leads to the
\* position of the very client it is for.
THEOREM ToldCorrect ==
  ASSUME NobodyLeaves, "adduser" \notin Env, PlainNames
  PROVE  Spec => ToldWhenObliged
<1> DEFINE Told == \A c \in Sockets, hostname \in Hostnames :
                     (~Obliged(c, hostname) /\ Obliged(c, hostname)') =>
                        /\ Len(toClient'[c]) > Len(toClient[c])
                        /\ toClient'[c][Len(toClient'[c])] = hostname
<1>1. Alignment /\ GreetsFirst /\ Presence /\ Reached /\ [Next]_vars => [Told]_vars
  BY PresentSteps, ToldStep
<1>2. Spec => []Alignment /\ []OneRowPerHostname /\ []ListedClientIsReachable
  BY NobodyLeavesIsCalm, AlignmentHolds, OneRowCorrect, ReachableCorrect
<1>3. OneRowPerHostname /\ ListedClientIsReachable => Reached
  BY DEF Reached
<1>4. Spec => [][Told]_vars
  BY <1>1, <1>2, <1>3, GreetsFirstHolds, PresenceHolds, PTL DEF Spec
<1>5. QED
  BY <1>4 DEF ToldWhenObliged
=============================================================================
