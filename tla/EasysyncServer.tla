--------------------------- MODULE EasysyncServer ---------------------------
(***************************************************************************)
(* Class EasysyncServer (server/easysyncserver.cpp): the daemon's table of *)
(* connected clients, the database behind it, and the handlers that keep   *)
(* the two in step.                                                        *)
(*                                                                         *)
(* The daemon is one event loop: a handler runs to its end before the next *)
(* starts, except where disconnectFromHost calls clientDisconnected inside *)
(* checkClientsConnection, which "mustDisconnect" spells out.  Clients and *)
(* the network act between handlers.  Env names what they may do beyond    *)
(* connecting, sending and reading, so that each run, and each theorem,    *)
(* says which conditions it speaks of.                                     *)
(*                                                                         *)
(* An operator whose name ends in _Mutant is the one after it with a bug    *)
(* planted, to show that a property notices.                               *)
(***************************************************************************)
EXTENDS DbManager, QList

CONSTANTS
  Sockets,        \* the server's QTcpSocket objects
  Clients,        \* the client programs, as [user, host]
  InitialUsers,   \* the accounts set up before the daemon starts
  Unreadable,     \* the names the pattern "<\b[^>]*>" of getUserInfo does not match
  Limit,          \* keep-alive checks a client may stay silent (12 of 5 s in the code)
  Env,            \* what the surroundings may do in this instance
  MaxLines,       \* bound: lines a client has in flight
  MaxBusy,        \* bound: clients with lines in flight (any order of reading remains)
  MaxNotices      \* bound: notices a client leaves unread while anyone sends

EnvEvents ==
  { "drop",         \* an open connection is closed by the client or by the network
    "late",         \* a client's ping is overdue when a check runs
    "vanish",       \* a client's machine goes away and the server is not told
    "overlap",      \* a host connects while an earlier connection of its is still held
    "sameinstant",  \* two entries of clientLastSeen may be equal to the millisecond
    "midnight",     \* a check may be the first one after midnight
    "coalesce",     \* lines may arrive together, in one readyRead
    "pause",        \* the service controller pauses and resumes the daemon
    "restart",      \* the daemon is stopped or killed, and started again
    "adduser",      \* someone runs "easysync-server -e --adduser"
    "dbfail",       \* a SELECT or an INSERT fails, the database file being locked
    "unstored",     \* an UPDATE of socket_id fails
    "unnoted",      \* an UPDATE of must_sync fails
    "settings",     \* a connected client is given other names in its dialog
    "stranger" }    \* something that is not the client program talks to the port

ASSUME ServerAssumption ==
  /\ Clients \subseteq [user : Usernames, host : Hostnames]
  /\ InitialUsers \subseteq Usernames
  /\ Clients # {}
  /\ Limit \in Nat \ {0} /\ MaxLines \in Nat \ {0} /\ MaxBusy \in Nat \ {0} /\ MaxNotices \in Nat
  /\ Env \subseteq EnvEvents

VARIABLES
  up,                \* the process runs
  disabled,          \* member disabled
  users, hosts,      \* the database
  sock,              \* life of each socket object, see TypeOK
  alive,             \* the client's end of the connection exists
  peer,              \* the client program at the other end
  newConnection,     \* signal newConnection() waits to be delivered
  clientConnections, peerNames, clientLastSeen,   \* the three parallel lists
  keepAliveTimer,    \* the timer is active
  mustDisconnect,    \* what the loop of checkClientsConnection has left to do
  toServer,          \* lines the client sent and readClient has not taken
  arrived,           \* how many of them lie in the socket's read buffer
  toClient           \* notices "2. <hostname>" the client has not read

db      == << users, hosts >>
process == << up, disabled >>
lists   == << clientConnections, peerNames, clientLastSeen >>
network == << sock, alive, peer, newConnection >>
traffic == << toServer, arrived, toClient >>
vars    == << process, db, network, lists, keepAliveTimer, mustDisconnect, traffic >>

\* Stands for the peer of a socket that has none.
SomeClient == CHOOSE client \in Clients : TRUE

Kinds == {"greet", "ping", "roger", "notifyAll", "other"}
Line(kind, client) == [kind |-> kind, user |-> client.user, host |-> client.host]

\* An entry of clientLastSeen is kept as abs(currentTime.secsTo(lastSeen)) at the
\* last check, counted in checks and cut off at Limit + 1.  QTime holds no date:
\* past midnight every entry of the day before is most of a day away.
Silence == 0 .. Limit + 1

TypeOK ==
  /\ up \in BOOLEAN /\ disabled \in BOOLEAN
  /\ users \subseteq Usernames /\ hosts \in Seq(Row)
  /\ sock \in [Sockets -> {"none", "queued", "open", "closing"}]
  /\ alive \in [Sockets -> BOOLEAN]
  /\ peer \in [Sockets -> Clients]
  /\ newConnection \in BOOLEAN
  /\ clientConnections \in Seq(Sockets)
  /\ peerNames \in Seq(Hostnames)
  /\ clientLastSeen \in Seq(Silence)
  /\ keepAliveTimer \in BOOLEAN
  /\ mustDisconnect \in Seq(Sockets)
  /\ toServer \in [Sockets -> Seq([kind : Kinds, user : Usernames, host : Hostnames])]
  /\ arrived \in [Sockets -> Nat]
  /\ toClient \in [Sockets -> Seq(Hostnames)]

-----------------------------------------------------------------------------
\* removeAll on clientLastSeen, for the entry at a position: other entries go too
\* when they hold the same instant.
EqualInstants(seen, i) ==
  IF "sameinstant" \in Env
  THEN {D \in SUBSET {j \in DOMAIN seen : seen[j] = seen[i]} : i \in D}
  ELSE {{i}}

Forgotten_Nothing_Mutant(seen, index) == {{}}

Forgotten_OffByOne_Mutant(seen, index) == {{index}}

\* ... and for what at(index) may return.
Forgotten(seen, index) ==
  IF InRange(seen, index) THEN EqualInstants(seen, index + 1)
  ELSE {{}} \cup UNION {EqualInstants(seen, i) : i \in DOMAIN seen}

\* No function of DbManager looks at the result of its UPDATE: one that fails
\* leaves the rows as they are, and the daemon goes on as if they were written.
Update(failure, rows, written) ==
  \/ hosts' = written
  \/ failure \in Env /\ hosts' = rows

-----------------------------------------------------------------------------
(* The process and its surroundings.                                       *)

Init ==
  /\ up = TRUE /\ disabled = FALSE
  /\ users = InitialUsers /\ hosts = << >>
  /\ sock = [c \in Sockets |-> "none"]
  /\ alive = [c \in Sockets |-> FALSE]
  /\ peer = [c \in Sockets |-> SomeClient]
  /\ newConnection = FALSE
  /\ clientConnections = << >> /\ peerNames = << >> /\ clientLastSeen = << >>
  /\ keepAliveTimer = FALSE /\ mustDisconnect = << >>
  /\ toServer = [c \in Sockets |-> << >>]
  /\ arrived = [c \in Sockets |-> 0]
  /\ toClient = [c \in Sockets |-> << >>]

\* The event loop is about to run a handler.
Idle == up /\ mustDisconnect = << >>

\* The process ends, killed or stopped: no slot runs, and the database stays as
\* it was last written (db is left to the caller).
ProcessEnds ==
  /\ up' = FALSE /\ disabled' = FALSE
  /\ sock' = [c \in Sockets |-> "none"]
  /\ alive' = [c \in Sockets |-> FALSE]
  /\ newConnection' = FALSE
  /\ clientConnections' = << >> /\ peerNames' = << >> /\ clientLastSeen' = << >>
  /\ keepAliveTimer' = FALSE /\ mustDisconnect' = << >>
  /\ toServer' = [c \in Sockets |-> << >>]
  /\ arrived' = [c \in Sockets |-> 0]
  /\ peer' = [c \in Sockets |-> SomeClient]
  /\ toClient' = [c \in Sockets |-> << >>]

Stop == "restart" \in Env /\ up /\ ProcessEnds /\ UNCHANGED db

Start ==
  /\ ~up
  /\ up' = TRUE
  /\ UNCHANGED << disabled, db, network, lists, keepAliveTimer, mustDisconnect, traffic >>

Pause_StopsTimer_Mutant ==
  /\ "pause" \in Env /\ Idle /\ ~disabled
  /\ disabled' = TRUE /\ keepAliveTimer' = FALSE
  /\ UNCHANGED << up, db, network, lists, mustDisconnect, traffic >>

Pause ==
  /\ "pause" \in Env /\ Idle /\ ~disabled
  /\ disabled' = TRUE
  /\ UNCHANGED << up, db, network, lists, keepAliveTimer, mustDisconnect, traffic >>

Resume ==
  /\ Idle /\ disabled
  /\ disabled' = FALSE
  /\ UNCHANGED << up, db, network, lists, keepAliveTimer, mustDisconnect, traffic >>

\* --adduser runs in a process of its own, on the same database.
AddUser(username) ==
  /\ "adduser" \in Env
  /\ hosts' = createTables
  /\ users' = addUser(users, username)
  /\ UNCHANGED << process, network, lists, keepAliveTimer, mustDisconnect, traffic >>

\* A client program connects; it sends its greeting as soon as it is connected.
Connect(c, client) ==
  /\ up /\ sock[c] = "none"
  /\ "overlap" \in Env \/ \A d \in Sockets : sock[d] # "none" => peer[d].host # client.host
  /\ sock' = [sock EXCEPT ![c] = "queued"]
  /\ alive' = [alive EXCEPT ![c] = TRUE]
  /\ peer' = [peer EXCEPT ![c] = client]
  /\ newConnection' = TRUE
  /\ \/ toServer' = [toServer EXCEPT ![c] = << Line("greet", client) >>]
     \/ "stranger" \in Env /\ toServer' = [toServer EXCEPT ![c] = << Line("other", client) >>]
  /\ UNCHANGED << process, db, lists, keepAliveTimer, mustDisconnect, arrived, toClient >>

\* A connected client pings, ends a synchronisation, or reports a change.
Send(c, kind) ==
  /\ sock[c] \in {"queued", "open"} /\ alive[c]
  /\ Len(toServer[c]) < MaxLines
  /\ Cardinality({d \in Sockets \ {c} : toServer[d] # << >>}) < MaxBusy
  /\ \A d \in Sockets : Len(toClient[d]) <= MaxNotices
  /\ toServer' = [toServer EXCEPT ![c] = Append(@, Line(kind, peer[c]))]
  /\ UNCHANGED << process, db, network, lists, keepAliveTimer, mustDisconnect, arrived, toClient >>

\* A client reads a notice.  What it does about it is module EasysyncClient's.
ReadNotice(c) ==
  /\ alive[c] /\ toClient[c] # << >>
  /\ toClient' = [toClient EXCEPT ![c] = Tail(@)]
  /\ UNCHANGED << process, db, network, lists, keepAliveTimer, mustDisconnect, toServer, arrived >>

\* The settings dialog gives a connected client other names.  Nobody greets again.
ChangeSettings(c, client) ==
  /\ "settings" \in Env /\ alive[c] /\ client # peer[c]
  /\ peer' = [peer EXCEPT ![c] = client]
  /\ UNCHANGED << process, db, sock, alive, newConnection, lists, keepAliveTimer, mustDisconnect, traffic >>

\* The client's end is gone; the server has not been told.
Vanish(c) ==
  /\ "vanish" \in Env /\ alive[c]
  /\ alive' = [alive EXCEPT ![c] = FALSE]
  /\ UNCHANGED << process, db, sock, peer, newConnection, lists, keepAliveTimer, mustDisconnect, traffic >>

-----------------------------------------------------------------------------
(* clientDisconnected.                                                     *)

\* The socket object goes, with what it had buffered (deleteLater).
SocketGone(c) ==
  /\ sock' = [sock EXCEPT ![c] = "none"]
  /\ alive' = [alive EXCEPT ![c] = FALSE]
  /\ toServer' = [toServer EXCEPT ![c] = << >>]
  /\ arrived' = [arrived EXCEPT ![c] = 0]
  /\ toClient' = [toClient EXCEPT ![c] = << >>]
  /\ peer' = [peer EXCEPT ![c] = SomeClient]
  /\ UNCHANGED newConnection

\* The slot, on the lists as the handler that closes the connection has left
\* them; rest is what mustDisconnect holds afterwards.  A debug build stops at a
\* list position that is not there.
Leave(c, rest, connections, names, seen) ==
  LET socketId == indexOf(connections, c) IN
  \/ /\ SocketGone(c)
     /\ \/ /\ socketId = -1
           /\ UNCHANGED << lists, hosts >>
        \/ /\ socketId # -1
           /\ clientConnections' = removeAll(connections, c)
           /\ \E hostname \in at(names, socketId, Hostnames) :
                /\ Update("unstored", hosts, voidConnection(hosts, hostname))
                /\ peerNames' = removeAll(names, hostname)
           /\ \E same \in Forgotten(seen, socketId) : clientLastSeen' = Keep(seen, DOMAIN seen \ same)
     /\ keepAliveTimer' = (keepAliveTimer /\ clientConnections' # << >>)
     /\ mustDisconnect' = rest
     /\ UNCHANGED << process, users >>
  \/ /\ socketId # -1
     /\ ~InRange(names, socketId) \/ ~InRange(seen, socketId)
     /\ ProcessEnds /\ UNCHANGED db

clientDisconnected(c, rest) == Leave(c, rest, clientConnections, peerNames, clientLastSeen)

\* disconnected() of a connection that its client or the network closed.
PeerCloses(c) ==
  /\ "drop" \in Env /\ Idle /\ sock[c] = "open"
  /\ clientDisconnected(c, << >>)

\* A connection nobody has accepted yet: no slot hears of its end.
PeerLeavesQueue(c) ==
  /\ "drop" \in Env /\ up /\ sock[c] = "queued"
  /\ SocketGone(c)
  /\ UNCHANGED << process, db, lists, keepAliveTimer, mustDisconnect >>

\* disconnected() of a connection that was refused, once "Negative" is written.
RefusalWritten(c) ==
  /\ Idle /\ sock[c] = "closing"
  /\ clientDisconnected(c, << >>)

-----------------------------------------------------------------------------
(* checkClientsConnection.                                                 *)

\* The first loop, five seconds after the last one.  Without "late", time does
\* not pass until the pings that are due have been read.
checkClientsConnection ==
  /\ Idle /\ keepAliveTimer
  /\ "late" \in Env \/ \A i \in DOMAIN clientLastSeen : clientLastSeen[i] < Limit
  /\ \E pastMidnight \in {FALSE} \cup (IF "midnight" \in Env THEN {TRUE} ELSE {}) :
       clientLastSeen' = [i \in DOMAIN clientLastSeen |->
                            IF pastMidnight \/ clientLastSeen[i] > Limit
                            THEN Limit + 1 ELSE clientLastSeen[i] + 1]
  /\ mustDisconnect' = Keep(clientConnections, {i \in DOMAIN clientLastSeen : clientLastSeen'[i] > Limit})
  /\ UNCHANGED << process, db, network, clientConnections, peerNames, keepAliveTimer, traffic >>

\* One turn of the second loop.  With nothing left to write, disconnectFromHost
\* emits disconnected() before it returns; otherwise it leaves that for later.
disconnectNext ==
  LET c == Head(mustDisconnect) IN
  /\ mustDisconnect # << >>
  /\ \/ sock[c] = "open" /\ clientDisconnected(c, Tail(mustDisconnect))
     \/ /\ sock[c] = "closing"
        /\ mustDisconnect' = Tail(mustDisconnect)
        /\ UNCHANGED << process, db, network, lists, keepAliveTimer, traffic >>

-----------------------------------------------------------------------------
(* handleNewConnection and readClient.                                     *)

handleNewConnection ==
  /\ Idle /\ newConnection
  /\ newConnection' = FALSE
  /\ sock' = [c \in Sockets |-> IF ~disabled /\ sock[c] = "queued" THEN "open" ELSE sock[c]]
  /\ UNCHANGED << process, db, alive, peer, lists, keepAliveTimer, mustDisconnect, traffic >>

\* Data arrives at a socket nobody reads: the daemon is paused, or it has not
\* connected the socket's signals.  The data stays in the read buffer.
ArriveUnread(c) ==
  /\ Idle
  /\ \/ sock[c] = "open" /\ disabled
     \/ sock[c] = "queued" /\ ~newConnection
  /\ arrived[c] < Len(toServer[c])
  /\ arrived' = [arrived EXCEPT ![c] = Len(toServer[c])]
  /\ UNCHANGED << process, db, network, lists, keepAliveTimer, mustDisconnect, toServer, toClient >>

\* readyRead says that some lines have arrived; readClient takes the first line
\* of the buffer, and only that one.
Reads(c, kind) ==
  /\ Idle /\ ~disabled /\ sock[c] = "open"
  /\ toServer[c] # << >> /\ Head(toServer[c]).kind = kind
  /\ arrived[c] < Len(toServer[c])
  /\ UNCHANGED newConnection

Consumed(c) ==
  /\ \E new \in 1 .. Len(toServer[c]) - arrived[c] :
       /\ new = 1 \/ "coalesce" \in Env
       /\ arrived' = [arrived EXCEPT ![c] = @ + new - 1]
  /\ toServer' = [toServer EXCEPT ![c] = Tail(@)]

\* The handler has called disconnectFromHost on a socket with nothing to write.
Hangup(c) == clientDisconnected(c, << >>)

\* The handler has written "Negative" and called disconnectFromHost: the socket
\* reads no more, and is gone when the line is out.
Refuse(c) ==
  /\ sock' = [sock EXCEPT ![c] = "closing"]
  /\ Consumed(c)
  /\ UNCHANGED << process, db, alive, peer, lists, keepAliveTimer, mustDisconnect, toClient >>

getUserInfoOK(line) == line.user \notin Unreadable /\ line.host \notin Unreadable

\* isUserValid says FALSE of an account that is not there, or when its SELECT fails.
Unwelcome(line) == ~isUserValid(users, line.user) \/ "dbfail" \in Env

readPing(c) ==
  LET socketId == indexOf(clientConnections, c) IN
  /\ Reads(c, "ping")
  /\ Consumed(c)
  /\ clientLastSeen' = IF socketId # -1 /\ InRange(clientLastSeen, socketId)
                       THEN [clientLastSeen EXCEPT ![socketId + 1] = 0] ELSE clientLastSeen
  /\ UNCHANGED << process, db, sock, alive, peer, clientConnections, peerNames,
                  keepAliveTimer, mustDisconnect, toClient >>

readOther(c) == Reads(c, "other") /\ Hangup(c)

\* "1. Robin, <username> from <peerHost> is on position!", refused.
refuseGreeting(c) ==
  /\ Reads(c, "greet")
  /\ LET line == Head(toServer[c]) IN
     \/ ~getUserInfoOK(line) /\ Hangup(c)
     \/ getUserInfoOK(line) /\ Unwelcome(line) /\ Refuse(c)

Enlist_TooEarly_Mutant(c, hostname) ==
  /\ clientConnections' = Append(clientConnections, c)
  /\ peerNames' = Append(peerNames, hostname)
  /\ clientLastSeen' = Append(clientLastSeen, 0)
  /\ keepAliveTimer' = (keepAliveTimer \/ Len(clientConnections) = 1)

\* A greeting client goes to the end of each list; the first one starts the timer.
Enlist(c, hostname) ==
  /\ clientConnections' = Append(clientConnections, c)
  /\ peerNames' = Append(peerNames, hostname)
  /\ clientLastSeen' = Append(clientLastSeen, 0)
  /\ keepAliveTimer' = (keepAliveTimer \/ Len(clientConnections') = 1)

\* The greeting of a valid user.  The host's row may keep the socket_id it had, and
\* an isSyncNeeded whose SELECT fails finds nothing to do.
readGreeting(c) ==
  LET line     == Head(toServer[c])
      socketId == indexOf(Append(clientConnections, c), c) IN
  /\ Reads(c, "greet")
  /\ getUserInfoOK(line) /\ isUserValid(users, line.user)
  /\ Consumed(c)
  /\ Enlist(c, line.host)
  /\ Update("unstored", withHostname(hosts, users, line.user, line.host),
            addHostname(hosts, users, line.user, line.host, socketId))
  /\ \/ toClient' = IF isSyncNeeded(hosts', line.host)
                    THEN [toClient EXCEPT ![c] = Append(@, line.host)] ELSE toClient
     \/ "dbfail" \in Env /\ UNCHANGED toClient
  /\ UNCHANGED << process, users, sock, alive, peer, mustDisconnect >>

\* The same when addHostname returns FALSE, its SELECT or its INSERT having failed:
\* the client is in the lists by now, and disconnectFromHost takes it out of them
\* (clientDisconnected on the longer lists).
failGreeting(c) ==
  LET line == Head(toServer[c]) IN
  /\ "dbfail" \in Env
  /\ Reads(c, "greet")
  /\ getUserInfoOK(line) /\ isUserValid(users, line.user)
  /\ Leave(c, << >>, Append(clientConnections, c), Append(peerNames, line.host), Append(clientLastSeen, 0))

\* "2. Roger": the host named at the connection's position has synchronised.
readRoger(c) ==
  LET socketId == indexOf(clientConnections, c) IN
  /\ Reads(c, "roger")
  /\ \/ /\ Consumed(c)
        /\ \E hostname \in at(peerNames, socketId, Hostnames) :
             Update("unnoted", hosts, syncIsDone(hosts, hostname))
        /\ UNCHANGED << process, users, sock, alive, peer, lists, keepAliveTimer, mustDisconnect, toClient >>
     \/ ~InRange(peerNames, socketId) /\ ProcessEnds /\ UNCHANGED db

\* "3. Robin, notify all. <username> from <peerHost>.", refused.
refuseNotifyAll(c) ==
  /\ Reads(c, "notifyAll")
  /\ LET line == Head(toServer[c]) IN
     \/ ~getUserInfoOK(line) /\ Hangup(c)
     \/ getUserInfoOK(line) /\ Unwelcome(line) /\ Refuse(c)

-----------------------------------------------------------------------------
(* notifyClients.                                                          *)

\* How many lines the loop writes to the connection at a position: one for each
\* row whose socket_id is that position.
Notices(rows, i) == Cardinality({id \in rows : hosts'[id].socket_id = i - 1})

Names_OffByOne_Mutant(i, c) ==
  InRange(peerNames, i - 1) /\ InRange(clientConnections, i) /\ clientConnections[i + 1] = c

\* Position i of both lists names connection c.
Names(i, c) == InRange(peerNames, i - 1) /\ clientConnections[i] = c

\* The loop of notifyClients over the rows the SELECT returned.
notifyClients(rows) ==
  toClient' = [c \in Sockets |->
                 IF \E i \in DOMAIN clientConnections : Names(i, c)
                 THEN LET i == CHOOSE i \in DOMAIN clientConnections : Names(i, c)
                      IN  toClient[c] \o [n \in 1 .. Notices(rows, i) |-> peerNames[i]]
                 ELSE toClient[c]]

\* Some row's socket_id is not a position of the lists.
Stale(rows) ==
  \E id \in rows : \/ ~InRange(clientConnections, hosts'[id].socket_id)
                   \/ ~InRange(peerNames, hosts'[id].socket_id)

\* A release build reads beyond the lists: the line for such a row goes to a
\* connection and with a name that the stale memory happens to hold, or nowhere.
notifyClientsAstray(rows) ==
  \E astray \in SUBSET Sockets, hostname \in Hostnames :
    /\ Cardinality(astray) <= Cardinality(rows)
    /\ \A c \in astray : sock[c] \in {"queued", "open"}
    /\ toClient' = [c \in Sockets |-> IF c \in astray THEN Append(toClient[c], hostname) ELSE toClient[c]]

\* A clientsToSync whose SELECT fails returns no rows.
readNotifyAll(c) ==
  LET line == Head(toServer[c]) IN
  /\ Reads(c, "notifyAll")
  /\ getUserInfoOK(line) /\ isUserValid(users, line.user)
  /\ Update("unnoted", hosts, setNotifyAllExcept(hosts, users, line.user, line.host))
  /\ UNCHANGED users
  /\ \E rows \in {clientsToSync(hosts', users, line.user)} \cup (IF "dbfail" \in Env THEN {{}} ELSE {}) :
       \/ /\ Consumed(c)
          /\ \/ ~Stale(rows) /\ notifyClients(rows)
             \/ Stale(rows) /\ notifyClientsAstray(rows)
          /\ UNCHANGED << process, sock, alive, peer, lists, keepAliveTimer, mustDisconnect >>
       \/ Stale(rows) /\ ProcessEnds

-----------------------------------------------------------------------------
Next ==
  \/ Stop \/ Start \/ Pause \/ Resume
  \/ \E username \in Usernames : AddUser(username)
  \/ checkClientsConnection \/ disconnectNext \/ handleNewConnection
  \/ \E c \in Sockets :
       \/ \E client \in Clients : Connect(c, client) \/ ChangeSettings(c, client)
       \/ \E kind \in {"ping", "roger", "notifyAll"} : Send(c, kind)
       \/ ReadNotice(c) \/ Vanish(c)
       \/ PeerCloses(c) \/ PeerLeavesQueue(c) \/ RefusalWritten(c)
       \/ ArriveUnread(c)
       \/ readPing(c) \/ readOther(c)
       \/ refuseGreeting(c) \/ readGreeting(c) \/ failGreeting(c)
       \/ readRoger(c) \/ refuseNotifyAll(c) \/ readNotifyAll(c)

Spec == Init /\ [][Next]_vars

\* The timer fires, and a loop goes on, as long as the event loop runs.
FairSpec == Spec /\ WF_vars(checkClientsConnection) /\ WF_vars(disconnectNext)
-----------------------------------------------------------------------------
(* Properties.                                                             *)

\* The three lists speak of the same client at the same position, under the name
\* it connected with, and of no client twice.  Every handler that has found a
\* position in one list uses it in another.  Holds while no host connects over a
\* connection the server still holds, no two instants are equal, and nobody
\* changes settings: removeAll works by value, on each list for itself.
ListsParallel ==
  /\ Len(peerNames) = Len(clientConnections)
  /\ Len(clientLastSeen) = Len(clientConnections)
  /\ \A i \in DOMAIN clientConnections : peerNames[i] = peer[clientConnections[i]].host
  /\ \A i, j \in DOMAIN clientConnections :
       clientConnections[i] = clientConnections[j] \/ peerNames[i] = peerNames[j] => i = j

\* The keep-alive checks run exactly while somebody is connected: the start in
\* readClient and the stop in clientDisconnected never miss each other, whatever
\* mix of greetings, hang-ups and failures comes between.
KeepAliveRuns == keepAliveTimer <=> clientConnections # << >>

\* addHostname's look-up keeps the table to one row for each host name, though
\* the table has no such constraint and greetings repeat.
OneRowPerHostname ==
  \A i, j \in DOMAIN hosts : hosts[i].hostname = hosts[j].hostname => i = j

\* A client that is in the lists has a socket_id in the database: a change of
\* somebody else's can reach it.  Holds under the conditions of ListsParallel, while
\* nobody runs --adduser and as long as the UPDATE of addHostname does not fail.
ListedClientIsReachable ==
  \A i \in DOMAIN peerNames :
    \E id \in DOMAIN hosts : hosts[id].hostname = peerNames[i] /\ hosts[id].socket_id # -1

\* "Index of every connected client is stored in the database" (dbmanager.h): a
\* stored index is the position of the host it is stored for.
StoredIndexIsCurrent ==
  \A id \in DOMAIN hosts :
    hosts[id].socket_id # -1 =>
      /\ InRange(peerNames, hosts[id].socket_id)
      /\ peerNames[hosts[id].socket_id + 1] = hosts[id].hostname

\* A notice names the host that reads it; the client hangs up on any other name.
NoticeNamesItsReader ==
  \A c \in Sockets : \A i \in DOMAIN toClient[c] : toClient[c][i] = peer[c].host

\* Host names a listed client of the moment goes by.
Listed(c, hostname) ==
  \E i \in DOMAIN clientConnections : clientConnections[i] = c /\ InRange(peerNames, i - 1) /\ peerNames[i] = hostname

Owes(hostname) == \E id \in DOMAIN hosts : hosts[id].hostname = hostname /\ hosts[id].must_sync = 1

Obliged(c, hostname) == Listed(c, hostname) /\ Owes(hostname)

\* A client that comes to owe a synchronisation while listed, or is listed while
\* owing one, is sent its notice in that very step: nothing else would send it.
ToldWhenObliged ==
  [][\A c \in Sockets, hostname \in Hostnames :
       (~Obliged(c, hostname) /\ Obliged(c, hostname)') =>
          /\ Len(toClient'[c]) > Len(toClient[c])
          /\ toClient'[c][Len(toClient'[c])] = hostname]_vars

\* Only a "2. Roger" read from the host's own connection releases it from a
\* synchronisation it owes.
ReleasedByItsOwnRoger ==
  [][\A hostname \in Hostnames :
       (Owes(hostname) /\ ~Owes(hostname)') =>
          \E c \in Sockets : /\ toServer[c] # << >> /\ toServer'[c] = Tail(toServer[c])
                            /\ Head(toServer[c]).kind = "roger" /\ Head(toServer[c]).host = hostname]_vars

\* A listed client whose machine has gone is out of the lists in the end: the
\* keep-alive check finds every one of them.  (One that is being refused goes when its
\* refusal is written; no listed client is refused unless a SELECT fails.)
GoneClientIsRemoved ==
  \A c \in Sockets :
    (\E i \in DOMAIN clientConnections : clientConnections[i] = c) /\ ~alive[c]
      ~> ~\E i \in DOMAIN clientConnections : clientConnections[i] = c

\* "sets 'must_sync' to 1 for all hostnames, except given hostname" (dbmanager.cpp,
\* setNotifyAllExcept): after a report of a client that stays, the other known hosts
\* of its account owe a synchronisation.
ReportIsNoted ==
  [][\A c \in Sockets, line \in [kind : {"notifyAll"}, user : Usernames, host : Hostnames] :
       (toServer[c] # << >> /\ Head(toServer[c]) = line /\ toServer'[c] = Tail(toServer[c]) /\ sock'[c] = "open") =>
          \A id \in DOMAIN hosts : hosts[id].user = line.user /\ hosts[id].hostname # line.host =>
                                    hosts'[id].must_sync = 1]_vars

\* "check that table exists" (dbmanager.cpp, createTables): adding a user leaves
\* the hosts that are registered.
AddUserKeepsHosts == [][hosts # << >> => hosts' # << >>]_vars
=============================================================================
