--------------------------- MODULE EasysyncProofs ---------------------------
(***************************************************************************)
(* Theorems about module Easysync, for any clients of one account, sockets *)
(* and numbers of changes: the system contains the daemon of module        *)
(* EasysyncServer as it is, and when the exchange rests, all computers     *)
(* have what clients were told of.  The invariant behind it follows each   *)
(* such change from the directory it was seen in: until the daemon has     *)
(* read a report of it somebody will report it, and from then on whoever   *)
(* lacks it will synchronise.                                              *)
(***************************************************************************)
EXTENDS Easysync, EasysyncRefinementProofs

\* Directories hold changes that have been made.
OnlyChangesMade ==
  /\ changes \in 0 .. MaxChanges
  /\ store \subseteq 1 .. changes
  /\ files \in [Hostnames -> SUBSET (1 .. changes)]
  /\ scanned \in [Hostnames -> SUBSET (1 .. changes)]
  /\ watched \subseteq 1 .. changes /\ heard \subseteq 1 .. changes

ProgramTypeOK ==
  /\ syncTimer \in [Hostnames -> BOOLEAN] /\ syncInProgress \in [Hostnames -> BOOLEAN]
  /\ needToSync \in [Hostnames -> BOOLEAN] /\ notifyAllAfterSync \in [Hostnames -> BOOLEAN]
  /\ signal \in [Hostnames -> BOOLEAN]

\* A host that has registered is listed, under the account it registered with.
RowsAreListed ==
  \A id \in DOMAIN hosts :
    \E c \in Sockets : /\ Enlisted(c)
                       /\ hosts[id].hostname = peer[c].host /\ hosts[id].user = peer[c].user

\* A report of host h is on its way to the daemon.
ReportInFlight(h) ==
  \E c \in Sockets : /\ Online(c, h)
                     /\ \E i \in DOMAIN toServer[c] : toServer[c][i].kind = "notifyAll"

\* Host h has the change and will report it: a synchronisation that ends with a
\* report is to come, or runs and has found the change, or is through.
WillReport(h, change) ==
  /\ change \in files[h]
  /\ \/ syncTimer[h]
     \/ syncInProgress[h] /\ (needToSync[h] \/ (notifyAllAfterSync[h] /\ change \in scanned[h]))
     \/ change \in store /\ ReportInFlight(h)

\* Host h is connected, and has a notice to read, or a greeting to send or be read
\* that will be answered with one.
IsTold(h) == \E c \in Sockets : Online(c, h) /\ (~Enlisted(c) \/ toClient[c] # << >>)

\* The change is on the server, and host h will take it from there.
WillReceive(h, change) ==
  /\ change \in store
  /\ \/ IsTold(h)
     \/ syncTimer[h]
     \/ syncInProgress[h] /\ (needToSync[h] \/ change \in scanned[h])

\* No change of which a client was told stays where it was seen.
NothingIsKept ==
  \A change \in heard : change \in store \/ \E h \in Hostnames : WillReport(h, change)

\* No connected host is left without one.
NobodyIsForgotten ==
  \A change \in heard : \A h \in Hostnames :
    Here(h) => \/ change \in files[h]
               \/ WillReceive(h, change)
               \/ \E g \in Hostnames : WillReport(g, change)

Delivery ==
  /\ ProgramTypeOK /\ OnlyChangesMade /\ RowsAreListed
  /\ NothingIsKept /\ NobodyIsForgotten

-----------------------------------------------------------------------------
(* The daemon in the system is the daemon.                                 *)

\* What no connection takes part in, the daemon does not see.
LEMMA LocalIsLocal ==
  ASSUME NEW h, LocalStep(h)
  PROVE  UNCHANGED vars
BY DEF LocalStep, Change, handleDirectoryChanged, _q_directoryChanged, handleSyncTimer

\* A step of the system is one of the daemon and its connections, or none.
LEMMA DaemonSteps == [SystemNext]_system => [Next]_vars
<1> SUFFICES ASSUME [SystemNext]_system PROVE [Next]_vars
  OBVIOUS
<1>1. CASE UNCHANGED system \/ Accepts
  BY <1>1 DEF system, Accepts, Next
<1>2. ASSUME NEW c \in Sockets, NEW client \in Clients, Joins(c, client)
      PROVE  Next
  BY <1>2 DEF Joins, Next
<1>3. ASSUME NEW c \in Sockets, readClient(c)
      PROVE  Next
  BY <1>3 DEF readClient, Next
<1>4. ASSUME NEW c \in Sockets, NEW h \in Hostnames, readFromServer(c, h)
      PROVE  Next
  BY <1>4 DEF readFromServer, Next
<1>5. ASSUME NEW c \in Sockets, NEW h \in Hostnames, handleSyncIsFinished(c, h)
      PROVE  Next
  <2>1. \E kind \in {"ping", "roger", "notifyAll"} : Send(c, kind)
    BY <1>5 DEF handleSyncIsFinished
  <2>2. QED
    BY <2>1 DEF Next
<1>6. ASSUME NEW h \in Hostnames, LocalStep(h)
      PROVE  UNCHANGED vars
  BY <1>6, LocalIsLocal
<1>7. QED
  BY <1>1, <1>2, <1>3, <1>4, <1>5, <1>6 DEF SystemNext, ClientStep

\* Easysync implements EasysyncServer: the daemon sees its clients do what any clients
\* may do, so that whatever is proved of the daemon holds in the system, the theorems
\* of EasysyncServerProofs and EasysyncRefinementProofs among it.
THEOREM DaemonCorrect == SystemSpec => Spec
BY DaemonSteps, PTL DEF SystemSpec, SystemInit, Spec

\* What is proved of the daemon while nobody leaves.
DaemonInOrder == Alignment /\ GreetsFirst /\ Presence /\ Reached

LEMMA DaemonHolds ==
  ASSUME NobodyLeaves, PlainNames, "adduser" \notin Env
  PROVE  SystemSpec => []DaemonInOrder
<1>1. Spec => []Alignment /\ []OneRowPerHostname /\ []ListedClientIsReachable
  BY NobodyLeavesIsCalm, AlignmentHolds, OneRowCorrect, ReachableCorrect
<1>2. OneRowPerHostname /\ ListedClientIsReachable => Reached
  BY DEF Reached
<1>3. Alignment /\ GreetsFirst /\ Presence /\ Reached => DaemonInOrder
  BY DEF DaemonInOrder
<1>4. QED
  BY <1>1, <1>2, <1>3, DaemonCorrect, GreetsFirstHolds, PresenceHolds, PTL

-----------------------------------------------------------------------------
(* What a step does to the connections.                                    *)

\* Types that the steps below need.
LEMMA DaemonTypes ==
  ASSUME DaemonInOrder
  PROVE  /\ Bookkeeping /\ hosts \in Seq(Row) /\ sock \in [Sockets -> {"none", "queued", "open", "closing"}]
         /\ alive \in [Sockets -> BOOLEAN] /\ peer \in [Sockets -> Clients]
         /\ toServer \in [Sockets -> Seq(Message)] /\ toClient \in [Sockets -> Seq(Hostnames)]
         /\ \A c \in Sockets : peer[c].user \in Usernames /\ peer[c].host \in Hostnames
BY ClientNames DEF DaemonInOrder, Alignment, Bookkeeping, TypeOK, Message

\* addHostname gives a host that registers a row that owes a synchronisation: no
\* listed client has its name, and every row is a listed client's.
LEMMA NewHostOwes ==
  ASSUME DaemonInOrder, PlainNames, RowsAreListed, NEW c \in Sockets, readGreeting(c)
  PROVE  Added(hosts, hosts', peer[c].user, peer[c].host) /\ OwesThen(peer[c].host)
<1>1. ~Enlisted(c) /\ Welcome(c)
  BY Greeted DEF DaemonInOrder
<1>2. peer[c].host \notin HostsOf(hosts)
  <2>1. \A d \in Sockets : Enlisted(d) => sock[d] # "none" /\ d # c
    BY <1>1 DEF DaemonInOrder, Presence, ListedAreWelcome, Welcome
  <2>2. \A d \in Sockets : Enlisted(d) => peer[d].host # peer[c].host
    BY <1>1, <2>1 DEF Welcome, DaemonInOrder, Alignment, HostsApart
  <2>3. QED
    BY <2>2 DEF HostsOf, RowsAreListed
<1>3. PICK socketId \in Int : hosts' = addHostname(hosts, users, peer[c].user, peer[c].host, socketId)
  BY Greeted DEF DaemonInOrder
<1>4. peer[c].host \notin DOMAIN Escape /\ isUserValid(users, peer[c].user)
  BY <1>1, DaemonTypes DEF PlainNames, Welcome
<1>5. Added(hosts, hosts', peer[c].user, peer[c].host)
  BY <1>2, <1>3, <1>4, DaemonTypes, RowsAfterGreeting DEF Found
<1>6. QED
  BY <1>5 DEF Added, OwesThen

\* What the daemon does when it reads a line: it lists the sender if that was not
\* listed, takes no notice back, and writes one to whoever registers.
LEMMA LineIsRead ==
  ASSUME DaemonInOrder, PlainNames, RowsAreListed, NEW c \in Sockets,
         readGreeting(c) \/ readRoger(c) \/ readNotifyAll(c)
  PROVE  /\ toServer[c] # << >> /\ Consumed(c) /\ UNCHANGED << sock, alive, peer >>
         /\ \A d : Enlisted(d)' <=> Enlisted(d) \/ d = c
         /\ \A d \in Sockets : toClient[d] # << >> => toClient'[d] # << >>
         /\ ~Enlisted(c) => toClient'[c] # << >>
<1> USE DEF DaemonInOrder
<1>1. ASSUME NEW d \in Sockets, ToldOnce(d)
      PROVE  toClient[d] # << >> \/ OwesThen(peer[d].host) => toClient'[d] # << >>
  BY <1>1, DaemonTypes, AppendProperties DEF ToldOnce
<1>2. CASE readGreeting(c)
  <2>1. ToldOnce(c) /\ \A d \in Sockets : d # c => toClient'[d] = toClient[d]
    BY <1>2, GreetedOnce
  <2>2. toClient'[c] # << >>
    BY <1>1, <1>2, <2>1, NewHostOwes
  <2>3. UNCHANGED alive
    BY <1>2 DEF readGreeting
  <2>4. QED
    BY <1>2, <2>1, <2>2, <2>3, Greeted
<1>3. CASE readRoger(c)
  <2>1. Serves(c) /\ UNCHANGED toClient
    BY <1>3, RogerIsServed
  <2>2. QED
    BY <2>1 DEF Serves, Enlisted
<1>4. CASE readNotifyAll(c)
  <2>1. /\ Serves(c) /\ isUserValid(users, peer[c].user)
        /\ hosts' = setNotifyAllExcept(hosts, users, peer[c].user, peer[c].host)
        /\ notifyClients(clientsToSync(hosts', users, peer[c].user))
    BY <1>4, ReportIsServed
  <2>2. ASSUME NEW d \in Sockets, toClient[d] # << >>
        PROVE  toClient'[d] # << >>
    <3>1. Enlisted(d)
      BY <2>2 DEF Presence, NoticesHaveReaders
    <3>2. QED
      BY <1>1, <2>1, <2>2, <3>1, NotifiedOnce
  <2>3. QED
    BY <2>1, <2>2 DEF Serves, Enlisted
<1>5. QED
  BY <1>2, <1>3, <1>4

\* Whoever joins is a socket that had no connection; nothing else changes peers.
LEMMA OnlineStays ==
  ASSUME DaemonInOrder, PlainNames, RowsAreListed, [SystemNext]_system,
         NEW c \in Sockets, NEW h, Online(c, h)
  PROVE  Online(c, h)'
<1>1. CASE UNCHANGED << sock, alive, peer >>
  BY <1>1 DEF Online
<1>2. CASE Accepts
  BY <1>2, DaemonTypes DEF Accepts, handleNewConnection, Online
<1>3. ASSUME NEW d \in Sockets, NEW client \in Clients, Joins(d, client)
      PROVE  Online(c, h)'
  <2>1. c # d
    BY <1>3 DEF Joins, Connect, Online
  <2>2. QED
    BY <1>3, <2>1, DaemonTypes DEF Joins, Connect, Online
<1>4. ASSUME NEW d \in Sockets, readClient(d)
      PROVE  UNCHANGED << sock, alive, peer >>
  BY <1>4, LineIsRead DEF readClient
<1>5. ASSUME NEW d \in Sockets, NEW g \in Hostnames, ClientStep(d, g)
      PROVE  UNCHANGED << sock, alive, peer >>
  BY <1>5 DEF ClientStep, readFromServer, handleSyncIsFinished, ReadNotice, Send, vars, network
<1>6. ASSUME NEW g \in Hostnames, LocalStep(g)
      PROVE  UNCHANGED << sock, alive, peer >>
  BY <1>6, LocalIsLocal DEF vars, network
<1>7. CASE UNCHANGED system
  BY <1>1, <1>7 DEF system, vars, network
<1>8. QED
  BY <1>1, <1>2, <1>3, <1>4, <1>5, <1>6, <1>7 DEF SystemNext

\* The lists and the table change when a line is read, and only then.
LEMMA ListsStay ==
  ASSUME [SystemNext]_system, \A c \in Sockets : ~readClient(c)
  PROVE  UNCHANGED << hosts, clientConnections >>
<1>1. ASSUME NEW d \in Sockets, NEW client \in Clients, Joins(d, client)
      PROVE  UNCHANGED << hosts, clientConnections >>
  BY <1>1 DEF Joins, Connect, db, lists
<1>2. ASSUME NEW d \in Sockets, NEW g \in Hostnames,
             ClientStep(d, g)
      PROVE  UNCHANGED << hosts, clientConnections >>
  BY <1>2 DEF ClientStep, readFromServer, handleSyncIsFinished, ReadNotice, Send,
              vars, db, lists
<1>3. ASSUME NEW g \in Hostnames, LocalStep(g)
      PROVE  UNCHANGED << hosts, clientConnections >>
  BY <1>3, LocalIsLocal DEF vars, db, lists
<1>4. CASE Accepts \/ UNCHANGED system
  BY <1>4 DEF Accepts, handleNewConnection, system, vars, db, lists
<1>5. QED
  BY <1>1, <1>2, <1>3, <1>4 DEF SystemNext

\* A row is added in the name of the connection that is listed in the same step.
LEMMA RowsStep ==
  ASSUME DaemonInOrder, PlainNames, RowsAreListed, [SystemNext]_system
  PROVE  RowsAreListed'
<1>1. ASSUME NEW c \in Sockets, readClient(c)
      PROVE  RowsAreListed'
  <2>1. UNCHANGED peer /\ \A d : Enlisted(d) => Enlisted(d)'
    BY <1>1, LineIsRead DEF readClient
  <2>2. ASSUME NEW id \in DOMAIN hosts, hosts'[id].hostname = hosts[id].hostname, hosts'[id].user = hosts[id].user
        PROVE  \E d \in Sockets : /\ Enlisted(d)'
                                  /\ hosts'[id].hostname = peer'[d].host /\ hosts'[id].user = peer'[d].user
    BY <2>1, <2>2 DEF RowsAreListed
  <2>3. CASE readGreeting(c)
    <3>1. Added(hosts, hosts', peer[c].user, peer[c].host) /\ Enlisted(c)'
      BY <2>3, NewHostOwes, LineIsRead
    <3>2. QED
      BY <2>1, <2>2, <3>1 DEF Added, RowsAreListed
  <2>4. CASE readRoger(c)
    <3>1. hosts' = syncIsDone(hosts, peer[c].host)
      BY <2>4, RogerIsServed DEF DaemonInOrder
    <3>2. SameRows(hosts, hosts')
      BY <3>1, DaemonTypes, SyncIsDone
    <3>3. QED
      BY <2>2, <3>2 DEF SameRows, RowsAreListed
  <2>5. CASE readNotifyAll(c)
    <3>1. hosts' = setNotifyAllExcept(hosts, users, peer[c].user, peer[c].host)
      BY <2>5, ReportIsServed DEF DaemonInOrder
    <3>2. SameRows(hosts, hosts')
      BY <3>1, DaemonTypes, SetNotifyAllExcept
    <3>3. QED
      BY <2>2, <3>2 DEF SameRows, RowsAreListed
  <2>6. QED
    BY <1>1, <2>3, <2>4, <2>5 DEF readClient
<1>2. CASE \A c \in Sockets : ~readClient(c)
  <2>1. UNCHANGED << hosts, clientConnections >>
    BY <1>2, ListsStay
  <2>2. \A c \in Sockets : Enlisted(c) => Enlisted(c)' /\ peer'[c] = peer[c]
    <3> TAKE c \in Sockets
    <3> HAVE Enlisted(c)
    <3>1. Enlisted(c)'
      BY <2>1 DEF Enlisted
    <3>2. sock[c] = "open"
      BY DEF DaemonInOrder, Presence, ListedAreWelcome, Welcome
    <3>3. peer'[c] = peer[c]
      <4>1. CASE \E d \in Sockets, client \in Clients : Joins(d, client)
        BY <3>2, <4>1, DaemonTypes DEF Joins, Connect
      <4>2. CASE ~\E d \in Sockets, client \in Clients : Joins(d, client)
        BY <1>2, <4>2, LocalIsLocal DEF SystemNext, Accepts, handleNewConnection, ClientStep, readFromServer,
                         handleSyncIsFinished, ReadNotice, Send, system, vars, network
      <4>3. QED
        BY <4>1, <4>2
    <3>4. QED
      BY <3>1, <3>3
  <2>3. QED
    BY <2>1, <2>2 DEF RowsAreListed
<1>3. QED
  BY <1>1, <1>2

-----------------------------------------------------------------------------
(* A report on its way.                                                    *)

\* What a step does that is neither the client program's nor a line read.
LEMMA ProgramsRest ==
  ASSUME [SystemNext]_system, ~\E h \in Hostnames : LocalStep(h),
         \A c \in Sockets : ~readClient(c) /\ \A h \in Hostnames : ~ClientStep(c, h)
  PROVE  /\ UNCHANGED << program, data, toClient >>
         /\ \/ UNCHANGED << alive, peer, toServer >> /\ \A c \in Sockets : sock[c] = "none" => sock'[c] = "none"
            \/ \E c \in Sockets, client \in Clients : Joins(c, client)
<1>1. CASE Accepts
  <2>1. sock' = [c \in Sockets |-> IF ~disabled /\ sock[c] = "queued" THEN "open" ELSE sock[c]]
    BY <1>1 DEF Accepts, handleNewConnection
  <2>2. \A c \in Sockets : sock[c] = "none" => sock'[c] = "none"
    BY <2>1
  <2>3. QED
    BY <1>1, <2>2 DEF Accepts, handleNewConnection, traffic
<1>2. CASE \E c \in Sockets, client \in Clients : Joins(c, client)
  BY <1>2 DEF Joins, Connect
<1>3. CASE UNCHANGED system
  BY <1>3 DEF system, vars, network, traffic
<1>4. QED
  BY <1>1, <1>2, <1>3 DEF SystemNext

\* A report stays on its way until the daemon reads it.
LEMMA ReportStays ==
  ASSUME DaemonInOrder, PlainNames, RowsAreListed, [SystemNext]_system, NEW h, ReportInFlight(h)
  PROVE  ReportInFlight(h)' \/ \E c \in Sockets : Online(c, h) /\ readNotifyAll(c)
<1>1. PICK c \in Sockets : Online(c, h) /\ \E i \in DOMAIN toServer[c] : toServer[c][i].kind = "notifyAll"
  BY DEF ReportInFlight
<1>2. PICK i \in DOMAIN toServer[c] : toServer[c][i].kind = "notifyAll"
  BY <1>1
<1>3. Online(c, h)'
  BY <1>1, OnlineStays
<1>4. (\E j \in DOMAIN toServer'[c] : toServer'[c][j].kind = "notifyAll") => ReportInFlight(h)'
  BY <1>3 DEF ReportInFlight
<1>5. toServer[c] \in Seq(Message) /\ toServer \in [Sockets -> Seq(Message)]
  BY DaemonTypes
<1>6. ASSUME NEW d \in Sockets, readClient(d)
      PROVE  (\E j \in DOMAIN toServer'[c] : toServer'[c][j].kind = "notifyAll") \/ readNotifyAll(c)
  <2>1. toServer[d] # << >> /\ Consumed(d)
    BY <1>6, LineIsRead DEF readClient
  <2>2. CASE d # c
    <3>1. toServer'[c] = toServer[c]
      BY <2>1, <2>2, DaemonTypes, ConsumedLines
    <3>2. QED
      BY <1>2, <3>1
  <2>3. CASE d = c /\ i = 1
    <3>1. Head(toServer[c]).kind = "notifyAll"
      BY <1>2, <1>5, <2>3
    <3>2. ~readGreeting(c) /\ ~readRoger(c)
      BY <3>1 DEF readGreeting, readRoger, Reads
    <3>3. QED
      BY <1>6, <2>3, <3>2 DEF readClient
  <2>4. CASE d = c /\ i # 1
    <3>1. toServer'[c] = Tail(toServer[c])
      BY <1>5, <2>1, <2>4 DEF Consumed
    <3>2. i - 1 \in DOMAIN toServer'[c] /\ toServer'[c][i - 1] = toServer[c][i]
      BY <1>2, <1>5, <2>1, <2>4, <3>1
    <3>3. QED
      BY <1>2, <3>2
  <2>5. QED
    BY <2>2, <2>3, <2>4
<1>7. ASSUME NEW d \in Sockets, NEW g \in Hostnames, handleSyncIsFinished(d, g)
      PROVE  \E j \in DOMAIN toServer'[c] : toServer'[c][j].kind = "notifyAll"
  <2>1. PICK line : toServer' = [toServer EXCEPT ![d] = Append(toServer[d], line)]
    BY <1>7 DEF handleSyncIsFinished, Send
  <2>2. toServer'[c] = toServer[c] \/ toServer'[c] = Append(toServer[c], line)
    BY <1>5, <2>1
  <2>3. i \in DOMAIN toServer'[c] /\ toServer'[c][i] = toServer[c][i]
    BY <1>2, <1>5, <2>2
  <2>4. QED
    BY <1>2, <2>3
<1>8. ASSUME NEW d \in Sockets, NEW client \in Clients, Joins(d, client)
      PROVE  toServer'[c] = toServer[c]
  BY <1>1, <1>5, <1>8 DEF Joins, Connect, Online
<1>9. ASSUME NEW g \in Hostnames,
             LocalStep(g) \/ \E d \in Sockets : readFromServer(d, g)
      PROVE  toServer' = toServer
  BY <1>9, LocalIsLocal DEF readFromServer, ReadNotice, vars, traffic
<1>10. QED
  BY <1>1, <1>2, <1>4, <1>6, <1>7, <1>8, <1>9, ProgramsRest DEF ClientStep

-----------------------------------------------------------------------------
(* A change on its way to the server.                                      *)

\* A step of one host's program leaves the other hosts' as they are.
LEMMA OneHostSteps ==
  ASSUME ProgramTypeOK, OnlyChangesMade, NEW g \in Hostnames, NEW h \in Hostnames, g # h,
         LocalStep(g) \/ \E c \in Sockets : ClientStep(c, g)
  PROVE  /\ files'[h] = files[h] /\ scanned'[h] = scanned[h]
         /\ syncTimer'[h] = syncTimer[h] /\ syncInProgress'[h] = syncInProgress[h]
         /\ needToSync'[h] = needToSync[h] /\ notifyAllAfterSync'[h] = notifyAllAfterSync[h]
<1> USE DEF ProgramTypeOK, OnlyChangesMade
<1>1. CASE handleSyncTimer(g)
  BY <1>1 DEF handleSyncTimer, startSynchronisation, Begins
<1>2. CASE Change(g) \/ handleDirectoryChanged(g) \/ _q_directoryChanged(g)
  BY <1>2 DEF Change, handleDirectoryChanged, _q_directoryChanged, program
<1>3. ASSUME NEW c \in Sockets, readFromServer(c, g)
      PROVE  /\ UNCHANGED << files, syncTimer >> /\ scanned'[h] = scanned[h]
             /\ syncInProgress'[h] = syncInProgress[h] /\ needToSync'[h] = needToSync[h]
             /\ notifyAllAfterSync'[h] = notifyAllAfterSync[h]
  BY <1>3 DEF readFromServer, startSynchronisation, Begins
<1>4. ASSUME NEW c \in Sockets, handleSyncIsFinished(c, g)
      PROVE  /\ files'[h] = files[h] /\ scanned'[h] = scanned[h]
             /\ syncTimer'[h] = syncTimer[h] /\ syncInProgress'[h] = syncInProgress[h]
             /\ needToSync'[h] = needToSync[h] /\ notifyAllAfterSync'[h] = notifyAllAfterSync[h]
  BY <1>4 DEF handleSyncIsFinished, Begins
<1>5. QED
  BY <1>1, <1>2, <1>3, <1>4 DEF ClientStep, LocalStep

\* The parts of a step of the system: one host's program, or none.
LEMMA SystemSteps ==
  ASSUME [SystemNext]_system
  PROVE  \/ UNCHANGED << program, data >>
         \/ \E g \in Hostnames : LocalStep(g) \/ \E c \in Sockets : ClientStep(c, g)
<1>1. ASSUME NEW c \in Sockets, readClient(c)
      PROVE  UNCHANGED << program, data >>
  BY <1>1 DEF readClient
<1>2. QED
  BY <1>1, ProgramsRest

\* No directory loses a change.
LEMMA DataGrows ==
  ASSUME OnlyChangesMade, [SystemNext]_system
  PROVE  store \subseteq store' /\ \A h \in Hostnames : files[h] \subseteq files'[h]
<1>1. CASE UNCHANGED << program, data >>
  BY <1>1 DEF data
<1>2. ASSUME NEW g \in Hostnames, LocalStep(g)
      PROVE  store' = store /\ \A h \in Hostnames : files[h] \subseteq files'[h]
  <2>1. CASE handleSyncTimer(g) \/ handleDirectoryChanged(g) \/ _q_directoryChanged(g)
    BY <2>1 DEF handleSyncTimer, handleDirectoryChanged, _q_directoryChanged
  <2>2. CASE Change(g)
    <3>1. files' = [files EXCEPT ![g] = files[g] \cup {changes'}] /\ store' = store
      BY <2>2 DEF Change
    <3>2. QED
      BY <3>1 DEF OnlyChangesMade
  <2>3. QED
    BY <1>2, <2>1, <2>2 DEF LocalStep
<1>3. ASSUME NEW c \in Sockets, NEW g \in Hostnames, ClientStep(c, g)
      PROVE  store \subseteq store' /\ \A h \in Hostnames : files[h] \subseteq files'[h]
  <2>1. CASE readFromServer(c, g)
    BY <2>1 DEF readFromServer
  <2>2. CASE handleSyncIsFinished(c, g)
    <3>1. files' = [files EXCEPT ![g] = files[g] \cup scanned[g]] /\ store' = store \cup scanned[g]
      BY <2>2 DEF handleSyncIsFinished
    <3>2. QED
      BY <3>1 DEF OnlyChangesMade
  <2>3. QED
    BY <1>3, <2>1, <2>2 DEF ClientStep
<1>4. QED
  BY <1>1, <1>2, <1>3, SystemSteps

\* A change that will be reported is until its report is read.
LEMMA WillReportStays ==
  ASSUME DaemonInOrder, PlainNames, RowsAreListed, ProgramTypeOK, OnlyChangesMade, [SystemNext]_system,
         NEW h \in Hostnames, NEW change, WillReport(h, change)
  PROVE  \/ WillReport(h, change)'
         \/ change \in store /\ \E c \in Sockets : Online(c, h) /\ readNotifyAll(c)
<1>1. change \in files[h] /\ change \in files'[h] /\ store \subseteq store'
  BY DataGrows DEF WillReport
<1>2. ASSUME change \in store, ReportInFlight(h)
      PROVE  \/ WillReport(h, change)'
             \/ change \in store /\ \E c \in Sockets : Online(c, h) /\ readNotifyAll(c)
  BY <1>1, <1>2, ReportStays DEF WillReport
<1>3. ASSUME syncTimer[h] \/ (syncInProgress[h] /\ (needToSync[h] \/ (notifyAllAfterSync[h] /\ change \in scanned[h])))
      PROVE  WillReport(h, change)'
  <2> USE DEF ProgramTypeOK, OnlyChangesMade
  <2>1. CASE UNCHANGED << program, data >>
    BY <1>1, <1>3, <2>1 DEF WillReport, program, data
  <2>2. ASSUME NEW g \in Hostnames, g # h,
               LocalStep(g) \/ \E c \in Sockets : ClientStep(c, g)
        PROVE  WillReport(h, change)'
    BY <1>1, <1>3, <2>2, OneHostSteps DEF WillReport
  <2>3. CASE handleSyncTimer(h)
    <3>1. startSynchronisation(h, TRUE)
      BY <2>3 DEF handleSyncTimer
    <3>2. CASE syncInProgress[h]
      BY <1>1, <3>1, <3>2 DEF startSynchronisation, WillReport
    <3>3. CASE ~syncInProgress[h]
      BY <1>1, <3>1, <3>3 DEF startSynchronisation, Begins, WillReport
    <3>4. QED
      BY <3>2, <3>3
  <2>4. CASE Change(h) \/ handleDirectoryChanged(h) \/ _q_directoryChanged(h)
    BY <1>1, <1>3, <2>4 DEF Change, handleDirectoryChanged, _q_directoryChanged, program, WillReport
  <2>5. ASSUME NEW c \in Sockets, readFromServer(c, h)
        PROVE  WillReport(h, change)'
    <3>1. syncTimer' = syncTimer /\ startSynchronisation(h, FALSE)
      BY <2>5 DEF readFromServer
    <3>2. CASE syncInProgress[h]
      BY <1>1, <3>1, <3>2 DEF startSynchronisation, WillReport
    <3>3. CASE ~syncInProgress[h]
      BY <1>1, <1>3, <3>1, <3>3 DEF WillReport
    <3>4. QED
      BY <3>2, <3>3
  <2>6. ASSUME NEW c \in Sockets, handleSyncIsFinished(c, h)
        PROVE  WillReport(h, change)'
    <3>1. /\ Online(c, h) /\ syncTimer' = syncTimer /\ store' = store \cup scanned[h]
          /\ Send(c, IF notifyAllAfterSync[h] THEN "notifyAll" ELSE "roger")
          /\ (needToSync[h] /\ Begins(h, TRUE)) \/ ~needToSync[h]
      BY <2>6 DEF handleSyncIsFinished
    <3>2. CASE syncTimer[h]
      BY <1>1, <3>1, <3>2 DEF WillReport
    <3>3. CASE needToSync[h]
      BY <1>1, <3>1, <3>3 DEF Begins, WillReport
    <3>4. CASE ~needToSync[h] /\ notifyAllAfterSync[h] /\ change \in scanned[h]
      <4>1. change \in store'
        BY <3>1, <3>4
      <4>2. toServer' = [toServer EXCEPT ![c] = Append(toServer[c], Line("notifyAll", peer[c]))]
        BY <3>1, <3>4 DEF Send
      <4>3. toServer'[c] = Append(toServer[c], Line("notifyAll", peer[c])) /\ toServer[c] \in Seq(Message)
        BY <4>2, DaemonTypes
      <4>4. /\ Len(toServer[c]) + 1 \in DOMAIN toServer'[c]
            /\ toServer'[c][Len(toServer[c]) + 1].kind = "notifyAll"
        BY <4>3 DEF Line
      <4>5. ReportInFlight(h)'
        BY <3>1, <4>4, OnlineStays DEF ReportInFlight
      <4>6. QED
        BY <1>1, <4>1, <4>5 DEF WillReport
    <3>5. QED
      BY <1>3, <3>2, <3>3, <3>4
  <2>7. QED
    BY <2>1, <2>2, <2>3, <2>4, <2>5, <2>6, SystemSteps DEF ClientStep, LocalStep
<1>4. (change \in store /\ ReportInFlight(h))
      \/ syncTimer[h] \/ (syncInProgress[h] /\ (needToSync[h] \/ (notifyAllAfterSync[h] /\ change \in scanned[h])))
  BY Zenon DEF WillReport
<1>5. QED
  BY <1>2, <1>3, <1>4

-----------------------------------------------------------------------------
(* A change on its way from the server.                                    *)

\* A report tells every other host that is connected, or will when it registers:
\* all are of one account, and the row of a listed one leads to its position.
LEMMA ReportTells ==
  ASSUME DaemonInOrder, PlainNames, RowsAreListed,
         NEW c \in Sockets, NEW g, Online(c, g), readNotifyAll(c),
         NEW h, h # g, Here(h)
  PROVE  IsTold(h)'
<1>1. PICK d \in Sockets : Online(d, h)
  BY DEF Here
<1>2. d # c /\ peer[c].host = g /\ peer[d].host = h
  BY <1>1 DEF Online
<1>3. UNCHANGED << sock, alive, peer >> /\ (Enlisted(d)' <=> Enlisted(d))
  BY <1>2, LineIsRead
<1>4. Online(d, h)'
  BY <1>1, <1>3 DEF Online
<1>5. CASE ~Enlisted(d)
  BY <1>3, <1>4, <1>5 DEF IsTold
<1>6. CASE Enlisted(d)
  <2>1. /\ isUserValid(users, peer[c].user)
        /\ hosts' = setNotifyAllExcept(hosts, users, peer[c].user, peer[c].host)
        /\ notifyClients(clientsToSync(hosts', users, peer[c].user))
    BY ReportIsServed DEF DaemonInOrder
  <2>2. ToldOnce(d)
    BY <1>6, <2>1, NotifiedOnce DEF DaemonInOrder
  <2>3. PICK i \in DOMAIN clientConnections : clientConnections[i] = d
    BY <1>6 DEF Enlisted
  <2>4. peerNames[i] = h
    BY <1>2, <2>3 DEF DaemonInOrder, Alignment, ListsParallel
  <2>5. PICK r \in DOMAIN hosts : hosts[r].hostname = h
    BY <2>3, <2>4, RowOfPosition DEF DaemonInOrder
  <2>6. hosts[r].user = peer[c].user
    <3>1. PICK e \in Sockets : hosts[r].user = peer[e].user
      BY DEF RowsAreListed
    <3>2. peer[e] \in Clients /\ peer[c] \in Clients
      BY DaemonTypes
    <3>3. QED
      BY <3>1, <3>2, EasysyncAssumption
  <2>7. hosts[r] \in Row
    BY DaemonTypes
  <2>8. DOMAIN hosts' = DOMAIN hosts /\ hosts'[r] = [hosts[r] EXCEPT !.must_sync = 1]
    BY <1>2, <2>1, <2>5, <2>6 DEF setNotifyAllExcept, isUserValid
  <2>9. OwesThen(h)
    BY <2>5, <2>7, <2>8 DEF OwesThen, Row
  <2>10. toClient'[d] = Append(toClient[d], h) /\ toClient[d] \in Seq(Hostnames)
    BY <1>2, <2>2, <2>9, DaemonTypes DEF ToldOnce
  <2>11. toClient'[d] # << >>
    BY <1>2, <2>10, DaemonTypes, AppendProperties
  <2>12. QED
    BY <1>4, <2>11 DEF IsTold
<1>7. QED
  BY <1>5, <1>6

\* Who is told stays told until it reads.
LEMMA IsToldStays ==
  ASSUME DaemonInOrder, PlainNames, RowsAreListed, [SystemNext]_system, NEW h, IsTold(h)
  PROVE  IsTold(h)' \/ \E c \in Sockets : readFromServer(c, h)
<1>1. PICK c \in Sockets : Online(c, h) /\ (~Enlisted(c) \/ toClient[c] # << >>)
  BY DEF IsTold
<1>2. Online(c, h)'
  BY <1>1, OnlineStays
<1>3. ~Enlisted(c)' \/ toClient'[c] # << >> => IsTold(h)'
  BY <1>2 DEF IsTold
<1>4. ASSUME NEW d \in Sockets, readClient(d)
      PROVE  ~Enlisted(c)' \/ toClient'[c] # << >>
  BY <1>1, <1>4, LineIsRead DEF readClient
<1>5. CASE \A d \in Sockets : ~readClient(d)
  <2>1. Enlisted(c)' <=> Enlisted(c)
    BY <1>5, ListsStay DEF Enlisted
  <2>2. ASSUME NEW d \in Sockets, NEW g \in Hostnames, readFromServer(d, g)
        PROVE  toClient'[c] = toClient[c] \/ readFromServer(c, h)
    <3>1. CASE d = c
      BY <1>1, <2>2, <3>1 DEF readFromServer, Online
    <3>2. CASE d # c
      BY <2>2, <3>2, DaemonTypes DEF readFromServer, ReadNotice
    <3>3. QED
      BY <3>1, <3>2
  <2>3. ASSUME NEW g \in Hostnames,
               LocalStep(g) \/ \E d \in Sockets : handleSyncIsFinished(d, g)
        PROVE  toClient' = toClient
    BY <2>3, LocalIsLocal DEF handleSyncIsFinished, Send, vars, traffic
  <2>4. QED
    BY <1>1, <1>3, <1>5, <2>1, <2>2, <2>3, ProgramsRest DEF ClientStep
<1>6. QED
  BY <1>3, <1>4, <1>5

\* A host that reads a notice takes what is on the server, now or in the
\* synchronisation it has asked for.
LEMMA ReadTakes ==
  ASSUME ProgramTypeOK, OnlyChangesMade, NEW c \in Sockets, NEW h \in Hostnames, readFromServer(c, h),
         NEW change \in store
  PROVE  WillReceive(h, change)'
<1> USE DEF ProgramTypeOK, OnlyChangesMade
<1>1. store' = store /\ startSynchronisation(h, FALSE)
  BY DEF readFromServer
<1>2. CASE syncInProgress[h]
  BY <1>1, <1>2 DEF startSynchronisation, WillReceive
<1>3. CASE ~syncInProgress[h]
  BY <1>1, <1>3 DEF startSynchronisation, Begins, WillReceive
<1>4. QED
  BY <1>2, <1>3

\* A change that a host will receive comes.
LEMMA WillReceiveStays ==
  ASSUME DaemonInOrder, PlainNames, RowsAreListed, ProgramTypeOK, OnlyChangesMade, [SystemNext]_system,
         NEW h \in Hostnames, NEW change, WillReceive(h, change)
  PROVE  WillReceive(h, change)' \/ change \in files'[h]
<1>1. change \in store /\ change \in store'
  BY DataGrows DEF WillReceive
<1>2. ASSUME NEW c \in Sockets, readFromServer(c, h)
      PROVE  WillReceive(h, change)'
  BY <1>1, <1>2, ReadTakes
<1>3. CASE IsTold(h)
  BY <1>1, <1>2, <1>3, IsToldStays DEF WillReceive
<1>4. ASSUME syncTimer[h] \/ (syncInProgress[h] /\ (needToSync[h] \/ change \in scanned[h]))
      PROVE  WillReceive(h, change)' \/ change \in files'[h]
  <2> USE DEF ProgramTypeOK, OnlyChangesMade
  <2>1. CASE UNCHANGED << program, data >>
    BY <1>1, <1>4, <2>1 DEF WillReceive, program, data
  <2>2. ASSUME NEW g \in Hostnames, g # h,
               LocalStep(g) \/ \E c \in Sockets : ClientStep(c, g)
        PROVE  WillReceive(h, change)'
    BY <1>1, <1>4, <2>2, OneHostSteps DEF WillReceive
  <2>3. CASE handleSyncTimer(h)
    <3>1. startSynchronisation(h, TRUE)
      BY <2>3 DEF handleSyncTimer
    <3>2. CASE syncInProgress[h]
      BY <1>1, <3>1, <3>2 DEF startSynchronisation, WillReceive
    <3>3. CASE ~syncInProgress[h]
      BY <1>1, <3>1, <3>3 DEF startSynchronisation, Begins, WillReceive
    <3>4. QED
      BY <3>2, <3>3
  <2>4. CASE Change(h) \/ handleDirectoryChanged(h) \/ _q_directoryChanged(h)
    BY <1>1, <1>4, <2>4 DEF Change, handleDirectoryChanged, _q_directoryChanged, program, WillReceive
  <2>5. ASSUME NEW c \in Sockets, handleSyncIsFinished(c, h)
        PROVE  WillReceive(h, change)' \/ change \in files'[h]
    <3>1. /\ syncTimer' = syncTimer
          /\ files' = [files EXCEPT ![h] = files[h] \cup scanned[h]]
          /\ (needToSync[h] /\ Begins(h, TRUE)) \/ ~needToSync[h]
      BY <2>5 DEF handleSyncIsFinished
    <3>2. CASE syncTimer[h]
      BY <1>1, <3>1, <3>2 DEF WillReceive
    <3>3. CASE needToSync[h]
      BY <1>1, <3>1, <3>3 DEF Begins, WillReceive
    <3>4. CASE change \in scanned[h]
      BY <3>1, <3>4
    <3>5. QED
      BY <1>4, <3>2, <3>3, <3>4
  <2>6. QED
    BY <1>2, <2>1, <2>2, <2>3, <2>4, <2>5, SystemSteps DEF ClientStep, LocalStep
<1>5. IsTold(h) \/ syncTimer[h] \/ (syncInProgress[h] /\ (needToSync[h] \/ change \in scanned[h]))
  BY Zenon DEF WillReceive
<1>6. QED
  BY <1>3, <1>4, <1>5

-----------------------------------------------------------------------------
(* Types.                                                                  *)

\* The members of each Client stay what they are.
LEMMA ProgramTypeStep ==
  ASSUME ProgramTypeOK, [SystemNext]_system
  PROVE  ProgramTypeOK'
<1> USE DEF ProgramTypeOK
<1>1. CASE UNCHANGED << program, data >>
  BY <1>1 DEF program, data
<1>2. ASSUME NEW g \in Hostnames, NEW b \in BOOLEAN, startSynchronisation(g, b), UNCHANGED << syncTimer, signal >>
      PROVE  ProgramTypeOK'
  BY <1>2 DEF startSynchronisation, Begins
<1>3. ASSUME NEW g \in Hostnames, handleSyncTimer(g)
      PROVE  ProgramTypeOK'
  <2>1. startSynchronisation(g, TRUE) /\ syncTimer' = [syncTimer EXCEPT ![g] = FALSE] /\ signal' = signal
    BY <1>3 DEF handleSyncTimer
  <2>2. QED
    BY <2>1 DEF startSynchronisation, Begins
<1>4. ASSUME NEW g \in Hostnames, Change(g) \/ handleDirectoryChanged(g) \/ _q_directoryChanged(g)
      PROVE  ProgramTypeOK'
  <2>1. Watching(g) \in BOOLEAN
    BY DEF Watching
  <2>2. QED
    BY <1>4, <2>1 DEF Change, handleDirectoryChanged, _q_directoryChanged, program
<1>5. ASSUME NEW c \in Sockets, NEW g \in Hostnames, readFromServer(c, g)
      PROVE  ProgramTypeOK'
  BY <1>2, <1>5 DEF readFromServer
<1>6. ASSUME NEW c \in Sockets, NEW g \in Hostnames, handleSyncIsFinished(c, g)
      PROVE  ProgramTypeOK'
  BY <1>6 DEF handleSyncIsFinished, Begins
<1>7. QED
  BY <1>1, <1>3, <1>4, <1>5, <1>6, SystemSteps DEF ClientStep, LocalStep

\* A change comes into directories after it is made.
LEMMA OnlyChangesStep ==
  ASSUME OnlyChangesMade, [SystemNext]_system
  PROVE  OnlyChangesMade'
<1> USE DEF OnlyChangesMade
<1>1. MaxChanges \in Nat /\ changes \in Nat
  BY EasysyncAssumption
<1>2. CASE UNCHANGED << program, data >>
  BY <1>2 DEF data
<1>3. ASSUME NEW g \in Hostnames, NEW b, startSynchronisation(g, b),
             UNCHANGED << files, store, changes, watched, heard >>
      PROVE  OnlyChangesMade'
  <2>1. CASE scanned' = scanned
    BY <1>3, <2>1
  <2>2. CASE Begins(g, b)
    <3>1. scanned' = [scanned EXCEPT ![g] = files[g] \cup store]
      BY <1>3, <2>2 DEF Begins
    <3>2. QED
      BY <1>3, <3>1
  <2>3. QED
    BY <1>3, <2>1, <2>2 DEF startSynchronisation
<1>4. ASSUME NEW g \in Hostnames, handleSyncTimer(g) \/ \E c \in Sockets : readFromServer(c, g)
      PROVE  OnlyChangesMade'
  BY <1>3, <1>4 DEF handleSyncTimer, readFromServer
<1>5. ASSUME NEW g \in Hostnames, Change(g)
      PROVE  OnlyChangesMade'
  <2>1. /\ changes < MaxChanges /\ changes' = changes + 1 /\ UNCHANGED << store, scanned, heard >>
        /\ files' = [files EXCEPT ![g] = files[g] \cup {changes'}]
        /\ watched' \in {watched, watched \cup {changes'}}
    BY <1>5 DEF Change
  <2>2. changes' \in 0 .. MaxChanges /\ 1 .. changes \subseteq 1 .. changes' /\ changes' \in 1 .. changes'
    BY <1>1, <2>1
  <2>3. scanned' \in [Hostnames -> SUBSET (1 .. changes')]
    BY <2>1, <2>2
  <2>4. files' \in [Hostnames -> SUBSET (1 .. changes')]
    BY <2>1, <2>2
  <2>5. watched' \subseteq 1 .. changes' /\ heard' \subseteq 1 .. changes'
    BY <2>1, <2>2
  <2>6. QED
    BY <2>1, <2>2, <2>3, <2>4, <2>5
<1>6. ASSUME NEW g \in Hostnames, handleDirectoryChanged(g) \/ _q_directoryChanged(g)
      PROVE  OnlyChangesMade'
  BY <1>6 DEF handleDirectoryChanged, _q_directoryChanged
<1>7. ASSUME NEW c \in Sockets, NEW g \in Hostnames, handleSyncIsFinished(c, g)
      PROVE  OnlyChangesMade'
  <2>1. /\ files' = [files EXCEPT ![g] = files[g] \cup scanned[g]]
        /\ store' = store \cup scanned[g] /\ UNCHANGED << changes, watched, heard >>
        /\ Begins(g, TRUE) \/ UNCHANGED scanned
    BY <1>7 DEF handleSyncIsFinished
  <2>2. files' \in [Hostnames -> SUBSET (1 .. changes)] /\ store' \subseteq 1 .. changes
    BY <2>1
  <2>3. scanned' = [scanned EXCEPT ![g] = files'[g] \cup store'] \/ scanned' = scanned
    BY <2>1 DEF Begins
  <2>4. scanned' \in [Hostnames -> SUBSET (1 .. changes)]
    BY <2>2, <2>3
  <2>5. QED
    BY <2>1, <2>2, <2>4
<1>8. QED
  BY <1>2, <1>4, <1>5, <1>6, <1>7, SystemSteps DEF ClientStep, LocalStep

\* The empty directories and idle programs.
LEMMA SystemStart == SystemInit => ProgramTypeOK /\ OnlyChangesMade
BY EasysyncAssumption DEF SystemInit, ProgramTypeOK, OnlyChangesMade

\* Every variable of the system keeps its type (SystemTypeOK), whatever the
\* surroundings do: the daemon's because it is the daemon, the clients' members,
\* and the directories, which hold none but changes that have been made.
THEOREM SystemTypeCorrect == SystemSpec => []SystemTypeOK
<1>1. SystemSpec => [](ProgramTypeOK /\ OnlyChangesMade)
  BY SystemStart, ProgramTypeStep, OnlyChangesStep, PTL DEF SystemSpec
<1>2. TypeOK /\ ProgramTypeOK /\ OnlyChangesMade => SystemTypeOK
  <2> SUFFICES ASSUME TypeOK, ProgramTypeOK, OnlyChangesMade
               PROVE  SystemTypeOK
    OBVIOUS
  <2>1. 1 .. changes \subseteq Changes
    BY EasysyncAssumption DEF OnlyChangesMade, Changes
  <2>2. QED
    BY <2>1 DEF SystemTypeOK, ProgramTypeOK, OnlyChangesMade
<1>3. QED
  BY <1>1, <1>2, DaemonCorrect, TypeCorrect, PTL

-----------------------------------------------------------------------------
(* Agreement.                                                              *)

\* A change of which a client is told will be reported by it.
LEMMA HeardIsReported ==
  ASSUME ProgramTypeOK, OnlyChangesMade, [SystemNext]_system, NEW change \in heard', change \notin heard
  PROVE  \E h \in Hostnames : WillReport(h, change)'
<1>1. ASSUME NEW g \in Hostnames,
             \/ Change(g) \/ _q_directoryChanged(g) \/ handleSyncTimer(g)
             \/ \E c \in Sockets : ClientStep(c, g)
      PROVE  heard' = heard
  BY <1>1 DEF Change, _q_directoryChanged, handleSyncTimer, ClientStep, readFromServer, handleSyncIsFinished
<1>2. PICK g \in Hostnames : handleDirectoryChanged(g)
  BY <1>1, SystemSteps DEF data, LocalStep
<1>3. /\ heard' = heard \cup files[g] /\ files' = files
      /\ syncTimer' = [syncTimer EXCEPT ![g] = TRUE]
  BY <1>2 DEF handleDirectoryChanged
<1>4. change \in files'[g] /\ syncTimer'[g]
  BY <1>3 DEF ProgramTypeOK
<1>5. QED
  BY <1>4 DEF WillReport

\* A host that has just connected will be told when it registers.
LEMMA NewcomerIsTold ==
  ASSUME DaemonInOrder, PlainNames, RowsAreListed, [SystemNext]_system, NEW h, ~Here(h), Here(h)'
  PROVE  IsTold(h)'
<1>1. PICK c \in Sockets : Online(c, h)'
  BY DEF Here
<1>2. ~Online(c, h)
  BY DEF Here
<1>3. ~UNCHANGED << sock, alive, peer >>
  BY <1>1, <1>2 DEF Online
<1>4. \A d \in Sockets : ~readClient(d)
  BY <1>3, LineIsRead DEF readClient
<1>5. ASSUME NEW d \in Sockets, NEW g \in Hostnames, ClientStep(d, g)
      PROVE  UNCHANGED << sock, alive, peer >>
  BY <1>5 DEF ClientStep, readFromServer, handleSyncIsFinished, ReadNotice, Send, vars, network
<1>6. ASSUME NEW g \in Hostnames, LocalStep(g)
      PROVE  UNCHANGED << sock, alive, peer >>
  BY <1>6, LocalIsLocal DEF vars, network
<1>7. CASE Accepts
  <2>1. /\ sock' = [d \in Sockets |-> IF ~disabled /\ sock[d] = "queued" THEN "open" ELSE sock[d]]
        /\ UNCHANGED << alive, peer >>
    BY <1>7 DEF Accepts, handleNewConnection
  <2>2. Online(c, h)
    BY <1>1, <2>1 DEF Online
  <2>3. QED
    BY <1>2, <2>2
<1>8. ASSUME NEW d \in Sockets, NEW client \in Clients, Joins(d, client)
      PROVE  IsTold(h)'
  <2>1. d = c
    <3>1. d # c => sock'[c] = sock[c] /\ alive'[c] = alive[c] /\ peer'[c] = peer[c]
      BY <1>8, DaemonTypes DEF Joins, Connect
    <3>2. QED
      BY <1>1, <1>2, <3>1 DEF Online
  <2>2. sock[c] = "none"
    BY <1>8, <2>1 DEF Joins, Connect
  <2>3. ~Enlisted(c)
    BY <2>2 DEF DaemonInOrder, Presence, ListedAreWelcome, Welcome
  <2>4. ~Enlisted(c)'
    BY <1>4, <2>3, ListsStay DEF Enlisted
  <2>5. QED
    BY <1>1, <2>4 DEF IsTold
<1>9. CASE UNCHANGED system
  BY <1>3, <1>9 DEF system, vars, network
<1>10. QED
  BY <1>3, <1>4, <1>5, <1>6, <1>7, <1>8, <1>9 DEF SystemNext

\* A report is read when its change is on the server: whoever is connected then has
\* the change, or will receive it.
LEMMA ReportDelivers ==
  ASSUME DaemonInOrder, PlainNames, RowsAreListed, ProgramTypeOK, OnlyChangesMade, [SystemNext]_system,
         NEW g \in Hostnames, NEW h \in Hostnames, NEW change, WillReport(g, change), Here(h)
  PROVE  WillReport(g, change)' \/ change \in files'[h] \/ WillReceive(h, change)'
<1>1. CASE WillReport(g, change)'
  BY <1>1
<1>2. ASSUME change \in store, NEW c \in Sockets, Online(c, g), readNotifyAll(c)
      PROVE  change \in files'[h] \/ WillReceive(h, change)'
  <2>1. CASE h = g
    BY <2>1, DataGrows DEF WillReport
  <2>2. CASE h # g
    <3>1. IsTold(h)'
      BY <1>2, <2>2, ReportTells
    <3>2. change \in store'
      BY <1>2, DataGrows
    <3>3. QED
      BY <3>1, <3>2 DEF WillReceive
  <2>3. QED
    BY <2>1, <2>2
<1>3. QED
  BY <1>1, <1>2, WillReportStays

\* Delivery, step by step.
LEMMA DeliveryStep ==
  ASSUME DaemonInOrder, PlainNames, Delivery, [SystemNext]_system
  PROVE  Delivery'
<1> USE DEF Delivery
<1>1. ProgramTypeOK' /\ OnlyChangesMade' /\ RowsAreListed'
  BY ProgramTypeStep, OnlyChangesStep, RowsStep
<1>3. ASSUME NEW change \in heard, change \notin store
      PROVE  change \in store' \/ \E g \in Hostnames : WillReport(g, change)'
  <2>1. PICK g \in Hostnames : WillReport(g, change)
    BY <1>3 DEF NothingIsKept
  <2>2. QED
    BY <1>3, <2>1, WillReportStays
<1>4. NothingIsKept'
  <2> SUFFICES ASSUME NEW change \in heard'
               PROVE  change \in store' \/ \E g \in Hostnames : WillReport(g, change)'
    BY DEF NothingIsKept
  <2>1. CASE change \in heard
    BY <1>3, <2>1, DataGrows
  <2>2. CASE change \notin heard
    BY <2>2, HeardIsReported
  <2>3. QED
    BY <2>1, <2>2
<1>5. NobodyIsForgotten'
  <2> SUFFICES ASSUME NEW change \in heard', NEW h \in Hostnames, Here(h)'
               PROVE  \/ change \in files'[h] \/ WillReceive(h, change)'
                      \/ \E g \in Hostnames : WillReport(g, change)'
    BY DEF NobodyIsForgotten
  <2>1. CASE change \notin heard
    BY <2>1, HeardIsReported
  <2>2. CASE change \in heard /\ ~Here(h)
    <3>1. IsTold(h)'
      BY <2>2, NewcomerIsTold
    <3>2. change \in store' => WillReceive(h, change)'
      BY <3>1 DEF WillReceive
    <3>3. QED
      BY <1>3, <2>2, <3>2, DataGrows
  <2>3. CASE change \in heard /\ Here(h)
    <3>1. CASE change \in files[h]
      BY <3>1, DataGrows
    <3>2. CASE WillReceive(h, change)
      BY <3>2, WillReceiveStays
    <3>3. ASSUME NEW g \in Hostnames, WillReport(g, change)
          PROVE  WillReport(g, change)' \/ change \in files'[h] \/ WillReceive(h, change)'
      BY <2>3, <3>3, ReportDelivers
    <3>4. QED
      BY <2>3, <3>1, <3>2, <3>3 DEF NobodyIsForgotten
  <2>4. QED
    BY <2>1, <2>2, <2>3
<1>6. QED
  BY <1>1, <1>4, <1>5

\* Nothing has been made, and nobody is connected.
LEMMA DeliveryStart == SystemInit => Delivery
<1> SUFFICES ASSUME SystemInit PROVE Delivery
  OBVIOUS
<1>1. hosts = << >> /\ heard = {}
  BY DEF SystemInit, Init
<1>2. RowsAreListed
  BY <1>1 DEF RowsAreListed
<1>3. NothingIsKept /\ NobodyIsForgotten
  BY <1>1 DEF NothingIsKept, NobodyIsForgotten
<1>4. QED
  BY <1>2, <1>3, SystemStart DEF Delivery

\* Each change is followed from host to host, whoever joins meanwhile.
LEMMA DeliveryHolds ==
  ASSUME NobodyLeaves, PlainNames, "adduser" \notin Env
  PROVE  SystemSpec => []Delivery
<1>1. DaemonInOrder /\ Delivery /\ [SystemNext]_system => Delivery'
  BY DeliveryStep
<1>2. QED
  BY <1>1, DaemonHolds, DeliveryStart, PTL DEF SystemSpec

\* What rests has delivered.
LEMMA RestHasDelivered ==
  ASSUME DaemonInOrder, Delivery, Quiet
  PROVE  heard \subseteq store /\ \A h \in Hostnames : Here(h) => heard \subseteq files[h]
<1>1. ASSUME NEW g \in Hostnames, NEW change
      PROVE  ~WillReport(g, change)
  <2>1. ~ReportInFlight(g) /\ ~syncTimer[g] /\ ~syncInProgress[g]
    BY DEF Quiet, ReportInFlight
  <2>2. QED
    BY <2>1 DEF WillReport
<1>2. ASSUME NEW h \in Hostnames, NEW change
      PROVE  ~WillReceive(h, change)
  <2>1. ~syncTimer[h] /\ ~syncInProgress[h]
    BY DEF Quiet
  <2>2. ~IsTold(h)
    BY DEF Quiet, IsTold, Online, DaemonInOrder, GreetsFirst
  <2>3. QED
    BY <2>1, <2>2 DEF WillReceive
<1>3. heard \subseteq store
  BY <1>1 DEF Delivery, NothingIsKept
<1>4. \A h \in Hostnames : Here(h) => heard \subseteq files[h]
  BY <1>1, <1>2 DEF Delivery, NobodyIsForgotten
<1>5. QED
  BY <1>3, <1>4

\* Whenever the exchange has come to rest, what clients were told of is on the server
\* and on every connected computer (RestIsAgreement), for any number of computers and
\* changes, in whatever order they join, change, hear, synchronise, tell and read,
\* while nobody leaves: a report is sent after its change is on the server, the daemon
\* that reads it tells whoever is connected by then, and who connects later is told
\* when it registers.  Of a change that no client was told of, its signal dropped by a
\* synchronisation that began first, nothing is claimed.
THEOREM AgreementCorrect ==
  ASSUME NobodyLeaves, PlainNames, "adduser" \notin Env
  PROVE  SystemSpec => []RestIsAgreement
<1>1. DaemonInOrder /\ Delivery => RestIsAgreement
  BY RestHasDelivered DEF RestIsAgreement
<1>2. QED
  BY <1>1, DaemonHolds, DeliveryHolds, PTL
=============================================================================
