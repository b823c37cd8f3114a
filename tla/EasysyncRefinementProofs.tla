----------------------- MODULE EasysyncRefinementProofs -----------------------
(***************************************************************************)
(* EasysyncServer keeps the books of Propagation, for any sockets, clients *)
(* and names: each handler's statements on the table and on peerNames are  *)
(* one step of the books, or none.                                         *)
(***************************************************************************)
EXTENDS EasysyncRefinement, EasysyncServerProofs

\* The books of a table, and the names in a list.
HostsOf(table) == {table[id].hostname : id \in DOMAIN table}

RowsIn(table, hostname) == {id \in DOMAIN table : table[id].hostname = hostname}

AccountOf(table) == [h \in HostsOf(table) |-> table[CHOOSE id \in RowsIn(table, h) : TRUE].user]

OwingIn(table) == {h \in HostsOf(table) : \E id \in RowsIn(table, h) : table[id].must_sync = 1}

NamesIn(list) == {list[i] : i \in DOMAIN list}

\* The refinement mapping, in these words, before and after a step.
LEMMA BooksOfTable ==
  /\ account = AccountOf(hosts) /\ owes = OwingIn(hosts) /\ present = NamesIn(peerNames)
  /\ account' = AccountOf(hosts') /\ owes' = OwingIn(hosts') /\ present' = NamesIn(peerNames')
BY DEF account, owes, present, known, RowsOf, AccountOf, OwingIn, NamesIn, HostsOf, RowsIn

-----------------------------------------------------------------------------
(* Tables.                                                                 *)

\* The account of a host is that of its row.
LEMMA AccountOfRow ==
  ASSUME NEW table, UniqueHostnames(table), NEW id \in DOMAIN table
  PROVE  /\ DOMAIN AccountOf(table) = HostsOf(table)
         /\ table[id].hostname \in HostsOf(table)
         /\ AccountOf(table)[table[id].hostname] = table[id].user
<1> DEFINE h == table[id].hostname
           rows == RowsIn(table, h)
           chosen == CHOOSE i \in rows : TRUE
<1>1. id \in rows
  BY DEF RowsIn
<1>2. chosen \in rows
  BY <1>1
<1>3. chosen = id
  BY <1>2 DEF RowsIn, UniqueHostnames
<1>4. h \in HostsOf(table)
  BY DEF HostsOf
<1>5. AccountOf(table)[h] = table[chosen].user
  BY <1>4 DEF AccountOf
<1>6. DOMAIN AccountOf(table) = HostsOf(table)
  BY DEF AccountOf
<1>7. QED
  BY <1>3, <1>4, <1>5, <1>6

\* Two accounts of the same hosts that agree on each are one.
LEMMA SameAccount ==
  ASSUME NEW old, NEW new, HostsOf(old) = HostsOf(new),
         \A h \in HostsOf(old) : AccountOf(old)[h] = AccountOf(new)[h]
  PROVE  AccountOf(new) = AccountOf(old)
BY DEF AccountOf

\* The UPDATEs leave the accounts alone.
LEMMA AccountsKept ==
  ASSUME NEW old, NEW new, UniqueHostnames(old), SameRows(old, new)
  PROVE  HostsOf(new) = HostsOf(old) /\ AccountOf(new) = AccountOf(old)
<1>1. HostsOf(new) = HostsOf(old)
  BY DEF HostsOf, SameRows
<1>2. UniqueHostnames(new)
  BY SameRowsUnique
<1>3. ASSUME NEW h \in HostsOf(old)
      PROVE  AccountOf(old)[h] = AccountOf(new)[h]
  <2>1. PICK id \in DOMAIN old : h = old[id].hostname
    BY DEF HostsOf
  <2>2. h = new[id].hostname /\ new[id].user = old[id].user /\ id \in DOMAIN new
    BY <2>1 DEF SameRows
  <2>3. QED
    BY <1>2, <2>1, <2>2, AccountOfRow
<1>4. QED
  BY <1>1, <1>3, SameAccount

\* Who owes, by the rows; where nothing is set or cleared nobody's debt changes.
LEMMA OwingKept ==
  ASSUME NEW old, NEW new, SameRows(old, new),
         \A id \in DOMAIN old : new[id].must_sync = old[id].must_sync
  PROVE  OwingIn(new) = OwingIn(old)
<1>1. HostsOf(new) = HostsOf(old) /\ \A h : RowsIn(new, h) = RowsIn(old, h)
  BY DEF HostsOf, RowsIn, SameRows
<1>2. QED
  BY <1>1 DEF OwingIn, RowsIn

\* syncIsDone releases one host.
LEMMA OwingAfterSync ==
  ASSUME NEW table \in Seq(Row), NEW hostname
  PROVE  OwingIn(syncIsDone(table, hostname)) = OwingIn(table) \ {hostname}
<1> DEFINE new == syncIsDone(table, hostname)
<1>1. /\ SameRows(table, new)
      /\ \A id \in DOMAIN table : table[id].hostname # hostname => new[id].must_sync = table[id].must_sync
  BY SyncIsDone
<1>2. \A id \in DOMAIN table : table[id].hostname = hostname => new[id].must_sync = 0
  <2>1. \A id \in DOMAIN table : table[id] \in Row
    BY LenProperties, ElementOfSeq
  <2>2. QED
    BY <2>1 DEF syncIsDone, Row
<1> HIDE DEF new
<1>3. HostsOf(new) = HostsOf(table) /\ \A h : RowsIn(new, h) = RowsIn(table, h)
  BY <1>1 DEF HostsOf, RowsIn, SameRows
<1>4. ASSUME NEW h
      PROVE  h \in OwingIn(new) <=> h \in OwingIn(table) \ {hostname}
  <2>1. CASE h = hostname
    <3>1. \A id \in RowsIn(new, h) : new[id].must_sync = 0
      BY <1>2, <1>3, <2>1 DEF RowsIn
    <3>2. QED
      BY <2>1, <3>1 DEF OwingIn
  <2>2. CASE h # hostname
    <3>1. \A id \in RowsIn(table, h) : new[id].must_sync = table[id].must_sync
      BY <1>1, <2>2 DEF RowsIn
    <3>2. QED
      BY <1>3, <2>2, <3>1 DEF OwingIn
  <2>3. QED
    BY <2>1, <2>2
<1>5. QED
  BY <1>4, Zenon DEF new

\* setNotifyAllExcept makes the other hosts of the account owe.
LEMMA OwingAfterReport ==
  ASSUME NEW table \in Seq(Row), UniqueHostnames(table),
         NEW accounts, NEW username, NEW hostname, isUserValid(accounts, username)
  PROVE  OwingIn(setNotifyAllExcept(table, accounts, username, hostname)) =
           OwingIn(table) \cup {k \in DOMAIN AccountOf(table) \ {hostname} : AccountOf(table)[k] = username}
<1> DEFINE new == setNotifyAllExcept(table, accounts, username, hostname)
           hit(id) == table[id].hostname # hostname /\ table[id].user = username
<1>1. SameRows(table, new)
  BY SetNotifyAllExcept
<1>2. \A id \in DOMAIN table : /\ hit(id) => new[id].must_sync = 1
                               /\ ~hit(id) => new[id].must_sync = table[id].must_sync
  <2>1. \A id \in DOMAIN table : table[id] \in Row
    BY LenProperties, ElementOfSeq
  <2>2. QED
    BY <2>1 DEF setNotifyAllExcept, isUserValid, Row
<1> HIDE DEF new
<1>3. HostsOf(new) = HostsOf(table) /\ \A h : RowsIn(new, h) = RowsIn(table, h)
  BY <1>1 DEF HostsOf, RowsIn, SameRows
<1>4. DOMAIN AccountOf(table) = HostsOf(table)
  BY DEF AccountOf
<1>5. \A id \in DOMAIN table : AccountOf(table)[table[id].hostname] = table[id].user
  BY AccountOfRow
<1>6. ASSUME NEW h \in HostsOf(table)
      PROVE  h \in OwingIn(new) <=> h \in OwingIn(table) \/ (h # hostname /\ AccountOf(table)[h] = username)
  <2>1. PICK id \in DOMAIN table : h = table[id].hostname
    BY DEF HostsOf
  <2>2. RowsIn(table, h) = {id} /\ RowsIn(new, h) = {id}
    <3>1. id \in RowsIn(table, h) /\ \A i \in RowsIn(table, h) : i = id
      BY <2>1 DEF RowsIn, UniqueHostnames
    <3>2. QED
      BY <1>3, <3>1
  <2>3. /\ h \in OwingIn(new) <=> new[id].must_sync = 1
        /\ h \in OwingIn(table) <=> table[id].must_sync = 1
    BY <1>3, <2>2 DEF OwingIn
  <2>4. AccountOf(table)[h] = table[id].user
    BY <1>5, <2>1
  <2>5. QED
    BY <1>2, <2>1, <2>3, <2>4
<1>7. OwingIn(new) \subseteq HostsOf(table) /\ OwingIn(table) \subseteq HostsOf(table)
  BY <1>3 DEF OwingIn
<1>8. OwingIn(new) = OwingIn(table) \cup {k \in DOMAIN AccountOf(table) \ {hostname} : AccountOf(table)[k] = username}
  BY <1>4, <1>6, <1>7
<1>9. QED
  BY <1>8 DEF new

\* What addHostname does: it finds the host's row, or adds one that owes.
Found(old, new, hostname) ==
  /\ hostname \in HostsOf(old)
  /\ SameRows(old, new)
  /\ \A id \in DOMAIN old : new[id].must_sync = old[id].must_sync

Added(old, new, username, hostname) ==
  /\ hostname \notin HostsOf(old)
  /\ \E last : /\ last \notin DOMAIN old /\ DOMAIN new = DOMAIN old \cup {last}
               /\ new[last].user = username /\ new[last].hostname = hostname /\ new[last].must_sync = 1
  /\ \A id \in DOMAIN old : /\ new[id].user = old[id].user /\ new[id].hostname = old[id].hostname
                             /\ new[id].must_sync = old[id].must_sync

\* The accounts with one more host.
WithHost(accounts, username, hostname) ==
  [k \in DOMAIN accounts \cup {hostname} |-> IF k = hostname THEN username ELSE accounts[k]]

\* The statements of addHostname before its UPDATE do one or the other.
LEMMA RowsWithHost ==
  ASSUME NEW table \in Seq(Row), NEW accounts,
         NEW username \in Usernames, NEW hostname \in Hostnames,
         hostname \notin DOMAIN Escape, isUserValid(accounts, username)
  PROVE  LET new == withHostname(table, accounts, username, hostname) IN
         Found(table, new, hostname) \/ Added(table, new, username, hostname)
<1> DEFINE new == withHostname(table, accounts, username, hostname)
           minusOne == -1
           newRow == [user |-> username, hostname |-> hostname, must_sync |-> 1, socket_id |-> minusOne]
<1>1. minusOne \in Int
  OBVIOUS
<1>2. isHostKnown(table, accounts, username, hostname) <=> hostname \in HostsOf(table)
  BY DEF isHostKnown, sqlQuote, isUserValid, HostsOf
<1>3. CASE hostname \in HostsOf(table)
  BY <1>2, <1>3 DEF withHostname, Found, SameRows
<1>4. CASE hostname \notin HostsOf(table)
  <2> DEFINE last == Len(table) + 1
  <2>1. new = Append(table, newRow)
    BY <1>2, <1>4 DEF withHostname
  <2> HIDE DEF minusOne
  <2>2. newRow \in Row
    BY <1>1 DEF Row
  <2>3. newRow.user = username /\ newRow.hostname = hostname /\ newRow.must_sync = 1
    OBVIOUS
  <2> HIDE DEF newRow, new
  <2>4. Len(table) \in Nat /\ DOMAIN table = 1 .. Len(table)
    BY LenProperties
  <2>5. /\ DOMAIN new = 1 .. Len(table) + 1 /\ new[last] = newRow
        /\ \A id \in 1 .. Len(table) : new[id] = table[id]
    BY <2>1, <2>2, <2>4, AppendProperties, LenProperties
  <2>6. last \notin DOMAIN table /\ DOMAIN new = DOMAIN table \cup {last}
    BY <2>4, <2>5
  <2>7. Added(table, new, username, hostname)
    BY <1>4, <2>3, <2>4, <2>5, <2>6 DEF Added
  <2>8. QED
    BY <2>7 DEF new
<1>5. QED
  BY <1>3, <1>4

\* ... and so does all of it: the UPDATE touches neither names nor debts.
LEMMA RowsAfterGreeting ==
  ASSUME NEW table \in Seq(Row), NEW accounts,
         NEW username \in Usernames, NEW hostname \in Hostnames, NEW socketId \in Int,
         hostname \notin DOMAIN Escape, isUserValid(accounts, username)
  PROVE  LET new == addHostname(table, accounts, username, hostname, socketId) IN
         Found(table, new, hostname) \/ Added(table, new, username, hostname)
<1> DEFINE withHost == withHostname(table, accounts, username, hostname)
           new == addHostname(table, accounts, username, hostname, socketId)
<1>1. withHost \in Seq(Row)
  BY WithHostname
<1>2. Found(table, withHost, hostname) \/ Added(table, withHost, username, hostname)
  BY RowsWithHost
<1>3. new = [id \in DOMAIN withHost |->
               IF withHost[id].hostname = hostname
               THEN [withHost[id] EXCEPT !.socket_id = socketId] ELSE withHost[id]]
  BY DEF addHostname
<1> HIDE DEF withHost, new
<1>4. \A id \in DOMAIN withHost : withHost[id] \in Row
  BY <1>1, LenProperties, ElementOfSeq
<1>5. /\ DOMAIN new = DOMAIN withHost
      /\ \A id \in DOMAIN withHost :
           /\ new[id].user = withHost[id].user /\ new[id].hostname = withHost[id].hostname
           /\ new[id].must_sync = withHost[id].must_sync
  BY <1>3, <1>4 DEF Row
<1>6. Found(table, withHost, hostname) => Found(table, new, hostname)
  BY <1>5 DEF Found, SameRows
<1>7. Added(table, withHost, username, hostname) => Added(table, new, username, hostname)
  BY <1>5 DEF Added
<1>8. QED
  BY <1>2, <1>6, <1>7 DEF new

\* A new row enters its host in the books, with a debt.
LEMMA BooksAfterGreeting ==
  ASSUME NEW old, NEW new, NEW username, NEW hostname,
         UniqueHostnames(old), Added(old, new, username, hostname)
  PROVE  /\ AccountOf(new) = WithHost(AccountOf(old), username, hostname)
         /\ OwingIn(new) = OwingIn(old) \cup {hostname}
<1> PICK last : /\ last \notin DOMAIN old /\ DOMAIN new = DOMAIN old \cup {last}
                /\ new[last].user = username /\ new[last].hostname = hostname /\ new[last].must_sync = 1
  BY DEF Added
<1> hostname \notin HostsOf(old)
  BY DEF Added
<1> \A id \in DOMAIN old : /\ new[id].user = old[id].user /\ new[id].hostname = old[id].hostname
                           /\ new[id].must_sync = old[id].must_sync
  BY DEF Added
<1> DEFINE grown == [k \in DOMAIN AccountOf(old) \cup {hostname} |-> IF k = hostname THEN username ELSE AccountOf(old)[k]]
<1>1. \A id \in DOMAIN old : old[id].hostname # hostname
  BY DEF HostsOf
<1>2. UniqueHostnames(new)
  BY <1>1 DEF UniqueHostnames
<1>3. HostsOf(new) = HostsOf(old) \cup {hostname} /\ DOMAIN AccountOf(old) = HostsOf(old)
  BY DEF HostsOf, AccountOf
<1>4. ASSUME NEW h \in HostsOf(new)
      PROVE  AccountOf(new)[h] = grown[h]
  <2>1. CASE h = hostname
    BY <1>2, <1>3, <2>1, AccountOfRow
  <2>2. CASE h # hostname
    <3>1. PICK id \in DOMAIN old : h = old[id].hostname
      BY <1>3, <2>2 DEF HostsOf
    <3>2. AccountOf(old)[h] = old[id].user
      BY <3>1, AccountOfRow
    <3>3. id \in DOMAIN new /\ h = new[id].hostname /\ new[id].user = old[id].user
      BY <3>1
    <3>4. AccountOf(new)[h] = new[id].user
      BY <1>2, <3>3, AccountOfRow
    <3>5. QED
      BY <1>3, <2>2, <3>2, <3>3, <3>4
  <2>3. QED
    BY <2>1, <2>2
<1>5. AccountOf(new) = grown
  <2>1. AccountOf(new) = [h \in HostsOf(new) |-> AccountOf(new)[h]]
    BY DEF AccountOf
  <2>2. DOMAIN grown = HostsOf(new) /\ grown = [h \in HostsOf(new) |-> grown[h]]
    BY <1>3
  <2> HIDE DEF grown
  <2>3. QED
    BY <1>4, <2>1, <2>2
<1>6. \A h : h # hostname => RowsIn(new, h) = RowsIn(old, h)
  BY DEF RowsIn
<1>7. last \in RowsIn(new, hostname)
  BY DEF RowsIn
<1>8. OwingIn(new) = OwingIn(old) \cup {hostname}
  BY <1>3, <1>6, <1>7 DEF OwingIn, RowsIn
<1>9. QED
  BY <1>5, <1>8 DEF WithHost

-----------------------------------------------------------------------------
(* Lists.                                                                  *)

\* removeAll takes the value, and only it.
LEMMA NamesLeft ==
  ASSUME NEW S, NEW list \in Seq(S), NEW value
  PROVE  NamesIn(removeAll(list, value)) = NamesIn(list) \ {value}
<1>1. \A i \in DOMAIN removeAll(list, value) :
        removeAll(list, value)[i] # value /\ \E k \in DOMAIN list : removeAll(list, value)[i] = list[k]
  BY RemoveAllType
<1>2. \A k \in DOMAIN list : list[k] # value =>
        \E i \in DOMAIN removeAll(list, value) : removeAll(list, value)[i] = list[k]
  BY RemoveAllLeaves
<1>3. QED
  BY <1>1, <1>2 DEF NamesIn

\* append adds the value.
LEMMA NamesGrown ==
  ASSUME NEW S, NEW list \in Seq(S), NEW value \in S
  PROVE  NamesIn(Append(list, value)) = NamesIn(list) \cup {value}
<1>1. Len(list) \in Nat /\ DOMAIN list = 1 .. Len(list)
  BY LenProperties
<1>2. /\ DOMAIN Append(list, value) = 1 .. Len(list) + 1
      /\ \A i \in 1 .. Len(list) : Append(list, value)[i] = list[i]
      /\ Append(list, value)[Len(list) + 1] = value
  BY <1>1, AppendProperties, LenProperties
<1>3. DOMAIN Append(list, value) = DOMAIN list \cup {Len(list) + 1}
  BY <1>1, <1>2
<1>4. QED
  BY <1>1, <1>2, <1>3 DEF NamesIn

-----------------------------------------------------------------------------
(* The handlers.                                                           *)

\* What a step can do to the table and to peerNames.
LEMMA BookSteps ==
  ASSUME "adduser" \notin Env, Bookkeeping, [Next]_vars
  PROVE  \/ UNCHANGED << hosts, peerNames >>
         \/ ProcessEnds /\ UNCHANGED hosts
         \/ \E c \in Sockets : \/ readGreeting(c) \/ failGreeting(c) \/ readRoger(c) \/ readNotifyAll(c)
                               \/ \E rest : clientDisconnected(c, rest)
<1>1. CASE Stop
  BY <1>1 DEF Stop, db
<1>2. CASE \/ Start \/ Pause \/ Resume \/ checkClientsConnection \/ handleNewConnection \/ UNCHANGED vars
  BY <1>2 DEF Start, Pause, Resume, checkClientsConnection, handleNewConnection, vars, db, lists
<1>3. CASE \E username \in Usernames : AddUser(username)
  BY <1>3 DEF AddUser
<1>4. CASE disconnectNext
  <2>1. Head(mustDisconnect) \in Sockets
    BY <1>4, HeadTailProperties DEF disconnectNext, Bookkeeping, TypeOK
  <2>2. QED
    BY <1>4, <2>1 DEF disconnectNext, db, lists
<1>5. ASSUME NEW c \in Sockets,
             \/ \E client \in Clients : Connect(c, client) \/ ChangeSettings(c, client)
             \/ \E kind \in {"ping", "roger", "notifyAll"} : Send(c, kind)
             \/ ReadNotice(c) \/ Vanish(c) \/ PeerLeavesQueue(c) \/ ArriveUnread(c) \/ readPing(c)
      PROVE  UNCHANGED << hosts, peerNames >>
  BY <1>5 DEF Connect, ChangeSettings, Send, ReadNotice, Vanish, PeerLeavesQueue, ArriveUnread, readPing, db, lists
<1>6. ASSUME NEW c \in Sockets,
             PeerCloses(c) \/ RefusalWritten(c) \/ readOther(c) \/ refuseGreeting(c) \/ refuseNotifyAll(c)
      PROVE  UNCHANGED << hosts, peerNames >> \/ \E rest : clientDisconnected(c, rest)
  BY <1>6 DEF PeerCloses, RefusalWritten, readOther, refuseGreeting, refuseNotifyAll, Hangup, Refuse, db, lists
<1>7. QED
  BY <1>1, <1>2, <1>3, <1>4, <1>5, <1>6 DEF Next

\* A listed connection's name is present, at the position indexOf finds.
LEMMA ListedIsPresent ==
  ASSUME Alignment, NEW c \in Sockets, Enlisted(c)
  PROVE  /\ InRange(peerNames, indexOf(clientConnections, c))
         /\ peerNames[indexOf(clientConnections, c) + 1] = peer[c].host
         /\ peer[c].host \in NamesIn(peerNames) /\ peer[c].host \in Hostnames
<1>1. /\ InRange(peerNames, indexOf(clientConnections, c))
      /\ peerNames[indexOf(clientConnections, c) + 1] = peer[c].host
  BY PositionsInRange
<1>2. peer[c].host \in Hostnames
  BY ClientNames DEF Alignment, Bookkeeping, TypeOK
<1>3. QED
  BY <1>1, <1>2 DEF NamesIn, InRange

\* The first line of a connection carries the host name it connected with.
LEMMA FirstLineNamed ==
  ASSUME Alignment, NEW c \in Sockets, toServer[c] # << >>
  PROVE  /\ Head(toServer[c]).host = peer[c].host
         /\ Head(toServer[c]).user \in Usernames /\ Head(toServer[c]).host \in Hostnames
<1>1. toServer[c] \in Seq(Message)
  BY DEF Alignment, Bookkeeping, TypeOK, Message
<1>2. Head(toServer[c]) \in Message /\ 1 \in DOMAIN toServer[c] /\ Head(toServer[c]) = toServer[c][1]
  BY <1>1, EmptySeq, LenProperties, HeadTailProperties
<1>3. QED
  BY <1>2 DEF Alignment, LinesNamed, Message

\* A connection that is not listed has a host that is not present.
LEMMA HostIsNew ==
  ASSUME Alignment, NEW c \in Sockets, ~Enlisted(c), sock[c] # "none"
  PROVE  peer[c].host \notin NamesIn(peerNames)
<1>1. SUFFICES ASSUME NEW i \in DOMAIN peerNames, peerNames[i] = peer[c].host PROVE FALSE
  BY DEF NamesIn
<1>2. clientConnections \in Seq(Sockets) /\ DOMAIN peerNames = DOMAIN clientConnections
  BY LenProperties DEF Alignment, Bookkeeping, TypeOK, ListsParallel
<1>3. /\ clientConnections[i] \in Sockets /\ Enlisted(clientConnections[i])
      /\ peer[clientConnections[i]].host = peer[c].host
  BY <1>1, <1>2, ElementOfSeq, LenProperties DEF Enlisted, Alignment, ListsParallel
<1>4. sock[clientConnections[i]] # "none"
  BY <1>3 DEF Alignment, Bookkeeping, EnlistedAreOpen
<1>5. QED
  BY <1>3, <1>4 DEF Alignment, HostsApart

\* clientDisconnected: the host goes, and what it owes stays.
LEMMA LeaveKeepsBooks ==
  ASSUME Alignment, OneRowPerHostname, NEW c \in Sockets, NEW rest, clientDisconnected(c, rest)
  PROVE  [P!KeepBooks]_(P!books)
<1> DEFINE socketId == indexOf(clientConnections, c)
<1>1. peerNames \in Seq(Hostnames) /\ hosts \in Seq(Row) /\ UniqueHostnames(hosts)
  BY DEF Alignment, Bookkeeping, TypeOK, OneRowPerHostname, UniqueHostnames
<1>2. CASE UNCHANGED << lists, hosts >>
  BY <1>2, BooksOfTable DEF lists, P!books
<1>3. CASE ProcessEnds /\ UNCHANGED hosts
  BY <1>3, BooksOfTable DEF ProcessEnds, NamesIn, P!KeepBooks, P!Stop
<1>4. ASSUME socketId # -1,
             NEW hostname \in at(peerNames, socketId, Hostnames),
             Update("unstored", hosts, voidConnection(hosts, hostname)),
             peerNames' = removeAll(peerNames, hostname)
      PROVE  P!KeepBooks
  <2>1. Enlisted(c)
    BY <1>4, IndexOfFinds DEF Enlisted, Alignment, Bookkeeping, TypeOK
  <2>2. hostname = peer[c].host /\ hostname \in present /\ hostname \in Hostnames
    BY <1>4, <2>1, ListedIsPresent, BooksOfTable DEF at
  <2>3. SameRows(hosts, hosts') /\ \A id \in DOMAIN hosts : hosts'[id].must_sync = hosts[id].must_sync
    BY <1>1, <1>4, VoidConnection DEF Update, SameRows
  <2>4. UNCHANGED << account, owes >>
    BY <1>1, <2>3, AccountsKept, OwingKept, BooksOfTable
  <2>5. present' = present \ {hostname}
    BY <1>1, <1>4, NamesLeft, BooksOfTable
  <2>6. P!Leave(hostname)
    BY <2>2, <2>4, <2>5 DEF P!Leave
  <2>7. QED
    BY <2>2, <2>6 DEF P!KeepBooks
<1>5. QED
  BY <1>2, <1>3, <1>4 DEF clientDisconnected, Leave, lists, db

\* A greeting that is in the lists when addHostname fails leaves no trace.
LEMMA FailedGreetingKeepsBooks ==
  ASSUME Alignment, OneRowPerHostname, NEW c \in Sockets, failGreeting(c)
  PROVE  [P!KeepBooks]_(P!books)
<1> DEFINE line == Head(toServer[c])
           connections == Append(clientConnections, c)
           names == Append(peerNames, line.host)
           socketId == indexOf(connections, c)
<1>1. /\ peerNames \in Seq(Hostnames) /\ hosts \in Seq(Row) /\ UniqueHostnames(hosts) /\ Bookkeeping
      /\ Reads(c, "greet") /\ toServer[c] # << >> /\ sock[c] = "open"
  BY DEF Alignment, Bookkeeping, TypeOK, OneRowPerHostname, UniqueHostnames, failGreeting, Reads
<1>2. ~Enlisted(c) /\ line.host = peer[c].host /\ line.host \in Hostnames
  BY <1>1, GreetingIsNew, FirstLineNamed
<1>3. line.host \notin NamesIn(peerNames)
  BY <1>1, <1>2, HostIsNew
<1>4. CASE ProcessEnds /\ UNCHANGED hosts
  BY <1>4, BooksOfTable DEF ProcessEnds, NamesIn, P!KeepBooks, P!Stop
<1>5. CASE UNCHANGED << peerNames, hosts >>
  BY <1>5, BooksOfTable DEF P!books
<1>6. ASSUME NEW hostname \in at(names, socketId, Hostnames), socketId # -1,
             Update("unstored", hosts, voidConnection(hosts, hostname)),
             peerNames' = removeAll(names, hostname)
      PROVE  UNCHANGED P!books
  <2>1. hostname = line.host
    <3>1. Parallel(connections, names, Append(clientLastSeen, 0))
      BY <1>1, <1>2, ParallelGrown
    <3>2. connections \in Seq(Sockets) /\ names \in Seq(Hostnames)
      BY <1>1, <1>2, GrownLists
    <3>3. socketId + 1 \in DOMAIN connections /\ connections[socketId + 1] = c
      <4> HIDE DEF connections
      <4>1. DOMAIN connections = 1 .. Len(connections)
        BY <3>2, LenProperties
      <4>2. QED
        BY <1>6, <3>2, <4>1, IndexOfFinds
    <3>4. DOMAIN names = DOMAIN connections
      BY <3>1, <3>2, LenProperties DEF Parallel
    <3>5. names[socketId + 1] = peer[c].host
      BY <3>1, <3>3 DEF Parallel
    <3>6. QED
      BY <1>2, <1>6, <3>3, <3>4, <3>5 DEF at, InRange
  <2>2. SameRows(hosts, hosts') /\ \A id \in DOMAIN hosts : hosts'[id].must_sync = hosts[id].must_sync
    BY <1>1, <1>6, VoidConnection DEF Update, SameRows
  <2>3. UNCHANGED << account, owes >>
    BY <1>1, <2>2, AccountsKept, OwingKept, BooksOfTable
  <2>4. NamesIn(names) = NamesIn(peerNames) \cup {line.host} /\ names \in Seq(Hostnames)
    BY <1>1, <1>2, NamesGrown, AppendProperties
  <2>5. NamesIn(peerNames') = NamesIn(names) \ {line.host}
    BY <1>6, <2>1, <2>4, NamesLeft
  <2>6. QED
    BY <1>3, <2>3, <2>4, <2>5, BooksOfTable DEF P!books
<1>7. QED
  BY <1>4, <1>5, <1>6 DEF failGreeting, Leave, lists, db

\* readGreeting: the host is there, and in the books.
LEMMA GreetingKeepsBooks ==
  ASSUME PlainNames, Alignment, OneRowPerHostname, NEW c \in Sockets, readGreeting(c)
  PROVE  peer[c].host \in Hostnames /\ \E a \in Usernames : P!Arrive(peer[c].host, a)
<1> DEFINE line == Head(toServer[c])
           socketId == indexOf(Append(clientConnections, c), c)
           written == addHostname(hosts, users, line.user, line.host, socketId)
           kept == withHostname(hosts, users, line.user, line.host)
<1>1. /\ peerNames \in Seq(Hostnames) /\ hosts \in Seq(Row) /\ UniqueHostnames(hosts) /\ Bookkeeping
      /\ Reads(c, "greet") /\ toServer[c] # << >> /\ sock[c] = "open"
  BY DEF Alignment, Bookkeeping, TypeOK, OneRowPerHostname, UniqueHostnames, readGreeting, Reads
<1>2. /\ ~Enlisted(c) /\ line.host = peer[c].host
      /\ line.host \in Hostnames /\ line.user \in Usernames
  BY <1>1, GreetingIsNew, FirstLineNamed
<1>3. line.host \notin present
  BY <1>1, <1>2, HostIsNew, BooksOfTable
<1>4. present' = present \cup {line.host}
  BY <1>1, <1>2, NamesGrown, BooksOfTable DEF readGreeting, Enlist
<1>5. socketId \in Int
  <2>1. Append(clientConnections, c) \in Seq(Sockets)
    BY <1>1, <1>2, GrownLists
  <2>2. QED
    BY <2>1, IndexOfFinds
<1>6. /\ hosts' = written \/ hosts' = kept
      /\ isUserValid(users, line.user) /\ line.host \notin DOMAIN Escape
  BY <1>2 DEF readGreeting, Update, PlainNames
<1> HIDE DEF line, socketId
<1>7. CASE Found(hosts, hosts', line.host)
  <2>1. UNCHANGED << account, owes >>
    BY <1>1, <1>6, <1>7, AccountsKept, OwingKept, BooksOfTable DEF Found
  <2>2. line.host \in DOMAIN account
    BY <1>7, BooksOfTable DEF AccountOf, Found
  <2>3. P!Arrive(line.host, line.user)
    BY <1>3, <1>4, <2>1, <2>2 DEF P!Arrive, P!Known
  <2>4. QED
    BY <1>2, <2>3
<1>8. CASE Added(hosts, hosts', line.user, line.host)
  <2>1. /\ account' = WithHost(account, line.user, line.host)
        /\ owes' = owes \cup {line.host}
    BY <1>1, <1>6, <1>8, BooksAfterGreeting, BooksOfTable
  <2>2. line.host \notin DOMAIN account
    BY <1>8, BooksOfTable DEF AccountOf, Added
  <2>3. P!Arrive(line.host, line.user)
    BY <1>3, <1>4, <2>1, <2>2 DEF P!Arrive, P!Known, WithHost
  <2>4. QED
    BY <1>2, <2>3
<1>9. Found(hosts, written, line.host) \/ Added(hosts, written, line.user, line.host)
  BY <1>1, <1>2, <1>5, <1>6, RowsAfterGreeting
<1>10. Found(hosts, kept, line.host) \/ Added(hosts, kept, line.user, line.host)
  BY <1>1, <1>2, <1>6, RowsWithHost
<1> HIDE DEF written, kept
<1>11. QED
  BY <1>6, <1>7, <1>8, <1>9, <1>10

\* A listed client's host has synchronised and owes nothing.
LEMMA AnswerBooks ==
  ASSUME Alignment, OneRowPerHostname, NEW c \in Sockets, Enlisted(c),
         hosts' = syncIsDone(hosts, peer[c].host), UNCHANGED peerNames
  PROVE  peer[c].host \in Hostnames /\ P!Answer(peer[c].host)
<1>1. hosts \in Seq(Row) /\ UniqueHostnames(hosts)
  BY DEF Alignment, Bookkeeping, TypeOK, OneRowPerHostname, UniqueHostnames
<1>2. peer[c].host \in Hostnames /\ peer[c].host \in present
  BY ListedIsPresent, BooksOfTable
<1>3. SameRows(hosts, hosts')
  BY <1>1, SyncIsDone
<1>4. UNCHANGED << account, present >> /\ owes' = owes \ {peer[c].host}
  BY <1>1, <1>3, AccountsKept, OwingAfterSync, BooksOfTable
<1>5. QED
  BY <1>2, <1>4 DEF P!Answer

\* A listed client reports: the other hosts of the account owe.
LEMMA ReportBooks ==
  ASSUME Alignment, OneRowPerHostname, NEW c \in Sockets, Enlisted(c),
         NEW username \in Usernames, isUserValid(users, username),
         hosts' = setNotifyAllExcept(hosts, users, username, peer[c].host),
         UNCHANGED peerNames \/ ProcessEnds
  PROVE  peer[c].host \in Hostnames /\ P!Report(peer[c].host, username)
<1>1. hosts \in Seq(Row) /\ UniqueHostnames(hosts)
  BY DEF Alignment, Bookkeeping, TypeOK, OneRowPerHostname, UniqueHostnames
<1>2. peer[c].host \in Hostnames /\ peer[c].host \in present
  BY ListedIsPresent, BooksOfTable
<1>3. present' \in {present, {}}
  BY BooksOfTable DEF ProcessEnds, NamesIn
<1>4. UNCHANGED account
  BY <1>1, SetNotifyAllExcept, AccountsKept, BooksOfTable
<1>5. owes' = owes \cup {k \in DOMAIN account \ {peer[c].host} : account[k] = username}
  BY <1>1, OwingAfterReport, BooksOfTable
<1>6. QED
  BY <1>2, <1>3, <1>4, <1>5 DEF P!Report, P!Known

\* readRoger is such an answer, or changes nothing when its UPDATE fails.
LEMMA RogerKeepsBooks ==
  ASSUME Alignment, GreetsFirst, OneRowPerHostname, NEW c \in Sockets, readRoger(c)
  PROVE  [P!KeepBooks]_(P!books)
<1>1. Enlisted(c)
  BY DEF GreetsFirst, readRoger, Reads
<1>2. Update("unnoted", hosts, syncIsDone(hosts, peer[c].host)) /\ UNCHANGED peerNames
  BY <1>1, ListedIsPresent DEF readRoger, at, lists
<1>3. CASE hosts' = syncIsDone(hosts, peer[c].host)
  BY <1>1, <1>2, <1>3, AnswerBooks DEF P!KeepBooks
<1>4. CASE hosts' = hosts
  BY <1>2, <1>4, BooksOfTable DEF P!books
<1>5. QED
  BY <1>2, <1>3, <1>4 DEF Update

\* readNotifyAll is such a report, whether the others are told or not; when its UPDATE
\* fails, it changes nothing, or the daemon stops.
LEMMA ReportKeepsBooks ==
  ASSUME Alignment, GreetsFirst, OneRowPerHostname, NEW c \in Sockets, readNotifyAll(c)
  PROVE  [P!KeepBooks]_(P!books)
<1> DEFINE line == Head(toServer[c])
<1>1. /\ sock[c] = "open" /\ toServer[c] # << >> /\ line.kind = "notifyAll"
      /\ isUserValid(users, line.user)
      /\ hosts' = hosts \/ hosts' = setNotifyAllExcept(hosts, users, line.user, line.host)
      /\ UNCHANGED peerNames \/ ProcessEnds
  BY DEF readNotifyAll, Reads, Update, lists
<1>2. Enlisted(c)
  BY <1>1 DEF GreetsFirst
<1>3. line.host = peer[c].host /\ line.user \in Usernames
  BY <1>1, FirstLineNamed
<1> HIDE DEF line
<1>4. CASE hosts' = setNotifyAllExcept(hosts, users, line.user, line.host)
  <2>1. peer[c].host \in Hostnames /\ P!Report(peer[c].host, line.user)
    BY <1>1, <1>2, <1>3, <1>4, ReportBooks
  <2>2. QED
    BY <1>3, <2>1 DEF P!KeepBooks
<1>5. CASE hosts' = hosts /\ ProcessEnds
  BY <1>5, BooksOfTable DEF ProcessEnds, NamesIn, P!KeepBooks, P!Stop
<1>6. CASE UNCHANGED << hosts, peerNames >>
  BY <1>6, BooksOfTable DEF P!books
<1>7. QED
  BY <1>1, <1>4, <1>5, <1>6

-----------------------------------------------------------------------------
\* The empty table and the empty lists are the empty books.
LEMMA BooksInit == Init => P!Init
<1> SUFFICES ASSUME Init PROVE P!Init
  OBVIOUS
<1>1. hosts = << >> /\ peerNames = << >>
  BY DEF Init
<1>2. HostsOf(hosts) = {} /\ NamesIn(peerNames) = {}
  BY <1>1 DEF HostsOf, NamesIn
<1>3. owes = {} /\ present = {}
  BY <1>2, BooksOfTable DEF OwingIn
<1>4. account = [h \in {} |-> CHOOSE a \in Usernames : TRUE]
  BY <1>2, BooksOfTable DEF AccountOf
<1>5. QED
  BY <1>3, <1>4 DEF P!Init

\* A step of the daemon or of its surroundings is a step of the books or none.
LEMMA BooksStep ==
  ASSUME PlainNames, "adduser" \notin Env, Alignment, GreetsFirst, OneRowPerHostname, [Next]_vars
  PROVE  [P!KeepBooks]_(P!books)
<1>1. Bookkeeping
  BY DEF Alignment
<1>2. CASE UNCHANGED << hosts, peerNames >>
  BY <1>2, BooksOfTable DEF P!books
<1>3. CASE ProcessEnds /\ UNCHANGED hosts
  BY <1>3, BooksOfTable DEF ProcessEnds, NamesIn, P!KeepBooks, P!Stop
<1>4. ASSUME NEW c \in Sockets, \/ readGreeting(c) \/ failGreeting(c) \/ readRoger(c) \/ readNotifyAll(c)
                                \/ \E rest : clientDisconnected(c, rest)
      PROVE  [P!KeepBooks]_(P!books)
  <2>1. CASE readGreeting(c)
    BY <2>1, GreetingKeepsBooks DEF P!KeepBooks
  <2>2. QED
    BY <1>4, <2>1, FailedGreetingKeepsBooks, RogerKeepsBooks, ReportKeepsBooks, LeaveKeepsBooks
<1>5. QED
  BY <1>1, <1>2, <1>3, <1>4, BookSteps

\* The daemon keeps the books (KeepsTheBooks), for any names without quotes, as
\* long as the surroundings are calm and nobody runs --adduser: a host's debt
\* appears with its first greeting or another host's NotifyAll, outlives crashes,
\* restarts, failed statements and disconnections, and goes with the Roger of
\* that host (readClient, clientDisconnected and DbManager's statements).  A report
\* whose UPDATE fails leaves the books as they are.
THEOREM BooksCorrect ==
  ASSUME Calm, PlainNames, "adduser" \notin Env
  PROVE  Spec => KeepsTheBooks
<1>1. Alignment /\ GreetsFirst /\ OneRowPerHostname /\ [Next]_vars => [P!KeepBooks]_(P!books)
  BY BooksStep
<1>2. Spec => []Alignment
  BY AlignmentHolds
<1>3. Spec => []GreetsFirst
  BY GreetsFirstHolds
<1>4. Spec => []OneRowPerHostname
  BY OneRowCorrect
<1>5. Spec => P!Init
  BY BooksInit DEF Spec
<1>6. Spec => [][P!KeepBooks]_(P!books)
  BY <1>1, <1>2, <1>3, <1>4, PTL DEF Spec
<1>7. QED
  BY <1>5, <1>6 DEF KeepsTheBooks, P!Spec

-----------------------------------------------------------------------------
(* The notices, while nobody leaves.                                       *)

\* The inbox, of any peers and notices.
Box(peers, notices) ==
  [h \in Hostnames |->
     IF \E c \in Sockets : notices[c] # << >> /\ peers[c].host = h
     THEN Len(notices[CHOOSE c \in Sockets : notices[c] # << >> /\ peers[c].host = h])
     ELSE 0]

\* The mapping's inbox is Box of the daemon's state, before and after a step.
LEMMA InboxIsBox == inbox = Box(peer, toClient) /\ inbox' = Box(peer', toClient')
BY DEF inbox, Box

\* Where each host has one socket and the others have nothing to read, a host's box
\* is what waits for its socket, and that of a host without a socket is empty.
LEMMA BoxOfHost ==
  ASSUME NEW peers, NEW notices \in [Sockets -> Seq(Hostnames)], NEW L \in SUBSET Sockets,
         \A c, d \in L : peers[c].host = peers[d].host => c = d,
         \A c \in Sockets \ L : notices[c] = << >>,
         NEW h \in Hostnames
  PROVE  /\ \A c \in L : peers[c].host = h => Box(peers, notices)[h] = Len(notices[c])
         /\ (\A c \in L : peers[c].host # h) => Box(peers, notices)[h] = 0
<1>1. ASSUME NEW c \in L, peers[c].host = h
      PROVE  Box(peers, notices)[h] = Len(notices[c])
  <2>1. CASE notices[c] # << >>
    <3>1. (CHOOSE d \in Sockets : notices[d] # << >> /\ peers[d].host = h) = c
      BY <1>1, <2>1
    <3>2. QED
      BY <1>1, <2>1, <3>1 DEF Box
  <2>2. CASE notices[c] = << >>
    <3>1. ~\E d \in Sockets : notices[d] # << >> /\ peers[d].host = h
      BY <1>1, <2>2
    <3>2. Box(peers, notices)[h] = 0
      BY <3>1 DEF Box
    <3>3. QED
      BY <2>2, <3>2, EmptySeq
  <2>3. QED
    BY <2>1, <2>2
<1>2. ASSUME \A c \in L : peers[c].host # h
      PROVE  Box(peers, notices)[h] = 0
  BY <1>2 DEF Box
<1>3. QED
  BY <1>1, <1>2

\* The listed connections.
Listing == {c \in Sockets : Enlisted(c)}

\* The conditions of BoxOfHost.
OneSocketEach ==
  /\ toClient \in [Sockets -> Seq(Hostnames)]
  /\ \A c \in Sockets : peer[c].host \in Hostnames
  /\ \A c, d \in Listing : peer[c].host = peer[d].host => c = d
  /\ \A c \in Sockets \ Listing : toClient[c] = << >>

\* Two listed sockets are two hosts', and only a listed socket has notices waiting.
LEMMA SocketsApart == Alignment /\ Presence => OneSocketEach
<1> SUFFICES ASSUME Alignment, Presence PROVE OneSocketEach
  OBVIOUS
<1>1. toClient \in [Sockets -> Seq(Hostnames)] /\ \A c \in Sockets : peer[c].host \in Hostnames
  BY ClientNames DEF Alignment, Bookkeeping, TypeOK
<1>2. \A c, d \in Listing : peer[c].host = peer[d].host => c = d
  BY DEF Listing, Presence, ListedAreWelcome, Welcome, Alignment, HostsApart
<1>3. QED
  BY <1>1, <1>2 DEF OneSocketEach, Listing, Presence, NoticesHaveReaders

\* A host's inbox is that of its listed connection.
LEMMA InboxOfHost ==
  ASSUME OneSocketEach, NEW h \in Hostnames
  PROVE  /\ \A c \in Listing : peer[c].host = h => inbox[h] = Len(toClient[c]) /\ inbox[h] \in Nat
         /\ (\A c \in Listing : peer[c].host # h) => inbox[h] = 0
<1>1. Listing \in SUBSET Sockets
  BY DEF Listing
<1>2. /\ \A c \in Listing : peer[c].host = h => Box(peer, toClient)[h] = Len(toClient[c])
      /\ (\A c \in Listing : peer[c].host # h) => Box(peer, toClient)[h] = 0
  BY <1>1, BoxOfHost DEF OneSocketEach
<1>3. \A c \in Sockets : Len(toClient[c]) \in Nat
  BY LenProperties DEF OneSocketEach
<1>4. QED
  BY <1>1, <1>2, <1>3, InboxIsBox

\* ... and after the step.
LEMMA InboxOfHostThen ==
  ASSUME OneSocketEach', NEW h \in Hostnames
  PROVE  /\ \A c \in Listing' : peer'[c].host = h => inbox'[h] = Len(toClient'[c])
         /\ (\A c \in Listing' : peer'[c].host # h) => inbox'[h] = 0
<1>1. Listing' \in SUBSET Sockets
  BY DEF Listing
<1>2. /\ \A c \in Listing' : peer'[c].host = h => Box(peer', toClient')[h] = Len(toClient'[c])
      /\ (\A c \in Listing' : peer'[c].host # h) => Box(peer', toClient')[h] = 0
  BY <1>1, BoxOfHost DEF OneSocketEach
<1>3. QED
  BY <1>2, InboxIsBox

\* The hosts present are those of the listed connections.
LEMMA PresentHosts ==
  ASSUME Alignment
  PROVE  present = {peer[c].host : c \in Listing}
<1>1. clientConnections \in Seq(Sockets) /\ DOMAIN peerNames = DOMAIN clientConnections
  BY PositionsInRange DEF Alignment, Bookkeeping, TypeOK
<1>2. \A i \in DOMAIN clientConnections :
        clientConnections[i] \in Listing /\ peerNames[i] = peer[clientConnections[i]].host
  BY <1>1, LenProperties, ElementOfSeq DEF Listing, Enlisted, Alignment, ListsParallel
<1>3. QED
  BY <1>1, <1>2 DEF present, Listing, Enlisted

\* A host owes in the books when it does in the table.
LEMMA OwesThenInBooks == \A h : h \in owes' <=> OwesThen(h)
BY BooksOfTable DEF OwingIn, HostsOf, RowsIn, OwesThen

\* A client takes its first notice.
LEMMA ReadIsTold ==
  ASSUME OneSocketEach, OneSocketEach', NEW c \in Sockets, ReadNotice(c)
  PROVE  P!KeepTold
<1> DEFINE h == peer[c].host
<1>1. /\ toClient[c] # << >> /\ toClient' = [toClient EXCEPT ![c] = Tail(toClient[c])]
      /\ UNCHANGED << hosts, peerNames, peer, clientConnections >>
  BY DEF ReadNotice, db, network, lists
<1>2. c \in Listing /\ Listing' = Listing /\ h \in Hostnames /\ toClient[c] \in Seq(Hostnames)
  BY <1>1 DEF OneSocketEach, Listing, Enlisted
<1>3. toClient'[c] = Tail(toClient[c]) /\ \A d \in Sockets : d # c => toClient'[d] = toClient[d]
  BY <1>1 DEF OneSocketEach
<1>4. Len(toClient[c]) \in Nat /\ Len(toClient[c]) > 0 /\ Len(toClient'[c]) = Len(toClient[c]) - 1
  <2>1. Len(toClient[c]) \in Nat /\ Len(toClient[c]) # 0
    BY <1>1, <1>2, EmptySeq, LenProperties
  <2>2. Len(Tail(toClient[c])) = Len(toClient[c]) - 1
    BY <1>1, <1>2, HeadTailProperties
  <2>3. QED
    BY <1>3, <2>1, <2>2
<1>5. inbox[h] = Len(toClient[c]) /\ inbox'[h] = Len(toClient'[c])
  BY <1>1, <1>2, InboxOfHost, InboxOfHostThen
<1>6. ASSUME NEW k \in Hostnames, k # h
      PROVE  inbox'[k] = inbox[k]
  <2>1. CASE \E d \in Listing : peer[d].host = k
    <3>1. PICK d \in Listing : peer[d].host = k
      BY <2>1
    <3>2. inbox[k] = Len(toClient[d]) /\ inbox'[k] = Len(toClient'[d])
      BY <1>1, <1>2, <3>1, InboxOfHost, InboxOfHostThen
    <3>3. d # c /\ d \in Sockets
      BY <1>6, <3>1 DEF Listing
    <3>4. QED
      BY <1>3, <3>2, <3>3
  <2>2. CASE \A d \in Listing : peer[d].host # k
    BY <1>1, <1>2, <2>2, InboxOfHost, InboxOfHostThen
  <2>3. QED
    BY <2>1, <2>2
<1>7. /\ inbox = [k \in Hostnames |-> inbox[k]]
      /\ inbox' = [k \in Hostnames |-> inbox'[k]]
  BY DEF inbox
<1>8. UNCHANGED << account, owes, present >>
  BY <1>1, BooksOfTable
<1> HIDE DEF h
<1>9. inbox' = [inbox EXCEPT ![h] = inbox[h] - 1] /\ inbox[h] > 0
  <2>1. inbox[h] > 0 /\ inbox'[h] = inbox[h] - 1
    BY <1>4, <1>5
  <2>2. QED
    BY <1>2, <1>6, <1>7, <2>1, Zenon
<1>10. P!Read(h)
  BY <1>8, <1>9 DEF P!Read, P!books
<1>11. QED
  BY <1>2, <1>10 DEF P!KeepTold, h

\* Who is told finds one notice more: the inboxes of the listed hosts tell.
LEMMA TellsListed ==
  ASSUME Alignment, OneSocketEach, OneSocketEach', UNCHANGED peer, Listing \subseteq Listing',
         NEW told \in SUBSET {peer[c].host : c \in Listing'},
         \A c \in Listing' :
           /\ toClient[c] \in Seq(Hostnames)
           /\ toClient'[c] = IF peer[c].host \in told THEN Append(toClient[c], peer[c].host) ELSE toClient[c]
  PROVE  P!Tell(told)
<1>1. ASSUME NEW k \in Hostnames
      PROVE  inbox'[k] = IF k \in told THEN inbox[k] + 1 ELSE inbox[k]
  <2>1. ASSUME NEW c \in Listing', peer[c].host = k
        PROVE  inbox'[k] = IF k \in told THEN inbox[k] + 1 ELSE inbox[k]
    <3>1. inbox'[k] = Len(toClient'[c])
      BY <2>1, InboxOfHostThen
    <3>2. inbox[k] = Len(toClient[c])
      <4>1. CASE c \in Listing
        BY <2>1, <4>1, InboxOfHost
      <4>2. CASE c \notin Listing
        <5>1. c \in Sockets
          BY <2>1 DEF Listing
        <5>2. toClient[c] = << >>
          BY <4>2, <5>1 DEF OneSocketEach
        <5>3. \A d \in Listing : peer[d].host # k
          BY <2>1, <4>2 DEF OneSocketEach
        <5>4. QED
          BY <5>2, <5>3, InboxOfHost, EmptySeq
      <4>3. QED
        BY <4>1, <4>2
    <3>3. peer[c].host \in Hostnames /\ toClient[c] \in Seq(Hostnames)
      BY <2>1
    <3>4. Len(Append(toClient[c], peer[c].host)) = Len(toClient[c]) + 1
      BY <3>3, AppendProperties
    <3>5. QED
      BY <2>1, <3>1, <3>2, <3>4
  <2>2. ASSUME \A c \in Listing' : peer[c].host # k
        PROVE  inbox'[k] = inbox[k] /\ k \notin told
    <3>1. inbox'[k] = 0
      BY <2>2, InboxOfHostThen
    <3>2. inbox[k] = 0
      BY <2>2, InboxOfHost
    <3>3. QED
      BY <2>2, <3>1, <3>2
  <2>3. QED
    BY <2>1, <2>2
<1>2. inbox' = [k \in Hostnames |-> inbox'[k]]
  BY DEF inbox
<1>3. inbox' = [k \in Hostnames |-> IF k \in told THEN inbox[k] + 1 ELSE inbox[k]]
  BY <1>1, <1>2, Zenon
<1>4. QED
  BY <1>3 DEF P!Tell

\* A line of a listed client changes the books and tells, or does neither.
LEMMA ServeIsTold ==
  ASSUME Alignment, Presence, Reached, OneSocketEach, OneSocketEach', NEW c \in Sockets, Serves(c)
  PROVE  P!KeepTold \/ UNCHANGED << hosts, peerNames, peer, toClient >>
<1> DEFINE user == peer[c].user
<1>1. /\ Enlisted(c) /\ UNCHANGED << peer, peerNames, clientConnections >> /\ user \in Usernames
      /\ Listing' = Listing /\ OneRowPerHostname
  BY ClientNames DEF Serves, Alignment, Bookkeeping, TypeOK, Reached, Listing, Enlisted
<1>2. \A d \in Listing : toClient[d] \in Seq(Hostnames) /\ d \in Sockets
  BY DEF OneSocketEach, Listing
<1>3. CASE hosts' = hosts /\ UNCHANGED toClient
  BY <1>1, <1>3
<1>4. CASE hosts' = syncIsDone(hosts, peer[c].host) /\ UNCHANGED toClient
  <2>1. peer[c].host \in Hostnames /\ P!Answer(peer[c].host)
    BY <1>1, <1>4, AnswerBooks
  <2>2. P!Tell({})
    BY <1>1, <1>2, <1>4, TellsListed
  <2>3. QED
    BY <2>1, <2>2 DEF P!KeepTold, P!AnswerTold
<1>5. CASE /\ isUserValid(users, user)
           /\ hosts' = setNotifyAllExcept(hosts, users, user, peer[c].host)
           /\ notifyClients(clientsToSync(hosts', users, user))
  <2>1. peer[c].host \in Hostnames /\ P!Report(peer[c].host, user)
    BY <1>1, <1>5, ReportBooks
  <2>2. UNCHANGED present /\ present = {peer[d].host : d \in Listing}
    BY <1>1, PresentHosts, BooksOfTable
  <2>3. \A d \in Listing : ToldOnce(d)
    BY <1>5, NotifiedOnce DEF Listing
  <2>4. \A d \in Listing : peer[d].host \in present \cap owes' <=> OwesThen(peer[d].host)
    BY <2>2, OwesThenInBooks
  <2>5. P!Tell(present \cap owes')
    <3> DEFINE told == present \cap owes'
    <3>1. told \in SUBSET {peer[d].host : d \in Listing'}
      BY <1>1, <2>2
    <3>2. \A d \in Listing' :
            toClient'[d] = IF peer[d].host \in told THEN Append(toClient[d], peer[d].host) ELSE toClient[d]
      BY <1>1, <2>3, <2>4 DEF ToldOnce
    <3> HIDE DEF told
    <3>3. P!Tell(told)
      BY <1>1, <1>2, <3>1, <3>2, TellsListed
    <3>4. QED
      BY <3>3 DEF told
  <2>6. QED
    BY <1>1, <2>1, <2>2, <2>5 DEF P!KeepTold, P!ReportTold
<1>6. QED
  BY <1>3, <1>4, <1>5 DEF Serves

\* A greeting enters the books, and the host is told if it owes.
LEMMA GreetingIsTold ==
  ASSUME PlainNames, Alignment, Presence, Reached, OneSocketEach, OneSocketEach',
         NEW c \in Sockets, readGreeting(c)
  PROVE  P!KeepTold
<1> DEFINE h == peer[c].host
           told == {h} \cap owes'
<1>1. h \in Hostnames /\ \E a \in Usernames : P!Arrive(h, a)
  BY GreetingKeepsBooks DEF Reached
<1>2. ~Enlisted(c) /\ UNCHANGED peer /\ \A d : Enlisted(d)' <=> Enlisted(d) \/ d = c
  BY Greeted
<1>3. Listing' = Listing \cup {c}
  BY <1>2 DEF Listing
<1>4. ToldOnce(c) /\ \A d \in Sockets : d # c => toClient'[d] = toClient[d]
  BY GreetedOnce
<1>5. \A d \in Listing : peer[d].host # h
  BY <1>2, <1>3 DEF OneSocketEach, Listing
<1>6. h \in told <=> OwesThen(h)
  BY OwesThenInBooks
<1>7. told \in SUBSET {peer[d].host : d \in Listing'} /\ told \subseteq {h}
  BY <1>3
<1> HIDE DEF told
<1>8. \A d \in Listing' :
        /\ toClient[d] \in Seq(Hostnames)
        /\ toClient'[d] = IF peer[d].host \in told THEN Append(toClient[d], peer[d].host) ELSE toClient[d]
  BY <1>3, <1>4, <1>5, <1>6, <1>7 DEF ToldOnce, OneSocketEach, Listing
<1>9. P!Tell(told)
  BY <1>2, <1>3, <1>7, <1>8, TellsListed
<1>10. QED
  BY <1>1, <1>9 DEF P!KeepTold, P!ArriveTold, told

\* Every step tells who owes, or neither the books nor the inboxes change.
LEMMA ToldBooksStep ==
  ASSUME PlainNames, "adduser" \notin Env, Alignment, Presence, Reached, OneSocketEach, OneSocketEach', PresentStep
  PROVE  [P!KeepTold]_(P!vars)
<1>1. ASSUME UNCHANGED << hosts, peerNames, peer, toClient >>
      PROVE  UNCHANGED P!vars
  BY <1>1, BooksOfTable, InboxIsBox DEF P!vars, P!books
<1>2. CASE Aside \/ \E username \in Usernames : AddUser(username)
  BY <1>1, <1>2 DEF Aside, AddUser, db
<1>3. ASSUME NEW c \in Sockets,
             \/ \E client \in Clients : Connect(c, client)
             \/ Ends(c)
      PROVE  UNCHANGED P!vars
  <2>1. /\ ~Enlisted(c) /\ toClient' = toClient
        /\ UNCHANGED << hosts, peerNames, clientConnections >>
        /\ \A d \in Sockets : d # c => peer'[d] = peer[d]
    <3>1. ~Enlisted(c) /\ toClient[c] = << >>
      BY <1>3 DEF Connect, Ends, Presence, NoticesHaveReaders, Alignment, Bookkeeping, EnlistedAreOpen
    <3>2. toClient' = toClient
      BY <1>3, <3>1 DEF Connect, Ends, SocketGone, OneSocketEach
    <3>3. QED
      BY <1>3, <3>1, <3>2 DEF Connect, Ends, SocketGone, db, lists, Alignment, Bookkeeping, TypeOK
  <2>2. Listing' = Listing /\ \A d \in Listing : peer'[d] = peer[d]
    BY <2>1 DEF Listing, Enlisted
  <2>3. ASSUME NEW h \in Hostnames
        PROVE  inbox'[h] = inbox[h]
    <3>1. CASE \E d \in Listing : peer[d].host = h
      BY <2>1, <2>2, <3>1, InboxOfHost, InboxOfHostThen
    <3>2. CASE \A d \in Listing : peer[d].host # h
      BY <2>2, <3>2, InboxOfHost, InboxOfHostThen
    <3>3. QED
      BY <3>1, <3>2
  <2>4. /\ inbox = [h \in Hostnames |-> inbox[h]]
        /\ inbox' = [h \in Hostnames |-> inbox'[h]]
    BY DEF inbox
  <2>5. inbox' = inbox
    BY <2>3, <2>4, Zenon
  <2>6. QED
    BY <2>1, <2>5, BooksOfTable DEF P!vars, P!books
<1>4. ASSUME NEW c \in Sockets, Refuses(c) \/ \E kind \in {"ping", "roger", "notifyAll"} : Send(c, kind)
      PROVE  UNCHANGED P!vars
  BY <1>1, <1>4 DEF Send, Refuses, Refuse, network, db, lists
<1>5. ASSUME NEW c \in Sockets, ReadNotice(c) \/ Serves(c) \/ readGreeting(c)
      PROVE  [P!KeepTold]_(P!vars)
  BY <1>1, <1>5, ReadIsTold, ServeIsTold, GreetingIsTold
<1>6. QED
  BY <1>2, <1>3, <1>4, <1>5 DEF PresentStep

\* While nobody leaves, no account is added and names hold no quotes, the daemon
\* does what Propagation promises about notices too (TellsWhoOwes): with every
\* report whoever is present and owes is told, once, and so is a host that arrives
\* owing; nobody else is told, and a Roger tells nobody (readClient, notifyClients).
THEOREM ToldBooksCorrect ==
  ASSUME NobodyLeaves, PlainNames, "adduser" \notin Env
  PROVE  Spec => TellsWhoOwes
<1> DEFINE Inv == Alignment /\ GreetsFirst /\ Presence /\ Reached
<1>1. Inv /\ Inv' /\ [Next]_vars => [P!KeepTold]_(P!vars)
  <2> SUFFICES ASSUME Inv, Inv', [Next]_vars PROVE [P!KeepTold]_(P!vars)
    OBVIOUS
  <2>1. OneSocketEach /\ OneSocketEach'
    BY SocketsApart, PTL
  <2>2. QED
    BY <2>1, PresentSteps, ToldBooksStep
<1>2. Spec => []Inv
  <2>1. Spec => []Alignment /\ []OneRowPerHostname /\ []ListedClientIsReachable
    BY NobodyLeavesIsCalm, AlignmentHolds, OneRowCorrect, ReachableCorrect
  <2>2. OneRowPerHostname /\ ListedClientIsReachable => Reached
    BY DEF Reached
  <2>3. QED
    BY <2>1, <2>2, GreetsFirstHolds, PresenceHolds, PTL
<1>3. Init => P!Init /\ inbox = [h \in Hostnames |-> 0]
  <2>1. Init => inbox = [h \in Hostnames |-> 0]
    BY DEF Init, inbox
  <2>2. QED
    BY <2>1, BooksInit
<1> HIDE DEF Inv
<1>4. Spec => [][P!KeepTold]_(P!vars)
  BY <1>1, <1>2, PTL DEF Spec
<1>5. QED
  BY <1>3, <1>4 DEF Spec, TellsWhoOwes, P!ToldSpec
=============================================================================
