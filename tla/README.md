# Easysync in TLA+

Easysync is a small daemon and a desktop client. Every computer runs the client;
the client watches a directory, runs `unison` when something changes, and tells the
daemon, which tells the other computers of the same account to run `unison` too.
The hard part is the bookkeeping between the two: which connections there are, which
computer each one belongs to, who still owes a synchronisation, and what a client
does when a connection, a notice and a synchronisation get in each other's way.
Beneath that lie two pieces with threads and processes of their own: the watcher, whose
engine runs beside the GUI, and the service framework, which starts and commands the
daemon through a socket file on Unix and through the service manager on Windows.

This directory holds the models of all of these, the TLC runs that check them and
the TLAPS proofs about them. Paths below are under `src/`.

## 1. Inventory

| Component | State it keeps | Operations | Interacts with |
|---|---|---|---|
| **DbManager** (`server/dbmanager.cpp`) | tables `users`, `hosts` (`must_sync`, `socket_id` per host) in SQLite | one function per statement | called by EasysyncServer and by `--adduser` |
| **EasysyncServer** (`server/easysyncserver.cpp`) | three parallel lists `clientConnections`, `peerNames`, `clientLastSeen`; `keepAliveTimer`; `disabled` | slots `handleNewConnection`, `readClient`, `clientDisconnected`, `checkClientsConnection`; `pause`, `resume`, `stop` | clients by lines over TCP, DbManager by calls |
| **EasysyncService** (`server/easysyncservice.cpp`) | the server object | `start` (also `--adduser`), `stop`, `pause`, `resume` | controlled through QtService |
| **QtService on Unix** (`server/qt/qtservice_unix.cpp`, `qtunix*socket.cpp`) | a listening socket per process, one socket file, the commands read from it | start, `-e`, isRunning, terminate, pause, resume, alive, num | other processes of the same program, through the file |
| **QtService on Windows** (`server/qt/qtservice_win.cpp`) | three threads, two semaphores, a mutex with one condition, posted events, the reported state | the service manager's start and controls, the end of the system | the manager; EasysyncService, in the main thread |
| **Client** (`client/client.cpp`) | socket and `socketReady`, pending single shots, `serverKeepAliveTimer`, `syncTimer`, `syncInProgress`, `needToSync`, `notifyAllAfterSync`, tray icon | slots of the socket, the timers, the watcher, the process, the network manager and the dialog | daemon by lines, watcher and unison by signals |
| **MFileSystemWatcher** (`client/qt/`) | listed directories; in the engine's thread the handles, `msg` and an event | `addPaths`, `removePaths`, the destructor, the thread's `run` | Client, by `directoryChanged`, a queued signal |
| **Unison**, the scripts | files | | external |

### What is hard

*One event loop, but reentrant.* The daemon has one thread; still
`disconnectFromHost()` emits `disconnected()` before it returns when nothing is left to
write, so `clientDisconnected` runs in the middle of `checkClientsConnection` and of
`readClient`, and changes the lists they work on.

*Three lists and a database that must agree.* Each list is changed by a `removeAll` of
its own, by value; the database holds positions of those lists.

*Failures.* Connections drop, or vanish without a word; pings are late; the daemon is
paused, killed and started again; midnight comes; lines arrive together and are read one
for each `readyRead`. Statements fail, and the code looks at the result of some of them only.

*The client's chain of retries.* Three slots keep it going under conditions of their
own, and a retry that comes too late meets a connection that is up.

*Overlapping synchronisations.* A change or a notice that comes while unison runs is
only a flag, and a computer that reports a change may be told of its own report.

*GUI and engine thread.* The watcher writes `msg` outside of the mutex, inserts into the
thread's containers under a lock that has already ended, and takes signals that were
queued before it removed the directory they are about.

*A service known by the name of a file.* A process removes whatever has the name of
its socket when it starts and when it ends; controllers wait for replies without a limit.

*A condition without an addressee.* On Windows two threads wait on one condition,
`wakeAll` does not say whose control was handled, and the object that events are posted
to comes and goes.

### What makes each component correct

| Component | Properties |
|---|---|
| DbManager | one row per host; only the named host's `must_sync` and `socket_id` change |
| EasysyncServer | the lists stay parallel; stored indexes are current while nobody leaves, and a listed client has one; whoever comes to owe a synchronisation is told, under its own name; only its own Roger releases it; what is owed outlives crashes and restarts |
| Keep-alive | the timer runs exactly while somebody is listed; a vanished client is removed |
| QtService on Unix | as long as commands wait for one another, the file leads to the one service there is and none meets a NULL server; nobody waits for a process that is gone; every command returns |
| QtService on Windows | a control is answered by its own event; the state shown is the daemon's; what is pending is in somebody's hands; starts and stops end |
| Client, connection | the retry chain is never broken; the client gets connected again |
| Client, synchronisation | no reported change is forgotten; an idle connected client watches |
| MFileSystemWatcher | the unlocked insertion is alone; listed is watched; a reported change is never without a bearer, and is signalled; a quit reaches the thread, and a removal ends |
| All together | every change that a client was told of comes to every connected computer; when the exchange rests they all have it |

The `hazards` in `PROJECT.json` name the lines.

## 2. Modules

| Module | Models | Depends on |
|---|---|---|
| `DbManager` | the SQL statements, as operators from a table's value to the next | |
| `QList` | `removeAll`, `indexOf`, `at` as the daemon relies on them (external) | |
| `EasysyncServer` | the daemon, the sockets and the clients as its surroundings | `DbManager`, `QList` |
| `Propagation` | abstract: hosts with accounts, who owes, who is present, who is told | |
| `EasysyncRefinement` | the mapping from the daemon to `Propagation` | `EasysyncServer`, `Propagation` |
| `EasysyncClient` | one client, its server's end, its user, network and unison | |
| `Easysync` | the daemon, a client program on each host, and the files | `EasysyncServer` |
| `MFileSystemWatcher` | the watcher, its Windows engine's thread and the file system | |
| `QtServiceUnix` | processes of the daemon and their controllers on Unix | |
| `QtServiceWin` | the three threads of the service on Windows | |
| `MCServer`, `MCEasysync` | instances for TLC | `EasysyncRefinement`, `Easysync` |
| `OperatorProofs` | what the operators return, preserve and bound | `QList`, `DbManager` |
| `EasysyncServerProofs`, `EasysyncRefinementProofs` | invariants of the daemon; that it implements the books | the four above |
| `EasysyncProofs` | that the composition contains the daemon; when it rests, all agree | `Easysync`, `EasysyncRefinementProofs` |
| `EasysyncClientProofs`, `MFileSystemWatcherProofs`, `QtServiceUnixProofs`, `QtServiceWinProofs` | invariants of the module in their name | that module |

What the surroundings may do beyond the ordinary is, in each module, the constant
`Env`, a set of named events. So a run, and a theorem, says which conditions it is about.

### The daemon

A socket's life is `sock[c]`: `queued` (connected, not yet taken by
`nextPendingConnection`), `open`, `closing` (a refusal is still being written) and
`none`. A line is a record of its kind and of the two names in angle brackets; the rest
of its text is never looked at by the code. `toServer[c]` holds the lines a client has
sent and `readClient` has not taken; `arrived[c]` says how many of them already lie in
the socket's buffer, because `readyRead` is only emitted when *more* data comes
and `readClient` takes one line each time.

`clientDisconnected` is not an action but the tail of several: of the peer's own close,
of a refusal that has been written, of a hang-up in `readClient`, of a failed
`addHostname` (with the longer lists it finds by then), and of each turn of the loop in
`checkClientsConnection`. The two loops of that function are two actions,
`mustDisconnect` holding what is left; no other handler runs in between (`Idle`).

Undefined behaviour is a choice. `QList::at` out of range may return whatever stale
memory holds in a release build (`at(list, index, stale)`, `notifyClientsAstray`), and
stops the process in a debug build (`ProcessEnds`).

| `Env` of the daemon | Event |
|---|---|
| `drop`, `vanish`, `late` | a connection closes, a machine disappears silently, a ping is overdue |
| `overlap` | a host connects while its earlier connection is still held |
| `sameinstant`, `midnight` | equal times in `clientLastSeen`; the wrap of `QTime` |
| `coalesce` | lines arrive together |
| `pause`, `restart`, `adduser` | the controller, a crash or stop, `--adduser` |
| `dbfail` | a SELECT or an INSERT fails: an account is refused, a greeting ends in a disconnection, nothing is found to be owed |
| `unstored`, `unnoted` | an UPDATE of `socket_id`, or of `must_sync`, fails; the code never looks (`Update`) |
| `settings`, `stranger` | a connected client is renamed; another program talks to the port |

### What the daemon promises

`Propagation` knows neither sockets nor rows: `account` of each known host, the hosts
that are `present`, those that `owe`, and an `inbox` count. `Spec` is the books alone;
`ToldSpec` adds who is told and when. The mapping (`EasysyncRefinement`) reads `account`
and `owes` off table `hosts`, `present` off `peerNames` and `inbox` off the unread lines.
`KeepsTheBooks` (`P!Spec`) is claimed under failures and restarts; `TellsWhoOwes`
(`P!ToldSpec`) only while nobody leaves, because of the stale indexes (section 6).

### The client

The socket is `unconnected`, `connecting` or `connected`; the slots of `connected()` and
`disconnected()` run in the call that changes it, so `socketReady` is that state.
`dials` and `checks` count the pending single shots of `connectToServer` and
`checkServerConnection`, which may fire in any order: the code's 2 s and 5 s bound
nothing that a slow network could not exceed. `abort()` on a connection that is up runs
`handleSocketDisconnected` inside `connectToServer`.

`changed` and `noticed` are history: a change that no reported synchronisation has
followed, a notice that no synchronisation has followed. No action reads them.

### The daemon and the clients together

`Easysync` takes the daemon's actions as they are (it extends `EasysyncServer`)
and puts a client program at the other end of each connection: the members of `Client`
that decide what is synchronised and told (`syncTimer`, `syncInProgress`, `needToSync`,
`notifyAllAfterSync`), one copy for each host. All clients are of one account, whose
directory on the server is `store`. A change is a number; `files[h]` and
`store` are sets of them. When unison starts it has seen both sides (`scanned`); when it
ends, what it has seen is on both. So a change made in between is in nobody's
synchronisation, which is the case worth having.

A user changes files at any time (`Change`). If the directory is watched, which it is while the client is connected and
idle (`Watching`), a `signal` is posted to the client. Whatever the client does first may stop the watcher: the signal is delivered
(`handleDirectoryChanged`) if the directory is listed by then, and dropped otherwise (`_q_directoryChanged`).
`watched` and `heard` are history: the changes made under watch, and what was in a directory when its client was
told of a change. No action reads them. Clients stay once they have connected:
what happens to the books otherwise is `EasysyncServer`'s question, and to a client's
flags `EasysyncClient`'s.

### The watcher

`gui` is the place of the GUI thread inside `addPaths`, `removePaths` or the
destructor; the code's accesses to what it shares with the thread are one step each
(`addLookup` under the mutex, `addInsert` without, `wakeup` and `stop` writing `msg`,
`setEvent`, `waited`). `thread` is the place in `run()`: copying the handles, waiting,
locking again, reading `msg` and clearing it in two steps, `FindNextChangeNotification`,
emitting, and the poll at the end of the inner loop. The thread holds its mutex from the
return of a wait to the next one (`threadHasMutex`), and the steps of the GUI that lock
wait for that. A handle that was closed while the thread waits on a copy of it may seem
signalled, or fail the wait (`WaitReturns`). `queue` holds the posted signals until the
GUI's loop delivers one (`_q_directoryChanged`). `unseen` (a change that is followed to
the signal that was sent after it) and `lostQuit` are history.

### The service on Unix

`daemon[d]` is where a process is in `QtServiceBasePrivate::run`: `forked`, `unlinked`
and `bound` (the two halves of `setPath`), `serving`, `ending` (`quit()` was called, the
round of the event loop goes on), `left`, `closed` (the two halves of `close`). `file` is
what the socket file leads to: a process, nothing, or `stale`, a file nobody listens at.
A controller (`ctl[c]`) is a process that connects, sends one line and waits; a `start`
or `--adduser` goes on to fork when nobody answered. A `-e` process has no socket.
A round of the event loop serves the connections that were readable when it began: a command may be read in the round in which
`terminate` was (`ending`), one that connects then is left. `hasty` is history: a command was given before the last one, and what it
started, were through. `crashed` is history: `pause` or `resume` met a NULL `server`.

### The service on Windows

`main` is the main thread's place in `start()`, `thread` those of the dispatcher's
handler thread and of `serviceMain`, both of which go through `handler()`. The mutex is
released only in the wait, so what is done under it is one step (`enter`, `awake`);
`report` is the `SetServiceStatus` outside of it. `posted` holds the events for
`controllerHandler`, which exists only while `main` is in the event loop or waits for the
handler thread: what is posted earlier or later is dropped. `status` is
`sysd->status.dwCurrentState` and `reported` what the manager was told last. The end of a
process ends all threads (`Gone`). `failed` is history: `start()` failed.

## 3. Runs

| Run | Checks | Shows |
|---|---|---|
| `Server_stable` | StoredIndexIsCurrent, NoticeNamesItsReader, ToldWhenObliged, TellsWhoOwes | as long as nobody leaves, indexes are right and everybody is told, once, across accounts, pauses and coalesced lines |
| `Server_faults` | ListsParallel, OneRowPerHostname, ReleasedByItsOwnRoger, KeepsTheBooks | the lists and the books under every failure that leaves them in order, failing statements of every kind included, and that the books are those of `Propagation` |
| `Server_overlap` | TypeOK, KeepAliveRuns | what remains true when the lists come apart |
| `Server_keepalive` | ListedClientIsReachable, GoneClientIsRemoved | over losses, pauses, midnights and restarts, a listed client keeps an index; liveness of the keep-alive check |
| `Client` | TypeOK, NeverStranded, PendingChangeIsCovered, IdleClientWatches, ReconnectsAgain, ChangeIsSynced | the client under all its surroundings at once, and its liveness |
| `Easysync` | SystemTypeOK, RestIsAgreement, HeardReachesAll | every change that a client was told of comes to every connected computer, and when all is quiet they all have it |
| `Watcher` | TypeOK, InsertionIsAlone, WatchedExactlyWhenListed, ChangeIsUnderWay, QuitIsUnderWay, ChangeIsSignalled, RemovalEnds | the GUI and the engine's thread over directories that change, disappear, come back and are exchanged |
| `Control` | TypeOK, ServiceIsReachable, OneTakesCommands, CommandFindsServer, NobodyIsAbandoned, CommandReturns | two processes and two controllers with kills, failed starts and `-e` |
| `WinService` | TypeOK, OneWaiter, StatusIsTrue, PendingIsUnderWay, StopEnds, StartEnds | the three threads with failed starts, waits that run out, starts by hand and the end of the system |
| `Server_stale_index`, `Easysync_endless`, `Control_crash` | one each | the disagreements of section 6 |

Every property of a passing run has a mutant: the definition named in `PROJECT.json` with
a plausible slip (a lost column, an off-by-one, a `>` for a `!=`, a forgotten timer, a
wake-up left out, a flag cleared too early), under which the same run finds the property violated.

Ten more configurations are kept, to be run by hand, for what section 6 notes beside its findings:
`Server_adduser`, `Server_lost_index`, `Server_lost_report`, `Easysync_dropped`, `Client_livelock`, `Client_roger`, `Watcher_lost_quit`,
`Watcher_same_size`, `Control_hasty` and `WinService_startfail`. Each finds its property violated.

### Bounds

* **Sockets, clients**: two sockets are enough for everything two clients can do to each
  other; where nobody leaves there are three, so that a third can be told. Sockets are
  symmetric (not in the liveness runs). That lists of any length stay parallel is proved.
* **`Limit`**: silence is counted in checks. The code disconnects after 12 checks of 5 s; the model
  after `Limit` (1 or 2). Only whether an entry is over the limit is ever used.
* **`MaxLines`, `MaxBusy`, `MaxNotices`**: how many lines are in flight before a client may send
  another one. Lines of different clients are read in every order still, since the lines are
  there to be read in any order; two lines of one client are needed for coalescing
  (`Server_stable`).
* **`MaxShots`**: two pending shots of a kind stand for two or more: a shot's effect does not depend
  on how many are left. **`MaxTrouble`** bounds losses, network changes and restarts to two: "finitely many"
  is what `ReconnectsAgain` supposes. In `EasysyncClient` a ping is sent when what was sent before has been read (they are 60 s
  apart), and two lines may be under way otherwise. `ChangeIsSynced` excepts a unison that could not be started: it never ends.
* **`MaxChanges`**: two changes, of one or of two users: one to be announced, one to fall into
  the synchronisation of the other. **`MaxNotices`** 1 in `Easysync`: an announcement waits for the reader of
  the last one; the program has no such limit, which is why the fairness there is strong.
* **`Paths`**, **`MaxQueue`** (watcher): two directories, so that settings can change and signals of the old one
  are still under way; two signals posted, so that one of a removal can be behind or before one of a change.
  The bound holds back the disk, not the thread.
* **`Daemons`**, **`Controllers`** (Unix): two processes are the least that can take each other's file, two
  controllers the least that can be in each other's way. The theorems hold for any number.
* `QtServiceWin` has no bound: its instance is the system.

### Fairness

Weak fairness, one condition for each thread, process or event loop that the operating system or Qt lets go on:

* the daemon: the keep-alive timer fires and its loop goes on; in `Easysync` new connections and lines are read, and posted signals delivered;
* the client: single shots and `syncTimer` fire, a connection attempt that stays possible comes up, a running unison ends;
* the watcher: the GUI's call goes on, the thread gets its turns;
* Unix: each controller and each process goes on, and each controller's socket is served by the process it talks to;
* Windows: each of the three threads goes on.

Strong fairness in two places. The delivery of a posted signal (`_q_directoryChanged`) is possible between
calls of the watcher, again and again and not steadily, and an event loop that comes back to its queue takes the oldest.
`handleSyncIsFinished` in `Easysync` may be held up, again and again, by the model's bound on lines, of which the program
knows nothing. Nothing is assumed of users, networks, commands or the disk.

## 4. Proofs

Proved with TLAPS, for every value of the constants. Of the daemon (`EasysyncServerProofs`,
`EasysyncRefinementProofs`):

| Theorem | Says | Assumes |
|---|---|---|
| `TypeCorrect` | `Spec => []TypeOK` | |
| `KeepAliveCorrect` | `Spec => []KeepAliveRuns` | |
| `ListsCorrect` | `Spec => []ListsParallel` | `Calm` |
| `OneRowCorrect` | `Spec => []OneRowPerHostname` | `PlainNames` |
| `ReachableCorrect` | `Spec => []ListedClientIsReachable` | `Calm`, `PlainNames`, no `--adduser`, no failing UPDATE of `socket_id` (`unstored`) |
| `RogerCorrect` | `Spec => ReleasedByItsOwnRoger` | `Calm`, no `--adduser` |
| `IndexesCorrect` | `Spec => []StoredIndexIsCurrent` | `NobodyLeaves` |
| `NoticesCorrect` | `Spec => []NoticeNamesItsReader` | `NobodyLeaves` |
| `ToldCorrect` | `Spec => ToldWhenObliged` | `NobodyLeaves`, `PlainNames`, no `--adduser` |
| `BooksCorrect` | `Spec => KeepsTheBooks`: the daemon implements `Propagation!Spec` | `Calm`, `PlainNames`, no `--adduser` |
| `ToldBooksCorrect` | `Spec => TellsWhoOwes`: it implements `Propagation!ToldSpec`, notices included | `NobodyLeaves`, `PlainNames`, no `--adduser` |

Of the daemon and the clients together (`EasysyncProofs`):

| Theorem | Says | Assumes |
|---|---|---|
| `DaemonCorrect` | `SystemSpec => Spec`: the system contains the daemon as it is, and all of the above holds in it | |
| `SystemTypeCorrect` | `SystemSpec => []SystemTypeOK` | |
| `AgreementCorrect` | `SystemSpec => []RestIsAgreement`: agreement on what clients were told of | `NobodyLeaves`, `PlainNames`, no `--adduser` |

Of the others, under every `Env` (`ChangeCorrect`: under every one without "samesize"):

| Module | Theorems |
|---|---|
| `EasysyncClientProofs` | `TypeCorrect`, `RetriesCorrect` (NeverStranded), `ChangesCorrect` (PendingChangeIsCovered), `WatchesCorrect` (IdleClientWatches) |
| `MFileSystemWatcherProofs` | `TypeCorrect`, `InsertionCorrect` (InsertionIsAlone), `WatchedCorrect` (WatchedExactlyWhenListed), `QuitCorrect` (QuitIsUnderWay), `ChangeCorrect` (ChangeIsUnderWay) |
| `QtServiceUnixProofs` | `TypeCorrect`, `ReachableCorrect` (ServiceIsReachable), `OneTakesCorrect` (OneTakesCommands), `FindsServerCorrect` (CommandFindsServer), `AbandonedCorrect` (NobodyIsAbandoned) |
| `QtServiceWinProofs` | `TypeCorrect`, `OneWaiterCorrect` (OneWaiter), `StatusCorrect` (StatusIsTrue), `PendingCorrect` (PendingIsUnderWay) |

`Calm` excludes from `Env` the three events that let `removeAll` take another client's entry: `overlap`,
`sameinstant`, `settings`. `PlainNames` says that no host name holds a quote. `NobodyLeaves` leaves in `Env` only
pauses, coalesced lines, strangers and `--adduser`: `clientDisconnected`, which shifts the lists and no index, does not run for a
listed client (section 6, `Server_stale_index`).

*The daemon.* `TypeOK` and `KeepAliveRuns` are inductive together with `Bookkeeping`: no connection is twice in
`clientConnections` (`NoConnectionTwice`), `clientLastSeen` never outgrows it (`SeenWithinConnections`; with equal instants
it may be shorter, never longer), every listed connection is open or closing (`EnlistedAreOpen`), and a connection
greets once (`GreetsOnce`). The middle two are needed because a check walks `clientLastSeen` and takes from
`clientConnections`, and what it takes must be a connection whose `disconnected()` will run. Under `Calm` one may add
`Alignment`: `ListsParallel`, `HostsApart` (two live sockets have different hosts, which is what makes a removal by *name*
remove one entry) and `LinesNamed` (a line carries the name of its sender). Reachability and Roger follow from
`Alignment`, with the lemmas of `OperatorProofs` on which rows a statement touches. It also proves that
`removeAll` of a value that occurs once removes just that position, which is why parallel lists stay parallel.

*While nobody leaves* one may add `Presence` to `Alignment`: a line is signed with its sender's account (`LinesSigned`), a
listed client is welcome under that account, so no handler refuses it (`ListedAreWelcome`), a notice waits only for listed
clients (`NoticesHaveReaders`), and `StoredIndexIsCurrent` itself. With current indexes, and one row for each host,
`RowOfPosition` leads from each listed position to exactly one row, so the loop of `notifyClients` writes to each client it
finds once (`NotifiedOnce`), which is `ToldWhenObliged`. `TellsWhoOwes` adds that a host has one listed socket at most
(`SocketsApart`), so that the books' `inbox` is the length of that socket's unread lines.

*The refinement.* Table and `peerNames` change only in a greeting, a Roger, a NotifyAll, a disconnection and at the end of the
process (`BookSteps`). For each, the statements on the table are translated into a change of `owes` and `account`
(`OwingAfterSync`, `OwingAfterReport`, `RowsAfterGreeting`), which needs one row for each host; that the host at the connection's
position is the one the line names needs `Alignment`, and that a Roger or a NotifyAll comes from a host that is present
needs `GreetsFirst`. A report whose notices go astray and stop the process has noted what is owed first: that is why
`Report` of the books may end with nobody present.

*Agreement.* It is about the changes in `heard`, those with a delivered signal; what was dropped is not in it, and does break
agreement (section 6, `Easysync_dropped`). `Delivery` follows each of them. Until the daemon has read a report of it, somebody `WillReport` it: has it, and
has `syncTimer` running, or a synchronisation asked for or under way that has found it and will end with NotifyAll, or has put it on the
server and has a NotifyAll in flight. From then on each connected host that lacks it `WillReceive` it: it is on the server, and the
host has a notice to read or a greeting that will be answered with one, or a synchronisation to come or under way that has found it
(`NothingIsKept`, `NobodyIsForgotten`). The step between the two is the reading of a report (`ReportTells`): every other connected host
is listed, and its row is marked and leads to its position (`Reached`, `StoredIndexIsCurrent`, and `RowsAreListed`: a row has the
account of a listed client, hence the one account), or it is not listed yet; then its greeting will enter a row that owes (`NewHostOwes`), as it
will for a host that connects later (`NewcomerIsTold`). When all is quiet nobody will report or receive anything, so nobody
lacks anything that was heard; that an unlisted connection has its greeting still to be read is `GreetsFirst`. What the daemon's part
needs of the daemon comes from the theorems above by `DaemonCorrect`.

*The client.* `NeverStranded` and `IdleClientWatches` are inductive beside `TypeOK`. `PendingChangeIsCovered` follows
from `ChangeIsKept`: a change that no synchronisation has taken is on `syncTimer`, or is noted in `needToSync` while
`syncInProgress`; and unison runs only when `syncInProgress` says so. The second part is needed because `handleSyncIsFinished`
is about the process and `needToSync` about the flag. The reverse fails when unison cannot be started, and that is the
premise of the property.

*The watcher.* While the client has nothing listed the thread has no handle and sleeps on the event alone, and nobody but the
insertion itself will set it (`ThreadSleeps`, with `ThreadIsQuiet` for the time between calls). A thread that is told to quit belongs to a
GUI that waits for it (`QuitsWhenAsked`). Signals of removals name directories without a handle, each once
(`RemovalsApart`), so delivering one takes the right directory out of the list, and a directory added anew is not taken for the old one.
`ChangeIsUnderWay` and `QuitIsUnderWay` are the safety halves of `ChangeIsSignalled` and `RemovalEnds`: at every moment there is
somebody whose next step brings the change, or the `q`, nearer. The change is in a handle, in the thread or in the queue. The thread sleeps on every
handle there is or is about to be woken (`SleepsOnHandles`); a signal that is news is not dropped at its delivery, since its
directory is listed (`NewsIsListed`) until the removal, which is its last signal (`RemovalsLast`). The `q` stays in `msg`, with the event set behind
it, until the thread has read it (`QuitFollowed`); `lostQuit`, the one exception, is the window of `Watcher_lost_quit`.

*Unix.* Everything but the types and `ServingHasServer` holds in the form `hasty \/ Orderly`: one process or one
command is under way at a time (`OneThing`), the file and the listening socket belong to one process or the file to none
(`FileLeadsToListener`), a controller talks to who listens and starts a process only when nobody does
(`TalksToListener`). So whoever removes the file by its name removes its own or one that nobody listens at. `NobodyIsAbandoned`, the safety half of `CommandReturns`, needs none of it and is
inductive by itself: connections go with the process that holds them, in whatever order processes start, end and are killed.

*Windows.* Until `serviceMain` is through with the start, the manager still has START_PENDING and gives no control
(`StartIsAlone`); after a stop it has STOP_PENDING. So there is at most one event, and it is the control of the one thread that waits
(`PostedByWaiter`); the semaphores see to it that it is posted to a handler that exists (`Semaphores`). A failed start is the
exception: `serviceMain` reports RUNNING of a process that is leaving, and a control may meet it then. `StatusIsTrue`
and `PendingIsUnderWay` therefore have `~failed` as their premise (section 6). `PendingIsUnderWay` is the safety
half of `StartEnds` and `StopEnds`: who waits for a semaphore waits for one that is released or about to be, and who waits on the
condition has its event in front of an event loop that runs. It is inductive beside the invariants above.

*Only model-checked.* Liveness (`GoneClientIsRemoved`, `ReconnectsAgain`, `ChangeIsSynced`, `HeardReachesAll`,
`ChangeIsSignalled`, `RemovalEnds`, `CommandReturns`, `StopEnds`, `StartEnds`): fairness and `ENABLED` are out of
the prover's reach. Every invariant and every action property of the passing runs is proved. There is no recursion in the models, so nothing is left to induction over data.

## 5. Not modelled, and why

* Text: wording of lines, logging, the dialog. The two conversions that decide something are modelled by what they
  decide: `sqlQuote` (`Escape`) and the pattern of `getUserInfo` (`Unreadable`).
* Seconds: that a ping every 60 s just fits a limit of "more than 60 s" is below the model's resolution; `late` stands
  for every way in which it does not.
* The watcher's polling engine: `createNativeEngine` always returns the Windows engine, so it is never asked.
  Watches of single files and of several directories: the client asks for one directory.
* What a user changes while the watcher is off (during unison) is in `Easysync`, and in no promise: it is reported with the next
  change only. The same goes for a change whose signal is dropped, although that one was made under watch (section 6,
  `Easysync_dropped`). So the agreement that is checked and proved is one on changes a client was told of. Conflicts and partial
  transfers are unison's.
* Failing statements: those of a greeting, a Roger, a report and a disconnection (`dbfail`, `unstored`, `unnoted`). Those of
  `--adduser` are not modelled; that instance has its own trouble (section 6).
* QtService: installing and removing (`-i`, `-u`), `-v`, the queries of `QSettings`, the description and the event log on
  Windows, `logMessage`. They touch neither the socket, the threads nor the database.
* A client that leaves `Easysync`: what it misses then is in the books (`KeepsTheBooks`), and what a client does on its own in
  `EasysyncClient`; the composition of both is in the plan.
* Set-up and init scripts: no protocol state.

## 6. Where code and documents disagree

* `Server_stale_index`: "Index of every connected client is stored in the database" (`server/dbmanager.h:28`). When a
  client leaves, the later ones move down in the lists and their stored indexes do not. The next change is
  announced to the wrong client, under the wrong name (the client hangs up on it), or beyond the lists.
* `Easysync_endless`: "sends a message that server should notify all other clients about the synchronization
  necessity" (`client/client.cpp:275`). A synchronisation that ends with NotifyAll sends no Roger, so a reporter that owes
  is told of its own report. If the notice comes while its next unison runs, the end of that one begins another, which is
  reported with NotifyAll too; two reports in a row keep each other going without any change. Every change arrives
  all the same (`HeardReachesAll`, `RestIsAgreement`).

* `Control_crash`: "The function does nothing if the service is not running" (`server/qt/qtservice.cpp:369`). When `terminate` and
  `pause` (or `resume`) are read in one round of the event loop, the first deletes the server and the second calls it
  (`server/easysyncservice.cpp:143`).

Observed beside these, each with a configuration to reproduce it:

| Configuration | Property | Where | What |
|---|---|---|---|
| `Server_adduser` | AddUserKeepsHosts | `server/dbmanager.cpp:68` | SQLite reports no result size, so "check that table exists" never finds it and `--adduser` drops table `hosts` |
| `Server_lost_index` | ListedClientIsReachable | `server/dbmanager.cpp:256` | `addHostname` ignores the result of its UPDATE: when it fails the client is listed all the same, with the `socket_id` -1 of its row, and is sent no notice until it greets again ("Index of every connected client is stored in the database", `server/dbmanager.h:28`) |
| `Easysync_dropped` | WatchedReachesAll | `client/client.cpp:290`, `client/qt/mfilesystemwatcher.cpp:351` | a notice that is read before the signal of a change stops the watcher, and the signal is dropped; unison carries the change to the server, the client answers with a Roger, and the other computers are not told ("the last change in the sequence of changes will always generate this signal", `mfilesystemwatcher.cpp:603`) |
| `Server_lost_report` | ReportIsNoted | `server/dbmanager.cpp:129` | the UPDATE of `setNotifyAllExcept` fails unnoticed: the report is read, nobody comes to owe anything and nobody else is told |
| `Client_livelock` | LossHeals | `client/client.cpp:80` | a retry that finds a connection aborts it, and the abort asks for the next retry |
| `Client_roger` | RogerMeansSynced | `client/client.cpp:213` | a notice that comes during a synchronisation is answered by the end of that one |
| `Watcher_lost_quit` | RemovalReturns | `client/qt/mfilesystemwatcher_win.cpp:340` | a `q` written between the reading of `msg` and its clearing is lost, and `wait()` does not return |
| `Watcher_same_size` | ChangeIsSignalled | `client/qt/mfilesystemwatcher_win.cpp:112` | a file rewritten at its size signals nothing: the handle asks for names and sizes |
| `Control_hasty` | RunningServiceIsReachable | `server/qt/qtunixserversocket.cpp:72` | a second start, while the first is under way, takes its socket file away and then leaves with it |
| `WinService_startfail` | StoppedIsFinal | `server/qt/qtservice_win.cpp:605` | the thread that waited for a start that failed reports RUNNING after STOPPED was reported |

## 7. Plan

Done: the daemon with its books and their refinement, the client, the two together, the watcher, and the service on
both systems, with runs and proofs. What is left, in this order:

1. `Easysync` with clients that lose their connections, and `EasysyncClient` in the place of the client program there.
2. The watcher with several directories in one thread, where the unlocked insertion is no longer alone.
