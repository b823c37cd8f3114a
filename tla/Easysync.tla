------------------------------ MODULE Easysync ------------------------------
(***************************************************************************)
(* The daemon and its clients together: EasysyncServer's actions, and at   *)
(* the other end of each connection a client program that sends and reads  *)
(* as client/client.cpp does, over files that unison carries to and from   *)
(* the directory on the server.  What the two promise together is that a   *)
(* change of which one client has been told comes to every computer, and   *)
(* that the exchange it causes comes to an end.                            *)
(*                                                                         *)
(* Here every client stays once it has connected: module EasysyncServer    *)
(* has what becomes of the daemon's books otherwise, and EasysyncClient    *)
(* what becomes of the client.                                             *)
(*                                                                         *)
(* An operator whose name ends in _Mutant is the one after it with a bug    *)
(* planted, to show that a property notices.                               *)
(***************************************************************************)
EXTENDS EasysyncServer

CONSTANT MaxChanges   \* bound: changes the users make

\* A host runs one client program, and the directory on the server is that of one
\* account, which all of them have.
ASSUME EasysyncAssumption ==
  /\ MaxChanges \in Nat
  /\ \A one, other \in Clients :
       /\ one.host = other.host => one = other
       /\ one.user = other.user

VARIABLES
  syncTimer, syncInProgress, needToSync, notifyAllAfterSync,   \* members of each host's Client
  signal,     \* a directoryChanged() is posted and has not been delivered
  files,      \* the changes that are in each host's directory
  store,      \* the changes that are in the directory on the server
  scanned,    \* what the unison that runs on a host has found on either side
  changes,    \* how many changes have been made
  watched,    \* history: the changes that were made under watch
  heard       \* history: what was in a directory when its client was told of a change

program == << syncTimer, syncInProgress, needToSync, notifyAllAfterSync >>
data    == << signal, files, store, scanned, changes, watched, heard >>
system  == << vars, program, data >>

Changes == 1 .. MaxChanges

SystemTypeOK ==
  /\ TypeOK
  /\ \A flags \in {syncTimer, syncInProgress, needToSync, notifyAllAfterSync} : flags \in [Hostnames -> BOOLEAN]
  /\ files \in [Hostnames -> SUBSET Changes] /\ store \subseteq Changes
  /\ scanned \in [Hostnames -> SUBSET Changes]
  /\ changes \in 0 .. MaxChanges
  /\ signal \in [Hostnames -> BOOLEAN]
  /\ watched \subseteq Changes /\ heard \subseteq Changes

SystemInit ==
  /\ Init
  /\ syncTimer = [h \in Hostnames |-> FALSE] /\ syncInProgress = [h \in Hostnames |-> FALSE]
  /\ needToSync = [h \in Hostnames |-> FALSE] /\ notifyAllAfterSync = [h \in Hostnames |-> FALSE]
  /\ files = [h \in Hostnames |-> {}] /\ store = {}
  /\ scanned = [h \in Hostnames |-> {}]
  /\ changes = 0
  /\ signal = [h \in Hostnames |-> FALSE]
  /\ watched = {} /\ heard = {}

-----------------------------------------------------------------------------
(* The client program of host h, whose connection is c.                    *)

Online(c, h) == sock[c] \in {"queued", "open"} /\ alive[c] /\ peer[c].host = h

\* installWatcher and stopWatcher: a connected client watches while it is idle.
Watching(h) == (\E c \in Sockets : Online(c, h)) /\ ~syncInProgress[h]

\* unison looks at both sides and then carries over what it has found.
Begins(h, notifyAll) ==
  /\ syncInProgress' = [syncInProgress EXCEPT ![h] = TRUE]
  /\ notifyAllAfterSync' = [notifyAllAfterSync EXCEPT ![h] = notifyAll]
  /\ scanned' = [scanned EXCEPT ![h] = files'[h] \cup store']

startSynchronisation_Drops_Mutant(h, notifyAll) ==
  \/ syncInProgress[h] /\ UNCHANGED << syncInProgress, notifyAllAfterSync, needToSync, scanned >>
  \/ ~syncInProgress[h] /\ Begins(h, notifyAll) /\ UNCHANGED needToSync

startSynchronisation(h, notifyAll) ==
  \/ /\ syncInProgress[h]
     /\ needToSync' = [needToSync EXCEPT ![h] = TRUE]
     /\ UNCHANGED << syncInProgress, notifyAllAfterSync, scanned >>
  \/ ~syncInProgress[h] /\ Begins(h, notifyAll) /\ UNCHANGED needToSync

\* A user changes something in the directory of a host, at any time.  The watcher's
\* thread posts a signal to the client, if the directory is watched.  Several
\* signals are one: the first that is delivered finds all that has been changed.
Change(h) ==
  /\ changes < MaxChanges
  /\ changes' = changes + 1
  /\ files' = [files EXCEPT ![h] = @ \cup {changes'}]
  /\ signal' = [signal EXCEPT ![h] = @ \/ Watching(h)]
  /\ watched' = IF Watching(h) THEN watched \cup {changes'} ELSE watched
  /\ UNCHANGED << vars, program, store, scanned, heard >>

\* The signal is delivered.  _q_directoryChanged passes it on if the directory is
\* still listed, or listed again.
handleDirectoryChanged(h) ==
  /\ signal[h] /\ Watching(h)
  /\ signal' = [signal EXCEPT ![h] = FALSE]
  /\ syncTimer' = [syncTimer EXCEPT ![h] = TRUE]
  /\ heard' = heard \cup files[h]
  /\ UNCHANGED << vars, syncInProgress, needToSync, notifyAllAfterSync, files, store, scanned, changes, watched >>

\* ... and drops it if stopWatcher has come first.
_q_directoryChanged(h) ==
  /\ signal[h] /\ ~Watching(h)
  /\ signal' = [signal EXCEPT ![h] = FALSE]
  /\ UNCHANGED << vars, program, files, store, scanned, changes, watched, heard >>

handleSyncTimer(h) ==
  /\ syncTimer[h]
  /\ syncTimer' = [syncTimer EXCEPT ![h] = FALSE]
  /\ UNCHANGED << vars, signal, files, store, changes, watched, heard >>
  /\ startSynchronisation(h, TRUE)

readFromServer(c, h) ==
  /\ Online(c, h)
  /\ toClient[c] # << >> /\ Head(toClient[c]) = h
  /\ ReadNotice(c)
  /\ UNCHANGED << syncTimer, signal, files, store, changes, watched, heard >>
  /\ startSynchronisation(h, FALSE)

handleSyncIsFinished_Quiet_Mutant(c, h) ==
  /\ Online(c, h) /\ syncInProgress[h]
  /\ Send(c, IF notifyAllAfterSync[h] THEN "notifyAll" ELSE "roger")
  /\ files' = [files EXCEPT ![h] = @ \cup scanned[h]]
  /\ store' = store \cup scanned[h]
  /\ needToSync' = [needToSync EXCEPT ![h] = FALSE]
  /\ \/ needToSync[h] /\ Begins(h, FALSE)
     \/ /\ ~needToSync[h]
        /\ syncInProgress' = [syncInProgress EXCEPT ![h] = FALSE]
        /\ UNCHANGED << notifyAllAfterSync, scanned >>
  /\ UNCHANGED << syncTimer, signal, changes, watched, heard >>

\* unison ends, the server is told, and a synchronisation that was asked for in
\* the meantime begins.
handleSyncIsFinished(c, h) ==
  /\ Online(c, h) /\ syncInProgress[h]
  /\ Send(c, IF notifyAllAfterSync[h] THEN "notifyAll" ELSE "roger")
  /\ files' = [files EXCEPT ![h] = @ \cup scanned[h]]
  /\ store' = store \cup scanned[h]
  /\ needToSync' = [needToSync EXCEPT ![h] = FALSE]
  /\ \/ needToSync[h] /\ Begins(h, TRUE)
     \/ /\ ~needToSync[h]
        /\ syncInProgress' = [syncInProgress EXCEPT ![h] = FALSE]
        /\ UNCHANGED << notifyAllAfterSync, scanned >>
  /\ UNCHANGED << syncTimer, signal, changes, watched, heard >>

ClientStep(c, h) == readFromServer(c, h) \/ handleSyncIsFinished(c, h)

\* The steps of a host that no connection takes part in.
LocalStep(h) == Change(h) \/ handleDirectoryChanged(h) \/ _q_directoryChanged(h) \/ handleSyncTimer(h)

-----------------------------------------------------------------------------
(* The daemon.                                                             *)

Joins(c, client) == Connect(c, client) /\ UNCHANGED << program, data >>

Accepts == handleNewConnection /\ UNCHANGED << program, data >>

readClient(c) ==
  /\ readGreeting(c) \/ readRoger(c) \/ readNotifyAll(c)
  /\ UNCHANGED << program, data >>

SystemNext ==
  \/ Accepts
  \/ \E c \in Sockets :
       \/ \E client \in Clients : Joins(c, client)
       \/ readClient(c)
       \/ \E h \in Hostnames : ClientStep(c, h)
  \/ \E h \in Hostnames : LocalStep(h)

SystemSpec == SystemInit /\ [][SystemNext]_system

\* The daemon reads what has arrived, timers fire, posted signals are delivered,
\* clients read what they are sent, and every unison comes to an end.  (Strong
\* fairness there: the bound on unread notices may hold it up, of which the program
\* knows nothing.)
FairSystemSpec ==
  /\ SystemSpec
  /\ WF_system(Accepts)
  /\ \A c \in Sockets :
       /\ WF_system(readClient(c))
       /\ WF_system(\E h \in Hostnames : readFromServer(c, h))
       /\ SF_system(\E h \in Hostnames : handleSyncIsFinished(c, h))
  /\ \A h \in Hostnames :
       /\ WF_system(handleSyncTimer(h))
       /\ WF_system(handleDirectoryChanged(h) \/ _q_directoryChanged(h))
-----------------------------------------------------------------------------
(* Properties.                                                             *)

Here(h) == \E c \in Sockets : Online(c, h)

\* Nobody has anything left to do.
Quiet ==
  /\ \A c \in Sockets : toServer[c] = << >> /\ toClient[c] = << >>
  /\ \A h \in Hostnames : ~signal[h] /\ ~syncTimer[h] /\ ~syncInProgress[h]

\* Whenever the exchange has come to rest, what some client has been told of is on
\* the server and on every connected computer: no order of changes, signals,
\* synchronisations, notices and answers, and no computer that joins in the middle,
\* leaves any of it behind.  What no client was told of is not meant: it was made
\* while the watcher was off, or its signal was dropped.
RestIsAgreement ==
  Quiet => heard \subseteq store /\ \A h \in Hostnames : Here(h) => heard \subseteq files[h]

\* In the end all of it has come to every connected computer, also when the
\* exchange goes on for ever.
HeardReachesAll == <>[](\A h \in Hostnames : Here(h) => heard \subseteq files[h])

\* "The last change in the sequence of changes will always generate this signal"
\* (mfilesystemwatcher.cpp): what is changed under watch comes to every connected
\* computer.
WatchedReachesAll == Quiet => \A h \in Hostnames : Here(h) => watched \subseteq files[h]

\* "sends a message that server should notify all other clients" (client.cpp,
\* startSynchronisation): what a change causes is a synchronisation of each of the
\* others, after which there is rest.
ExchangeEnds == <>[]Quiet
=============================================================================
