--------------------------- MODULE EasysyncClient ---------------------------
(***************************************************************************)
(* Class Client (client/client.cpp): one client program between its socket *)
(* to the server, the directory it watches, the unison process it runs and *)
(* the user.  Like the daemon it is one event loop; the timers' order is    *)
(* left open, which allows for a connection that takes long to come up.    *)
(*                                                                         *)
(* An operator whose name ends in _Mutant is the one after it with a bug    *)
(* planted, to show that a property notices.                               *)
(***************************************************************************)
EXTENDS Integers, Sequences

CONSTANTS
  Env,          \* what the surroundings may do in this instance
  MaxShots,     \* bound: pending single shots of a kind that are told apart
  MaxTrouble,   \* bound: failures of the connection or the network
  MaxLines      \* bound: lines on their way while the surroundings add more

EnvEvents ==
  { "loss",       \* the connection fails, or fails to come up
    "network",    \* the computer goes offline and online
    "hangup",     \* the server sends a line on which the client hangs up
    "coalesce",   \* lines may arrive together, in one readyRead
    "save",       \* the user saves the settings dialog
    "startfail",  \* the unison program cannot be started
    "quit" }      \* the program is quit, or crashes, and started again

ASSUME ClientAssumption ==
  /\ Env \subseteq EnvEvents
  /\ MaxShots \in Nat \ {0} /\ MaxTrouble \in Nat /\ MaxLines \in Nat \ {0}

VARIABLES
  configured,            \* the settings hold a user name
  online,                \* networkManager->isOnline()
  socket,                \* state of the QTcpSocket
  dials, checks,         \* pending single shots of connectToServer, checkServerConnection
  serverKeepAliveTimer,  \* the timer is active
  watching,              \* the watcher has the directory
  syncTimer,             \* the timer is active
  syncInProgress, needToSync, notifyAllAfterSync,
  unison,                \* the process runs
  icon,                  \* what the tray icon tells
  toServer, toClient,    \* lines written and not yet read
  arrived,               \* how many of toClient lie in the socket's read buffer
  trouble,               \* failures so far
  changed,               \* history: a change was seen and no synchronisation that reports it has begun since
  noticed                \* history: a notice was read and no synchronisation has begun since

link    == << configured, online, socket, dials, checks, serverKeepAliveTimer, trouble >>
sync    == << syncTimer, syncInProgress, needToSync, notifyAllAfterSync, unison >>
lines   == << toServer, toClient, arrived >>
history == << changed, noticed >>
vars    == << link, sync, watching, icon, lines, history >>

\* The socket emits connected() and disconnected() in the call that changes its
\* state, so that member socketReady always tells that state.
socketReady == socket = "connected"

FromServer == {"notice", "refused", "other"}

TypeOK ==
  /\ configured \in BOOLEAN /\ online \in BOOLEAN
  /\ socket \in {"unconnected", "connecting", "connected"}
  /\ dials \in 0 .. MaxShots /\ checks \in 0 .. MaxShots
  /\ serverKeepAliveTimer \in BOOLEAN /\ watching \in BOOLEAN /\ syncTimer \in BOOLEAN
  /\ syncInProgress \in BOOLEAN /\ needToSync \in BOOLEAN /\ notifyAllAfterSync \in BOOLEAN
  /\ unison \in BOOLEAN
  /\ icon \in {"NoConnection", "Connected", "SyncInProgress"}
  /\ toServer \in Seq({"greet", "ping", "roger", "notifyAll"})
  /\ toClient \in Seq(FromServer)
  /\ arrived \in 0 .. Len(toClient)
  /\ trouble \in 0 .. MaxTrouble
  /\ changed \in BOOLEAN /\ noticed \in BOOLEAN

\* The constructor dials when there are settings; otherwise it shows the dialog.
Init ==
  /\ configured \in BOOLEAN /\ online \in BOOLEAN
  /\ socket = IF configured THEN "connecting" ELSE "unconnected"
  /\ dials = 0 /\ checks = IF configured THEN 1 ELSE 0
  /\ serverKeepAliveTimer = FALSE /\ watching = FALSE /\ syncTimer = FALSE
  /\ syncInProgress = FALSE /\ needToSync = FALSE /\ notifyAllAfterSync = FALSE
  /\ unison = FALSE
  /\ icon = "NoConnection"
  /\ toServer = << >> /\ toClient = << >> /\ arrived = 0
  /\ trouble = 0
  /\ changed = FALSE /\ noticed = FALSE

\* The program ends and is started again: whatever it had noticed is forgotten.
Quit ==
  /\ "quit" \in Env /\ trouble < MaxTrouble
  /\ trouble' = trouble + 1
  /\ socket' = IF configured THEN "connecting" ELSE "unconnected"
  /\ dials' = 0 /\ checks' = IF configured THEN 1 ELSE 0
  /\ serverKeepAliveTimer' = FALSE /\ watching' = FALSE /\ syncTimer' = FALSE
  /\ syncInProgress' = FALSE /\ needToSync' = FALSE /\ notifyAllAfterSync' = FALSE
  /\ unison' = FALSE
  /\ icon' = "NoConnection"
  /\ toServer' = << >> /\ toClient' = << >> /\ arrived' = 0
  /\ changed' = FALSE /\ noticed' = FALSE
  /\ UNCHANGED << configured, online >>

-----------------------------------------------------------------------------
(* The connection.                                                         *)

\* One shot more; MaxShots stands for that many or more.
OneMore(shots) == IF shots < MaxShots THEN shots + 1 ELSE shots

BuffersGone == toServer' = << >> /\ toClient' = << >> /\ arrived' = 0

handleSocketDisconnected_NoRetry_Mutant(pending) ==
  /\ serverKeepAliveTimer' = FALSE
  /\ icon' = "NoConnection"
  /\ watching' = FALSE
  /\ dials' = pending

\* pending are the dials before the slot runs.
handleSocketDisconnected(pending) ==
  /\ serverKeepAliveTimer' = FALSE
  /\ icon' = "NoConnection"
  /\ watching' = FALSE
  /\ dials' = IF online' THEN OneMore(pending) ELSE pending

\* abort() drops a connection that is up, and emits disconnected(); connectToHost
\* does nothing to a socket that is connecting.
connectToServer(pending) ==
  /\ socket' = "connecting"
  /\ checks' = OneMore(checks)
  /\ \/ socketReady /\ handleSocketDisconnected(pending) /\ BuffersGone
     \/ ~socketReady /\ dials' = pending /\ UNCHANGED << serverKeepAliveTimer, icon, watching, lines >>

\* The single shot of connectToServer.
Dial ==
  /\ dials > 0
  /\ UNCHANGED << configured, online, trouble, sync, history >>
  /\ connectToServer(dials - 1)

checkServerConnection_Unconnected_Mutant ==
  /\ checks > 0
  /\ checks' = checks - 1
  /\ dials' = IF socket = "unconnected" /\ online THEN OneMore(dials) ELSE dials
  /\ UNCHANGED << configured, online, socket, serverKeepAliveTimer, trouble, sync, watching, icon, lines, history >>

checkServerConnection ==
  /\ checks > 0
  /\ checks' = checks - 1
  /\ dials' = IF ~socketReady /\ online THEN OneMore(dials) ELSE dials
  /\ UNCHANGED << configured, online, socket, serverKeepAliveTimer, trouble, sync, watching, icon, lines, history >>

\* installWatcher, which does nothing while no directory is set.
installWatcher == watching' = configured

\* connected(): the client watches, greets and starts to ping.
handleSocketConnected ==
  /\ socket = "connecting"
  /\ socket' = "connected"
  /\ icon' = "Connected"
  /\ installWatcher
  /\ toServer' = Append(toServer, "greet")
  /\ serverKeepAliveTimer' = TRUE
  /\ UNCHANGED << configured, online, dials, checks, trouble, sync, toClient, arrived, history >>

\* The socket gives up: an error, and no disconnected().
ConnectFails ==
  /\ socket = "connecting"
  /\ \/ ~online /\ UNCHANGED trouble
     \/ "loss" \in Env /\ trouble < MaxTrouble /\ trouble' = trouble + 1
  /\ socket' = "unconnected"
  /\ UNCHANGED << configured, online, dials, checks, serverKeepAliveTimer, sync, watching, icon, lines, history >>

\* The connection goes: closed by the server, by the network, or (readFromServer)
\* by the client.  Every write is flushed, so that nothing holds up the signal.
Closes ==
  /\ UNCHANGED << configured, online, checks, sync, history >>
  /\ socket' = "unconnected"
  /\ handleSocketDisconnected(dials)
  /\ BuffersGone

ConnectionLost ==
  /\ "loss" \in Env /\ trouble < MaxTrouble
  /\ socketReady
  /\ trouble' = trouble + 1
  /\ Closes

onlineStateChanged ==
  /\ "network" \in Env
  /\ online' = ~online
  /\ \/ /\ online /\ trouble < MaxTrouble
        /\ trouble' = trouble + 1
        /\ icon' = "NoConnection"
        /\ watching' = FALSE
        /\ UNCHANGED << socket, dials, checks, serverKeepAliveTimer, lines >>
     \/ /\ ~online
        /\ connectToServer(dials)
        /\ UNCHANGED trouble
  /\ UNCHANGED << configured, sync, history >>

handleSaveButton_NoWatch_Mutant ==
  /\ "save" \in Env
  /\ configured' = TRUE
  /\ watching' = FALSE
  /\ UNCHANGED << online, dials, serverKeepAliveTimer, trouble, sync, icon, lines, history >>
  /\ \/ socketReady /\ UNCHANGED << socket, checks >>
     \/ ~socketReady /\ socket' = "connecting" /\ checks' = OneMore(checks)

\* Save with every field filled in (otherwise it only complains): the watcher is
\* stopped; a client that is connected installs it again, any other calls
\* connectToServer.
handleSaveButton ==
  /\ "save" \in Env
  /\ configured' = TRUE
  /\ watching' = socketReady
  /\ UNCHANGED << online, dials, serverKeepAliveTimer, trouble, sync, icon, lines, history >>
  /\ \/ socketReady /\ UNCHANGED << socket, checks >>
     \/ ~socketReady /\ socket' = "connecting" /\ checks' = OneMore(checks)

\* The keep-alive timer, every 60 s.  (Bound: what was sent before has been read.)
sendKeepAlive ==
  /\ serverKeepAliveTimer /\ socketReady
  /\ toServer = << >>
  /\ toServer' = Append(toServer, "ping")
  /\ UNCHANGED << link, sync, watching, icon, toClient, arrived, history >>

-----------------------------------------------------------------------------
(* Synchronisation.                                                        *)

\* A synchronisation begins.  A program that cannot be started never finishes.
\* unison takes every change up to now along; a change counts as seen to when the
\* server is to be told.
Begins(notifyAll) ==
  /\ syncInProgress' = TRUE
  /\ notifyAllAfterSync' = notifyAll
  /\ icon' = "SyncInProgress"
  /\ watching' = FALSE
  /\ unison' \in {TRUE} \cup (IF "startfail" \in Env THEN {FALSE} ELSE {})
  /\ changed' = (changed /\ ~notifyAll)
  /\ noticed' = FALSE

startSynchronisation_Drops_Mutant(notifyAll, notice) ==
  \/ /\ syncInProgress
     /\ noticed' = (noticed \/ notice)
     /\ UNCHANGED << syncInProgress, needToSync, notifyAllAfterSync, icon, watching, unison, changed >>
  \/ ~syncInProgress /\ Begins(notifyAll) /\ UNCHANGED needToSync

\* notice tells whether a notice of the server's asks for it.
startSynchronisation(notifyAll, notice) ==
  \/ /\ syncInProgress
     /\ needToSync' = TRUE
     /\ noticed' = (noticed \/ notice)
     /\ UNCHANGED << syncInProgress, notifyAllAfterSync, icon, watching, unison, changed >>
  \/ ~syncInProgress /\ Begins(notifyAll) /\ UNCHANGED needToSync

\* directoryChanged(), 200 ms before the synchronisation.
handleDirectoryChanged ==
  /\ watching
  /\ Len(toServer) < MaxLines
  /\ syncTimer' = TRUE
  /\ changed' = TRUE
  /\ UNCHANGED << link, syncInProgress, needToSync, notifyAllAfterSync, unison, watching, icon, lines, noticed >>

handleSyncTimer ==
  /\ syncTimer
  /\ syncTimer' = FALSE
  /\ startSynchronisation(TRUE, FALSE)
  /\ UNCHANGED << link, lines >>

handleSyncIsFinished_Order_Mutant ==
  /\ unison
  /\ toServer' = IF ~socketReady THEN toServer
                 ELSE Append(toServer, IF notifyAllAfterSync THEN "notifyAll" ELSE "roger")
  /\ needToSync' = FALSE
  /\ syncInProgress' = FALSE /\ unison' = FALSE
  /\ icon' = "Connected" /\ installWatcher
  /\ UNCHANGED << notifyAllAfterSync, history >>
  /\ UNCHANGED << link, syncTimer, toClient, arrived >>

\* finished(): the server is told if it can be, and a synchronisation that was
\* asked for in the meantime begins.
handleSyncIsFinished ==
  /\ unison
  /\ toServer' = IF ~socketReady THEN toServer
                 ELSE Append(toServer, IF notifyAllAfterSync THEN "notifyAll" ELSE "roger")
  /\ needToSync' = FALSE
  /\ \/ needToSync /\ Begins(TRUE)
     \/ /\ ~needToSync
        /\ syncInProgress' = FALSE /\ unison' = FALSE
        /\ icon' = "Connected" /\ installWatcher
        /\ UNCHANGED << notifyAllAfterSync, history >>
  /\ UNCHANGED << link, syncTimer, toClient, arrived >>

-----------------------------------------------------------------------------
(* The server's end, and readFromServer.                                   *)

\* The server takes the next line.
ServerReads ==
  /\ toServer # << >>
  /\ toServer' = Tail(toServer)
  /\ UNCHANGED << link, sync, watching, icon, toClient, arrived, history >>

\* The server asks for a synchronisation, or sends a line the client refuses.
ServerSends(line) ==
  /\ socketReady
  /\ Len(toClient) < MaxLines /\ Len(toServer) < MaxLines
  /\ line = "notice" \/ "hangup" \in Env
  /\ toClient' = Append(toClient, line)
  /\ UNCHANGED << link, sync, watching, icon, toServer, arrived, history >>

Takes_Recount_Mutant ==
  /\ socketReady /\ arrived < Len(toClient)
  /\ \E new \in 1 .. Len(toClient) - arrived :
       /\ new = 1 \/ "coalesce" \in Env
       /\ arrived' = arrived + new
  /\ toClient' = Tail(toClient)
  /\ UNCHANGED toServer

\* readyRead says that some lines have arrived; one is taken.
Takes ==
  /\ socketReady /\ arrived < Len(toClient)
  /\ \E new \in 1 .. Len(toClient) - arrived :
       /\ new = 1 \/ "coalesce" \in Env
       /\ arrived' = arrived + new - 1
  /\ toClient' = Tail(toClient)
  /\ UNCHANGED toServer

\* "2. <hostname>, sync is needed.", under the client's own name.
readNotice ==
  /\ Takes /\ Head(toClient) = "notice"
  /\ startSynchronisation(FALSE, TRUE)
  /\ UNCHANGED << link, syncTimer >>

\* A line without an id ("Negative"), or for another host name.
readRefused ==
  /\ socketReady /\ arrived < Len(toClient)
  /\ Head(toClient) = "refused"
  /\ Closes
  /\ UNCHANGED trouble

\* A line with another id.
readIgnored ==
  /\ Takes /\ Head(toClient) = "other"
  /\ UNCHANGED << link, sync, watching, icon, history >>

-----------------------------------------------------------------------------
Next ==
  \/ Quit
  \/ Dial \/ checkServerConnection \/ handleSocketConnected \/ ConnectFails \/ ConnectionLost
  \/ onlineStateChanged \/ handleSaveButton \/ sendKeepAlive
  \/ handleDirectoryChanged \/ handleSyncTimer \/ handleSyncIsFinished
  \/ ServerReads \/ \E line \in FromServer : ServerSends(line)
  \/ readNotice \/ readRefused \/ readIgnored

Spec == Init /\ [][Next]_vars

\* Timers fire, a reachable server accepts, and unison comes to an end.
FairSpec ==
  /\ Spec
  /\ WF_vars(Dial) /\ WF_vars(checkServerConnection) /\ WF_vars(handleSocketConnected)
  /\ WF_vars(handleSyncTimer) /\ WF_vars(handleSyncIsFinished)
-----------------------------------------------------------------------------
(* Properties.                                                             *)

\* A client that could be connected and is not has a shot pending that will see
\* to it: however checks, dials, aborts and signals of the network interleave, the
\* chain of retries is never broken.
NeverStranded == configured /\ online /\ ~socketReady => dials > 0 \/ checks > 0

\* A change the watcher has reported is not forgotten: until a synchronisation
\* begins that will be reported to the server, the timer runs or the unison that is
\* running will be followed by another.  (Only a unison that could not be started
\* is in the way: nothing ends that synchronisation.)
PendingChangeIsCovered ==
  changed /\ (syncInProgress => unison) => syncTimer \/ (needToSync /\ unison)

\* A connected, idle client with settings watches its directory: no mix of reconnections, saved
\* settings and synchronisations leaves it with the watcher stopped.
IdleClientWatches == configured /\ socketReady /\ online /\ ~syncInProgress => watching

\* Once the network stays up, the client is connected again and again.
ReconnectsAgain == <>[](online /\ configured) => []<>socketReady

\* Every change the watcher has reported is followed by a synchronisation that
\* is meant to be reported to the server, unless one could not be started before:
\* that one never ends.
ChangeIsSynced == changed ~> ~changed \/ (syncInProgress /\ ~unison)

\* "try to reconnect in case some accidental connection loss" (client.cpp,
\* handleSocketDisconnected): in the end the client stays connected.
LossHeals == <>[](online /\ configured) => <>[]socketReady

\* "The answer of a client signals server, that synchronization is over"
\* (easysyncserver.cpp, the protocol): no notice is left unserved when it is sent.
RogerMeansSynced ==
  [][handleSyncIsFinished /\ socketReady /\ ~notifyAllAfterSync => ~noticed]_vars
=============================================================================
