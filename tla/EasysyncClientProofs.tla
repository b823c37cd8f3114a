------------------------- MODULE EasysyncClientProofs -------------------------
(***************************************************************************)
(* Proofs about EasysyncClient.  Everything here holds for every Env: for  *)
(* all that the server, the network, the user and unison may do.           *)
(***************************************************************************)
EXTENDS EasysyncClient, SequenceTheorems, TLAPS

USE ClientAssumption DEF EnvEvents

LEMMA OneMoreType ==
  ASSUME NEW shots \in 0 .. MaxShots
  PROVE  OneMore(shots) \in 1 .. MaxShots
BY DEF OneMore

LEMMA TailType ==
  ASSUME NEW S, NEW s \in Seq(S), s # << >>
  PROVE  Tail(s) \in Seq(S) /\ Len(Tail(s)) = Len(s) - 1 /\ Len(s) > 0
BY HeadTailProperties, EmptySeq

LEMMA BuffersGoneType ==
  ASSUME BuffersGone
  PROVE  /\ toServer' \in Seq({"greet", "ping", "roger", "notifyAll"})
         /\ toClient' \in Seq(FromServer)
         /\ arrived' \in 0 .. Len(toClient')
BY DEF BuffersGone

-----------------------------------------------------------------------------
(* Types.                                                                  *)

\* What the slot of disconnected() leaves behind.
LEMMA DisconnectedType ==
  ASSUME TypeOK, online' \in BOOLEAN, NEW pending \in 0 .. MaxShots, handleSocketDisconnected(pending)
  PROVE  /\ serverKeepAliveTimer' = FALSE /\ watching' = FALSE
         /\ icon' = "NoConnection"
         /\ dials' \in 0 .. MaxShots
         /\ online' => dials' > 0
BY OneMoreType DEF handleSocketDisconnected

\* connectToServer keeps the types of all it touches.
LEMMA ConnectType ==
  ASSUME TypeOK, online' \in BOOLEAN, NEW pending \in 0 .. MaxShots, connectToServer(pending)
  PROVE  /\ socket' = "connecting"
         /\ checks' \in 1 .. MaxShots /\ dials' \in 0 .. MaxShots
         /\ serverKeepAliveTimer' \in BOOLEAN /\ watching' \in BOOLEAN
         /\ icon' \in {"NoConnection", "Connected", "SyncInProgress"}
         /\ toServer' \in Seq({"greet", "ping", "roger", "notifyAll"})
         /\ toClient' \in Seq(FromServer)
         /\ arrived' \in 0 .. Len(toClient')
<1>1. socket' = "connecting" /\ checks' \in 1 .. MaxShots
  BY OneMoreType DEF connectToServer, TypeOK
<1>2. CASE socketReady /\ handleSocketDisconnected(pending) /\ BuffersGone
  BY <1>1, <1>2, DisconnectedType, BuffersGoneType
<1>3. CASE ~socketReady /\ dials' = pending /\ UNCHANGED << serverKeepAliveTimer, icon, watching, lines >>
  BY <1>1, <1>3 DEF TypeOK, lines
<1>4. QED
  BY <1>2, <1>3 DEF connectToServer

\* The end of a connection.
LEMMA ClosesType ==
  ASSUME TypeOK, Closes, trouble' \in 0 .. MaxTrouble
  PROVE  TypeOK' /\ socket' = "unconnected" /\ (online' => dials' > 0)
<1>1. online' \in BOOLEAN /\ dials \in 0 .. MaxShots
  BY DEF Closes, TypeOK
<1>2. handleSocketDisconnected(dials)
  BY DEF Closes
<1>3. QED
  BY <1>1, <1>2, DisconnectedType, BuffersGoneType DEF Closes, TypeOK, sync, history

\* The start of a synchronisation, or its request.
LEMMA StartType ==
  ASSUME TypeOK, NEW notifyAll \in BOOLEAN, NEW notice \in BOOLEAN, startSynchronisation(notifyAll, notice)
  PROVE  /\ syncInProgress' \in BOOLEAN /\ needToSync' \in BOOLEAN /\ notifyAllAfterSync' \in BOOLEAN
         /\ icon' \in {"NoConnection", "Connected", "SyncInProgress"}
         /\ watching' \in BOOLEAN /\ unison' \in BOOLEAN
         /\ changed' \in BOOLEAN /\ noticed' \in BOOLEAN
BY DEF startSynchronisation, Begins, TypeOK

\* A line is taken from the socket.
LEMMA TakesType ==
  ASSUME TypeOK, Takes
  PROVE  /\ toServer' = toServer
         /\ toClient' \in Seq(FromServer)
         /\ arrived' \in 0 .. Len(toClient')
<1>1. toClient # << >>
  BY EmptySeq DEF Takes, TypeOK
<1>2. toClient' \in Seq(FromServer) /\ Len(toClient') = Len(toClient) - 1
  BY <1>1, TailType DEF Takes, TypeOK
<1>3. QED
  BY <1>2 DEF Takes, TypeOK

LEMMA TypeInit == Init => TypeOK
<1> SUFFICES ASSUME Init PROVE TypeOK
  OBVIOUS
<1>1. toServer \in Seq({"greet", "ping", "roger", "notifyAll"}) /\ toClient \in Seq(FromServer)
  BY DEF Init
<1>2. arrived \in 0 .. Len(toClient) /\ trouble \in 0 .. MaxTrouble
  BY DEF Init
<1>3. dials \in 0 .. MaxShots /\ checks \in 0 .. MaxShots
  BY DEF Init
<1>4. QED
  BY <1>1, <1>2, <1>3 DEF Init, TypeOK

LEMMA TypeNext == TypeOK /\ [Next]_vars => TypeOK'
<1> SUFFICES ASSUME TypeOK, [Next]_vars PROVE TypeOK'
  OBVIOUS
<1>1. CASE Quit
  <2>1. toServer' \in Seq({"greet", "ping", "roger", "notifyAll"}) /\ toClient' \in Seq(FromServer)
    BY <1>1 DEF Quit
  <2>2. arrived' \in 0 .. Len(toClient') /\ trouble' \in 0 .. MaxTrouble
    BY <1>1 DEF Quit, TypeOK
  <2>3. dials' \in 0 .. MaxShots /\ checks' \in 0 .. MaxShots
    BY <1>1 DEF Quit
  <2>4. QED
    BY <1>1, <2>1, <2>2, <2>3 DEF Quit, TypeOK
<1>2. CASE Dial
  <2>1. online' \in BOOLEAN /\ dials - 1 \in 0 .. MaxShots
    BY <1>2 DEF Dial, TypeOK
  <2>2. connectToServer(dials - 1)
    BY <1>2 DEF Dial
  <2>3. QED
    BY <1>2, <2>1, <2>2, ConnectType DEF Dial, TypeOK, sync, history
<1>3. CASE checkServerConnection
  BY <1>3, OneMoreType DEF checkServerConnection, TypeOK, sync, lines, history
<1>4. CASE handleSocketConnected
  <2>1. toServer' \in Seq({"greet", "ping", "roger", "notifyAll"})
    BY <1>4, AppendProperties DEF handleSocketConnected, TypeOK
  <2>2. QED
    BY <1>4, <2>1 DEF handleSocketConnected, installWatcher, TypeOK, sync, history
<1>5. CASE ConnectFails
  BY <1>5 DEF ConnectFails, TypeOK, sync, lines, history
<1>6. CASE ConnectionLost
  BY <1>6, ClosesType DEF ConnectionLost, TypeOK
<1>7. CASE onlineStateChanged
  <2>1. CASE online
    <3>1. /\ online' = FALSE /\ icon' = "NoConnection" /\ watching' = FALSE
          /\ UNCHANGED << configured, socket, dials, checks, serverKeepAliveTimer, lines, sync, history >>
      BY <1>7, <2>1 DEF onlineStateChanged
    <3>2. trouble' \in 0 .. MaxTrouble
      BY <1>7, <2>1 DEF onlineStateChanged, TypeOK
    <3>3. QED
      BY <3>1, <3>2 DEF TypeOK, sync, lines, history
  <2>2. CASE ~online
    <3>1. connectToServer(dials) /\ online' \in BOOLEAN
      BY <1>7, <2>2 DEF onlineStateChanged
    <3>2. QED
      BY <1>7, <2>2, <3>1, ConnectType DEF onlineStateChanged, TypeOK, sync, history
  <2>3. QED
    BY <2>1, <2>2
<1>8. CASE handleSaveButton
  <2>1. /\ configured' \in BOOLEAN /\ watching' \in BOOLEAN
        /\ UNCHANGED << online, dials, serverKeepAliveTimer, trouble, sync, icon, lines, history >>
    BY <1>8 DEF handleSaveButton, socketReady
  <2>2. socket' \in {"unconnected", "connecting", "connected"} /\ checks' \in 0 .. MaxShots
    <3>1. checks \in 0 .. MaxShots /\ socket \in {"unconnected", "connecting", "connected"}
      BY DEF TypeOK
    <3>2. OneMore(checks) \in 0 .. MaxShots
      BY <3>1, OneMoreType
    <3>3. QED
      BY <1>8, <3>1, <3>2 DEF handleSaveButton
  <2>3. QED
    BY <2>1, <2>2 DEF TypeOK, sync, lines, history
<1>9. CASE sendKeepAlive
  <2>1. toServer' \in Seq({"greet", "ping", "roger", "notifyAll"})
    BY <1>9, AppendProperties DEF sendKeepAlive, TypeOK
  <2>2. QED
    BY <1>9, <2>1 DEF sendKeepAlive, TypeOK, link, sync, history
<1>10. CASE handleDirectoryChanged
  BY <1>10 DEF handleDirectoryChanged, TypeOK, link, lines
<1>11. CASE handleSyncTimer
  BY <1>11, StartType DEF handleSyncTimer, TypeOK, link, lines
<1>12. CASE handleSyncIsFinished
  <2>1. toServer' \in Seq({"greet", "ping", "roger", "notifyAll"})
    BY <1>12, AppendProperties DEF handleSyncIsFinished, TypeOK
  <2>2. QED
    BY <1>12, <2>1 DEF handleSyncIsFinished, Begins, installWatcher, TypeOK, link, history
<1>13. CASE ServerReads
  <2>1. toServer' \in Seq({"greet", "ping", "roger", "notifyAll"})
    BY <1>13, TailType DEF ServerReads, TypeOK
  <2>2. QED
    BY <1>13, <2>1 DEF ServerReads, TypeOK, link, sync, history
<1>14. ASSUME NEW line \in FromServer, ServerSends(line)
       PROVE  TypeOK'
  <2>1. toClient' \in Seq(FromServer) /\ Len(toClient') = Len(toClient) + 1
    BY <1>14, AppendProperties DEF ServerSends, TypeOK
  <2>2. QED
    BY <1>14, <2>1 DEF ServerSends, TypeOK, link, sync, history
<1>15. CASE readNotice
  BY <1>15, StartType, TakesType DEF readNotice, TypeOK, link
<1>16. CASE readRefused
  BY <1>16, ClosesType DEF readRefused, TypeOK
<1>17. CASE readIgnored
  BY <1>17, TakesType DEF readIgnored, TypeOK, link, sync, history
<1>18. CASE UNCHANGED vars
  BY <1>18 DEF vars, link, sync, lines, history, TypeOK
<1>19. QED
  BY <1>1, <1>2, <1>3, <1>4, <1>5, <1>6, <1>7, <1>8, <1>9, <1>10, <1>11, <1>12, <1>13,
     <1>14, <1>15, <1>16, <1>17, <1>18 DEF Next

\* Whatever server, network, user and unison do, every variable of the client
\* keeps its type.
THEOREM TypeCorrect == Spec => []TypeOK
<1>1. QED
  BY TypeInit, TypeNext, PTL DEF Spec

-----------------------------------------------------------------------------
(* The chain of retries.                                                   *)

\* connectToServer leaves a check pending; a connection that closes while the
\* network is there leaves a dial pending; a check that finds no connection
\* leaves a dial.  No other step ends a connection or takes a shot away.
LEMMA StrandedNext == TypeOK /\ NeverStranded /\ [Next]_vars => NeverStranded'
<1> SUFFICES ASSUME TypeOK, NeverStranded, [Next]_vars PROVE NeverStranded'
  OBVIOUS
<1> USE DEF NeverStranded, socketReady
<1>1. CASE Quit
  BY <1>1 DEF Quit
<1>2. ASSUME NEW pending \in 0 .. MaxShots, online' \in BOOLEAN, connectToServer(pending)
      PROVE  NeverStranded'
  BY <1>2, ConnectType
<1>3. ASSUME Closes, trouble' \in 0 .. MaxTrouble
      PROVE  NeverStranded'
  BY <1>3, ClosesType
<1>4. CASE Dial
  BY <1>2, <1>4 DEF Dial, TypeOK
<1>5. CASE checkServerConnection
  BY <1>5, OneMoreType DEF checkServerConnection, TypeOK
<1>6. CASE handleSocketConnected
  BY <1>6 DEF handleSocketConnected
<1>7. CASE ConnectFails
  BY <1>7 DEF ConnectFails
<1>8. CASE ConnectionLost
  BY <1>3, <1>8 DEF ConnectionLost, TypeOK
<1>9. CASE onlineStateChanged
  BY <1>2, <1>9 DEF onlineStateChanged, TypeOK
<1>10. CASE handleSaveButton
  BY <1>10, OneMoreType DEF handleSaveButton, TypeOK
<1>11. CASE readRefused
  BY <1>3, <1>11 DEF readRefused, TypeOK
<1>12. CASE UNCHANGED link
  BY <1>12 DEF link
<1>13. QED
  BY <1>1, <1>4, <1>5, <1>6, <1>7, <1>8, <1>9, <1>10, <1>11, <1>12
     DEF Next, vars, sendKeepAlive, handleDirectoryChanged, handleSyncTimer, handleSyncIsFinished,
         ServerReads, ServerSends, readNotice, readIgnored

\* As long as there are settings and a network, a client that is not connected has
\* a shot pending that will connect it.
THEOREM RetriesCorrect == Spec => []NeverStranded
<1>1. Init => NeverStranded
  BY DEF Init, NeverStranded
<1>2. QED
  BY <1>1, TypeInit, TypeNext, StrandedNext, PTL DEF Spec

-----------------------------------------------------------------------------
(* Changes, and the watcher.                                               *)

\* What PendingChangeIsCovered rests on: a change that no synchronisation has taken
\* is on the timer, or is noted for the end of the synchronisation under way; and
\* unison runs only for a synchronisation.
ChangeIsKept ==
  /\ changed => syncTimer \/ (needToSync /\ syncInProgress)
  /\ unison => syncInProgress

LEMMA KeptNext == TypeOK /\ ChangeIsKept /\ [Next]_vars => ChangeIsKept'
<1> SUFFICES ASSUME TypeOK, ChangeIsKept, [Next]_vars PROVE ChangeIsKept'
  OBVIOUS
<1> USE DEF ChangeIsKept
<1>1. CASE Quit
  BY <1>1 DEF Quit
<1>2. CASE handleDirectoryChanged
  BY <1>2 DEF handleDirectoryChanged
<1>3. CASE handleSyncTimer
  <2>1. CASE syncInProgress
    BY <1>3, <2>1 DEF handleSyncTimer, startSynchronisation
  <2>2. CASE ~syncInProgress
    <3>1. syncInProgress' /\ ~changed'
      BY <1>3, <2>2 DEF handleSyncTimer, startSynchronisation, Begins
    <3>2. QED
      BY <3>1
  <2>3. QED
    BY <2>1, <2>2
<1>4. CASE handleSyncIsFinished
  <2>1. CASE needToSync
    <3>1. syncInProgress' /\ ~changed'
      BY <1>4, <2>1 DEF handleSyncIsFinished, Begins
    <3>2. QED
      BY <3>1
  <2>2. CASE ~needToSync
    <3>1. changed' = changed /\ syncTimer' = syncTimer /\ unison' = FALSE
      BY <1>4, <2>2 DEF handleSyncIsFinished, history
    <3>2. QED
      BY <2>2, <3>1
  <2>3. QED
    BY <2>1, <2>2
<1>5. CASE readNotice
  <2>1. CASE syncInProgress
    BY <1>5, <2>1 DEF readNotice, startSynchronisation
  <2>2. CASE ~syncInProgress
    <3>1. /\ syncInProgress' /\ syncTimer' = syncTimer
          /\ changed' => changed
      BY <1>5, <2>2 DEF readNotice, startSynchronisation, Begins
    <3>2. QED
      BY <2>2, <3>1
  <2>3. QED
    BY <2>1, <2>2
<1>6. CASE UNCHANGED << sync, history >>
  BY <1>6 DEF sync, history
<1>7. QED
  BY <1>1, <1>2, <1>3, <1>4, <1>5, <1>6
     DEF Next, vars, Dial, checkServerConnection, handleSocketConnected, ConnectFails, ConnectionLost, Closes,
         onlineStateChanged, handleSaveButton, sendKeepAlive, ServerReads, ServerSends, readRefused, readIgnored

\* No order of changes, notices, reconnections, saved settings and ends of unison
\* makes the client forget a change it has seen.
THEOREM ChangesCorrect == Spec => []PendingChangeIsCovered
<1>1. Init => ChangeIsKept
  BY DEF Init, ChangeIsKept
<1>2. ChangeIsKept => PendingChangeIsCovered
  BY DEF ChangeIsKept, PendingChangeIsCovered
<1>3. QED
  BY <1>1, <1>2, TypeInit, TypeNext, KeptNext, PTL DEF Spec

LEMMA WatchesNext == TypeOK /\ IdleClientWatches /\ [Next]_vars => IdleClientWatches'
<1> SUFFICES ASSUME TypeOK, IdleClientWatches, [Next]_vars PROVE IdleClientWatches'
  OBVIOUS
<1> USE DEF IdleClientWatches, socketReady
<1>1. CASE Quit
  BY <1>1 DEF Quit
<1>2. CASE Dial
  BY <1>2 DEF Dial, connectToServer
<1>3. CASE checkServerConnection
  BY <1>3 DEF checkServerConnection, sync
<1>4. CASE handleSocketConnected
  BY <1>4 DEF handleSocketConnected, installWatcher
<1>5. CASE ConnectFails
  BY <1>5 DEF ConnectFails
<1>6. CASE ConnectionLost \/ readRefused
  BY <1>6 DEF ConnectionLost, readRefused, Closes
<1>7. CASE onlineStateChanged
  BY <1>7 DEF onlineStateChanged, connectToServer
<1>8. CASE handleSaveButton
  BY <1>8 DEF handleSaveButton, sync
<1>9. CASE handleSyncTimer
  <2>1. CASE syncInProgress
    BY <1>9, <2>1 DEF handleSyncTimer, startSynchronisation, link
  <2>2. CASE ~syncInProgress
    BY <1>9, <2>2 DEF handleSyncTimer, startSynchronisation, Begins
  <2>3. QED
    BY <2>1, <2>2
<1>10. CASE handleSyncIsFinished
  BY <1>10 DEF handleSyncIsFinished, Begins, installWatcher, link
<1>11. CASE readNotice
  <2>1. CASE syncInProgress
    BY <1>11, <2>1 DEF readNotice, startSynchronisation, link
  <2>2. CASE ~syncInProgress
    BY <1>11, <2>2 DEF readNotice, startSynchronisation, Begins
  <2>3. QED
    BY <2>1, <2>2
<1>12. CASE UNCHANGED << link, watching, syncInProgress >>
  BY <1>12 DEF link
<1>13. QED
  BY <1>1, <1>2, <1>3, <1>4, <1>5, <1>6, <1>7, <1>8, <1>9, <1>10, <1>11, <1>12
     DEF Next, vars, sync, sendKeepAlive, handleDirectoryChanged, ServerReads, ServerSends, readIgnored

\* A client that has settings, is connected and does nothing watches.
THEOREM WatchesCorrect == Spec => []IdleClientWatches
<1>1. Init => IdleClientWatches
  BY DEF Init, IdleClientWatches, socketReady
<1>2. QED
  BY <1>1, TypeInit, TypeNext, WatchesNext, PTL DEF Spec
=============================================================================
