-------------------------- MODULE QtServiceUnixProofs --------------------------
(***************************************************************************)
(* Invariants of the daemon's life on Unix, for any processes and under     *)
(* every Env.  The argument: while nobody is hasty one command or one       *)
(* process is under way at a time, so that whoever removes the socket file  *)
(* removes its own or one that nobody listens at.                           *)
(***************************************************************************)
EXTENDS QtServiceUnix, TLAPS

Moving(d) == daemon[d] \notin {"none", "serving"}

Busy(c) == ctl[c].pc # "idle"

\* A process serves as long as it has its server, whoever is hasty.
ServingHasServer == \A d \in Daemons : daemon[d] = "serving" <=> server[d] = "running"

\* One thing at a time.
OneThing ==
  /\ \A d, e \in Daemons : Moving(d) /\ Moving(e) => d = e
  /\ \A b, c \in Controllers : Busy(b) /\ Busy(c) => b = c
  /\ \A c \in Controllers, d \in Daemons : ~(Busy(c) /\ Moving(d))

\* The file and the listening socket belong to one process.
FileLeadsToListener ==
  /\ \A d \in Daemons : d \in listening <=> daemon[d] \in {"bound", "serving", "ending", "left"} /\ mode[d] # "exec"
  /\ \A d \in listening : file = d
  /\ \A d \in Daemons : file = d => d \in listening \/ daemon[d] = "closed"
  /\ \A d \in Daemons : daemon[d] \in {"forked", "unlinked", "closed"} => listening = {} /\ mode[d] # "exec"
  /\ \A d \in Daemons : daemon[d] = "unlinked" => file = "none"

\* A controller talks to who listens, and starts a process when nobody does.
TalksToListener ==
  \A c \in Controllers :
    /\ ctl[c].pc \in {"waiting", "accepted"} => ctl[c].to \in listening
    /\ ctl[c].pc = "starting" => listening = {}

Orderly == OneThing /\ FileLeadsToListener /\ TalksToListener /\ ~crashed

Inv == TypeOK /\ ServingHasServer /\ (hasty \/ Orderly)

-----------------------------------------------------------------------------
\* TypeOK without its Boolean variables, and these.
Values ==
  /\ daemon \in [Daemons -> {"none", "serving", "ending", "left", "closed"} \cup Starting]
  /\ mode \in [Daemons -> {"service", "adduser", "exec"}]
  /\ server \in [Daemons -> {"null", "running"}]
  /\ listening \subseteq Daemons
  /\ file \in {"none", "stale"} \cup Daemons
  /\ ctl \in [Controllers ->
       [pc : {"idle", "connect", "waiting", "accepted", "starting"},
        cmd : Commands, to : Daemons]]

Flags == crashed \in BOOLEAN /\ hasty \in BOOLEAN

\* A controller that is no process has proper values.
LEMMA IdleIs ==
  /\ Idle.pc = "idle"
  /\ Idle \in [pc : {"idle", "connect", "waiting", "accepted", "starting"}, cmd : Commands, to : Daemons]
<1>1. (CHOOSE d \in Daemons : TRUE) \in Daemons
  BY ControlAssumption
<1>2. QED
  BY <1>1 DEF Idle, Commands

\* A command that failed leaves its controller idle, or about to start a process.
LEMMA FailedIs ==
  ASSUME NEW call
  PROVE  /\ Failed(call) \in [pc : {"idle", "starting"}, cmd : Commands, to : Daemons]
         /\ Failed(call) \in [pc : {"idle", "connect", "waiting", "accepted", "starting"}, cmd : Commands, to : Daemons]
<1>1. call.cmd \in {"start", "adduser"} => call.cmd \in Commands
  BY DEF Commands
<1>2. QED
  BY <1>1, IdleIs DEF Failed, Idle

\* Every variable keeps its type.
LEMMA ValuesStep ==
  ASSUME Values, [Next]_vars
  PROVE  Values'
<1> USE ControlAssumption DEF Values, Commands, Starting, At
<1>1. CASE \E c \in Controllers : connectTo(c)
  BY <1>1, IdleIs, FailedIs DEF connectTo, Succeeds, Fails, daemons
<1>2. CASE \E c \in Controllers : startDetached(c)
  BY <1>2, IdleIs, FailedIs DEF startDetached, Succeeds, daemons
<1>3. CASE \E c \in Controllers, cmd \in Commands : Call(c, cmd)
  <2>1. PICK c \in Controllers, cmd \in Commands : Call(c, cmd)
    BY <1>3
  <2> DEFINE called == [[ctl[c] EXCEPT !.pc = "connect"] EXCEPT !.cmd = cmd]
  <2>2. called \in [pc : {"idle", "connect", "waiting", "accepted", "starting"}, cmd : Commands, to : Daemons]
    OBVIOUS
  <2>3. ctl' = [ctl EXCEPT ![c] = called] /\ UNCHANGED << daemon, mode, server, listening, file >>
    BY <2>1 DEF Call, daemons
  <2> HIDE DEF called
  <2>4. QED
    BY <2>2, <2>3
<1>4. CASE \E d \in Daemons : setPathUnlink(d)
  BY <1>4, IdleIs, FailedIs DEF setPathUnlink, Step, daemons
<1>5. CASE \E d \in Daemons : setPathBind(d)
  BY <1>5, IdleIs, FailedIs DEF setPathBind, Step, daemons
<1>6. CASE \E d \in Daemons : start(d)
  BY <1>6, IdleIs, FailedIs DEF start, Step, portFree, daemons
<1>7. CASE \E d \in Daemons : leaveLoop(d)
  BY <1>7, IdleIs, FailedIs DEF leaveLoop, Step, daemons
<1>8. CASE \E d \in Daemons : closeSocket(d)
  BY <1>8, IdleIs, FailedIs DEF closeSocket, Step, daemons
<1>9. CASE \E d \in Daemons : unlinkAndExit(d)
  BY <1>9, IdleIs, FailedIs DEF unlinkAndExit, Step, Reset, Ended, daemons
<1>10. CASE \E d \in Daemons : exit(d)
  BY <1>10, IdleIs, FailedIs DEF exit, Step, Ended, daemons
<1>11. CASE \E d \in Daemons : Exec(d)
  BY <1>11, IdleIs, FailedIs DEF Exec, Step, Settled, daemons
<1>12. CASE \E d \in Daemons : Kill(d)
  BY <1>12, IdleIs, FailedIs DEF Kill, Dies, Reset, Ended, daemons
<1>13. CASE \E d \in Daemons, c \in Controllers : incomingConnection(d, c)
  BY <1>13, IdleIs, FailedIs DEF incomingConnection, Goes, daemons
<1>14. CASE \E d \in Daemons, c \in Controllers : terminate(d, c)
  BY <1>14, IdleIs, FailedIs DEF terminate, Asks, InLoop, Succeeds, daemons
<1>15. CASE \E d \in Daemons, c \in Controllers : suspend(d, c)
  BY <1>15, IdleIs, FailedIs DEF suspend, Asks, InLoop, Succeeds, daemons
<1>16. CASE \E d \in Daemons, c \in Controllers : suspendNothing(d, c)
  BY <1>16, IdleIs, FailedIs DEF suspendNothing, Asks, InLoop, Dies, Reset, Ended, daemons
<1>17. CASE \E d \in Daemons, c \in Controllers : reply(d, c)
  BY <1>17, IdleIs, FailedIs DEF reply, Asks, InLoop, Succeeds, daemons
<1>18. CASE UNCHANGED vars
  BY <1>18, IdleIs, FailedIs DEF vars, daemons
<1>19. QED
  BY <1>1, <1>2, <1>3, <1>4, <1>5, <1>6, <1>7, <1>8, <1>9, <1>10, <1>11, <1>12, <1>13, <1>14, <1>15, <1>16, <1>17, <1>18 DEF Next, controller, process, serves, slotReady

\* The Boolean variables stay Boolean.
LEMMA FlagsStep ==
  ASSUME Flags, [Next]_vars
  PROVE  Flags'
<1> USE ControlAssumption DEF Flags, At
<1>1. CASE \E c \in Controllers : connectTo(c)
  BY <1>1 DEF connectTo, Succeeds, Fails, daemons
<1>2. CASE \E c \in Controllers : startDetached(c)
  BY <1>2 DEF startDetached, Succeeds, daemons
<1>3. CASE \E c \in Controllers, cmd \in Commands : Call(c, cmd)
  BY <1>3 DEF Call, Settled, daemons
<1>4. CASE \E d \in Daemons : setPathUnlink(d)
  BY <1>4 DEF setPathUnlink, Step, daemons
<1>5. CASE \E d \in Daemons : setPathBind(d)
  BY <1>5 DEF setPathBind, Step, daemons
<1>6. CASE \E d \in Daemons : start(d)
  BY <1>6 DEF start, Step, portFree, daemons
<1>7. CASE \E d \in Daemons : leaveLoop(d)
  BY <1>7 DEF leaveLoop, Step, daemons
<1>8. CASE \E d \in Daemons : closeSocket(d)
  BY <1>8 DEF closeSocket, Step, daemons
<1>9. CASE \E d \in Daemons : unlinkAndExit(d)
  BY <1>9 DEF unlinkAndExit, Step, Reset, Ended, daemons
<1>10. CASE \E d \in Daemons : exit(d)
  BY <1>10 DEF exit, Step, Ended, daemons
<1>11. CASE \E d \in Daemons : Exec(d)
  BY <1>11 DEF Exec, Step, Settled, daemons
<1>12. CASE \E d \in Daemons : Kill(d)
  BY <1>12 DEF Kill, Dies, Reset, Ended, daemons
<1>13. CASE \E d \in Daemons, c \in Controllers : incomingConnection(d, c)
  BY <1>13 DEF incomingConnection, Goes, daemons
<1>14. CASE \E d \in Daemons, c \in Controllers : terminate(d, c)
  BY <1>14 DEF terminate, Asks, InLoop, Succeeds, daemons
<1>15. CASE \E d \in Daemons, c \in Controllers : suspend(d, c)
  BY <1>15 DEF suspend, Asks, InLoop, Succeeds, daemons
<1>16. CASE \E d \in Daemons, c \in Controllers : suspendNothing(d, c)
  BY <1>16 DEF suspendNothing, Asks, InLoop, Dies, Reset, Ended, daemons
<1>17. CASE \E d \in Daemons, c \in Controllers : reply(d, c)
  BY <1>17 DEF reply, Asks, InLoop, Succeeds, daemons
<1>18. CASE UNCHANGED vars
  BY <1>18 DEF vars, daemons
<1>19. QED
  BY <1>1, <1>2, <1>3, <1>4, <1>5, <1>6, <1>7, <1>8, <1>9, <1>10, <1>11, <1>12, <1>13, <1>14, <1>15, <1>16, <1>17, <1>18 DEF Next, controller, process, serves, slotReady

\* A process gets its server and loses it with its place.
LEMMA ServerStep ==
  ASSUME Values, ServingHasServer, [Next]_vars
  PROVE  ServingHasServer'
<1> USE ControlAssumption DEF Values, ServingHasServer, Starting, At
<1>1. CASE \E c \in Controllers : connectTo(c)
  BY <1>1 DEF connectTo, Succeeds, Fails, daemons
<1>2. CASE \E c \in Controllers : startDetached(c)
  BY <1>2 DEF startDetached, Succeeds, daemons
<1>3. CASE \E c \in Controllers, cmd \in Commands : Call(c, cmd)
  BY <1>3 DEF Call, Settled, daemons
<1>4. CASE \E d \in Daemons : setPathUnlink(d)
  BY <1>4 DEF setPathUnlink, Step, daemons
<1>5. CASE \E d \in Daemons : setPathBind(d)
  BY <1>5 DEF setPathBind, Step, daemons
<1>6. CASE \E d \in Daemons : start(d)
  BY <1>6 DEF start, Step, portFree, daemons
<1>7. CASE \E d \in Daemons : leaveLoop(d)
  BY <1>7 DEF leaveLoop, Step, daemons
<1>8. CASE \E d \in Daemons : closeSocket(d)
  BY <1>8 DEF closeSocket, Step, daemons
<1>9. CASE \E d \in Daemons : unlinkAndExit(d)
  BY <1>9 DEF unlinkAndExit, Step, Reset, Ended, daemons
<1>10. CASE \E d \in Daemons : exit(d)
  BY <1>10 DEF exit, Step, Ended, daemons
<1>11. CASE \E d \in Daemons : Exec(d)
  BY <1>11 DEF Exec, Step, Settled, daemons
<1>12. CASE \E d \in Daemons : Kill(d)
  BY <1>12 DEF Kill, Dies, Reset, Ended, daemons
<1>13. CASE \E d \in Daemons, c \in Controllers : incomingConnection(d, c)
  BY <1>13 DEF incomingConnection, Goes, daemons
<1>14. CASE \E d \in Daemons, c \in Controllers : terminate(d, c)
  BY <1>14 DEF terminate, Asks, InLoop, Succeeds, daemons
<1>15. CASE \E d \in Daemons, c \in Controllers : suspend(d, c)
  BY <1>15 DEF suspend, Asks, InLoop, Succeeds, daemons
<1>16. CASE \E d \in Daemons, c \in Controllers : suspendNothing(d, c)
  BY <1>16 DEF suspendNothing, Asks, InLoop, Dies, Reset, Ended, daemons
<1>17. CASE \E d \in Daemons, c \in Controllers : reply(d, c)
  BY <1>17 DEF reply, Asks, InLoop, Succeeds, daemons
<1>18. CASE UNCHANGED vars
  BY <1>18 DEF vars, daemons
<1>19. QED
  BY <1>1, <1>2, <1>3, <1>4, <1>5, <1>6, <1>7, <1>8, <1>9, <1>10, <1>11, <1>12, <1>13, <1>14, <1>15, <1>16, <1>17, <1>18 DEF Next, controller, process, serves, slotReady

\* One thing at a time, or somebody is hasty.
LEMMA OneThingStep ==
  ASSUME Values, OneThing, TalksToListener, FileLeadsToListener, [Next]_vars
  PROVE  hasty' \/ OneThing'
<1> USE ControlAssumption DEF Values, OneThing, TalksToListener, FileLeadsToListener, Moving, Busy, Starting, At, Commands
<1>1. CASE \E c \in Controllers : connectTo(c)
  BY <1>1, IdleIs, FailedIs DEF connectTo, Succeeds, Fails, daemons
<1>2. CASE \E c \in Controllers : startDetached(c)
  BY <1>2, IdleIs, FailedIs DEF startDetached, Succeeds, daemons
<1>3. CASE \E c \in Controllers, cmd \in Commands : Call(c, cmd)
  <2>1. PICK c \in Controllers, cmd \in Commands : Call(c, cmd)
    BY <1>3
  <2>2. hasty' \/ Settled
    BY <2>1, Zenon DEF Call
  <2>3. UNCHANGED daemon /\ ctl' = [ctl EXCEPT ![c].pc = "connect", ![c].cmd = cmd]
    BY <2>1 DEF Call, daemons
  <2>4. Settled => OneThing'
    BY <2>3 DEF Settled
  <2>5. QED
    BY <2>2, <2>4
<1>4. CASE \E d \in Daemons : setPathUnlink(d)
  BY <1>4, IdleIs, FailedIs DEF setPathUnlink, Step, daemons
<1>5. CASE \E d \in Daemons : setPathBind(d)
  BY <1>5, IdleIs, FailedIs DEF setPathBind, Step, daemons
<1>6. CASE \E d \in Daemons : start(d)
  BY <1>6, IdleIs, FailedIs DEF start, Step, portFree, daemons
<1>7. CASE \E d \in Daemons : leaveLoop(d)
  BY <1>7, IdleIs, FailedIs DEF leaveLoop, Step, daemons
<1>8. CASE \E d \in Daemons : closeSocket(d)
  BY <1>8, IdleIs, FailedIs DEF closeSocket, Step, daemons
<1>9. CASE \E d \in Daemons : unlinkAndExit(d)
  BY <1>9, IdleIs, FailedIs DEF unlinkAndExit, Step, Reset, Ended, daemons
<1>10. CASE \E d \in Daemons : exit(d)
  BY <1>10, IdleIs, FailedIs DEF exit, Step, Ended, daemons
<1>11. CASE \E d \in Daemons : Exec(d)
  <2>1. PICK d \in Daemons : Exec(d)
    BY <1>11
  <2>2. hasty' \/ Settled
    BY <2>1, Zenon DEF Exec
  <2>3. UNCHANGED ctl /\ daemon' = [daemon EXCEPT ![d] = "bound"]
    BY <2>1 DEF Exec, Step
  <2>4. Settled => OneThing'
    BY <2>3 DEF Settled
  <2>5. QED
    BY <2>2, <2>4
<1>12. CASE \E d \in Daemons : Kill(d)
  BY <1>12, IdleIs, FailedIs DEF Kill, Dies, Reset, Ended, daemons
<1>13. CASE \E d \in Daemons, c \in Controllers : incomingConnection(d, c)
  BY <1>13, IdleIs, FailedIs DEF incomingConnection, Goes, daemons
<1>14. CASE \E d \in Daemons, c \in Controllers : terminate(d, c)
  BY <1>14, IdleIs, FailedIs DEF terminate, Asks, InLoop, Succeeds, daemons
<1>15. CASE \E d \in Daemons, c \in Controllers : suspend(d, c)
  BY <1>15, IdleIs, FailedIs DEF suspend, Asks, InLoop, Succeeds, daemons
<1>16. CASE \E d \in Daemons, c \in Controllers : suspendNothing(d, c)
  BY <1>16, IdleIs, FailedIs DEF suspendNothing, Asks, InLoop, Dies, Reset, Ended, daemons
<1>17. CASE \E d \in Daemons, c \in Controllers : reply(d, c)
  BY <1>17, IdleIs, FailedIs DEF reply, Asks, InLoop, Succeeds, daemons
<1>18. CASE UNCHANGED vars
  BY <1>18, IdleIs, FailedIs DEF vars, daemons
<1>19. QED
  BY <1>1, <1>2, <1>3, <1>4, <1>5, <1>6, <1>7, <1>8, <1>9, <1>10, <1>11, <1>12, <1>13, <1>14, <1>15, <1>16, <1>17, <1>18 DEF Next, controller, process, serves, slotReady

\* The file and the socket go together.
LEMMA FileStep ==
  ASSUME Values, Orderly, ~hasty, [Next]_vars
  PROVE  hasty' \/ FileLeadsToListener'
<1> USE ControlAssumption DEF Values, Orderly, OneThing, TalksToListener, FileLeadsToListener, Moving, Busy, Starting, At, Commands
<1>1. CASE \E c \in Controllers : connectTo(c)
  BY <1>1, IdleIs, FailedIs DEF connectTo, Succeeds, Fails, daemons
<1>2. CASE \E c \in Controllers : startDetached(c)
  BY <1>2, IdleIs, FailedIs DEF startDetached, Succeeds, daemons
<1>3. CASE \E c \in Controllers, cmd \in Commands : Call(c, cmd)
  BY <1>3, IdleIs, FailedIs DEF Call, Settled, daemons
<1>4. CASE \E d \in Daemons : setPathUnlink(d)
  BY <1>4, IdleIs, FailedIs DEF setPathUnlink, Step, daemons
<1>5. CASE \E d \in Daemons : setPathBind(d)
  BY <1>5, IdleIs, FailedIs DEF setPathBind, Step, daemons
<1>6. CASE \E d \in Daemons : start(d)
  BY <1>6, IdleIs, FailedIs DEF start, Step, portFree, daemons
<1>7. CASE \E d \in Daemons : leaveLoop(d)
  BY <1>7, IdleIs, FailedIs DEF leaveLoop, Step, daemons
<1>8. CASE \E d \in Daemons : closeSocket(d)
  BY <1>8, IdleIs, FailedIs DEF closeSocket, Step, daemons
<1>9. CASE \E d \in Daemons : unlinkAndExit(d)
  BY <1>9, IdleIs, FailedIs DEF unlinkAndExit, Step, Reset, Ended, daemons
<1>10. CASE \E d \in Daemons : exit(d)
  BY <1>10, IdleIs, FailedIs DEF exit, Step, Ended, daemons
<1>11. CASE \E d \in Daemons : Exec(d)
  BY <1>11, IdleIs, FailedIs DEF Exec, Step, Settled, daemons
<1>12. CASE \E d \in Daemons : Kill(d)
  BY <1>12, IdleIs, FailedIs DEF Kill, Dies, Reset, Ended, daemons
<1>13. CASE \E d \in Daemons, c \in Controllers : incomingConnection(d, c)
  BY <1>13, IdleIs, FailedIs DEF incomingConnection, Goes, daemons
<1>14. CASE \E d \in Daemons, c \in Controllers : terminate(d, c)
  BY <1>14, IdleIs, FailedIs DEF terminate, Asks, InLoop, Succeeds, daemons
<1>15. CASE \E d \in Daemons, c \in Controllers : suspend(d, c)
  BY <1>15, IdleIs, FailedIs DEF suspend, Asks, InLoop, Succeeds, daemons
<1>16. CASE \E d \in Daemons, c \in Controllers : suspendNothing(d, c)
  BY <1>16, IdleIs, FailedIs DEF suspendNothing, Asks, InLoop, Dies, Reset, Ended, daemons
<1>17. CASE \E d \in Daemons, c \in Controllers : reply(d, c)
  BY <1>17, IdleIs, FailedIs DEF reply, Asks, InLoop, Succeeds, daemons
<1>18. CASE UNCHANGED vars
  BY <1>18, IdleIs, FailedIs DEF vars, daemons
<1>19. QED
  BY <1>1, <1>2, <1>3, <1>4, <1>5, <1>6, <1>7, <1>8, <1>9, <1>10, <1>11, <1>12, <1>13, <1>14, <1>15, <1>16, <1>17, <1>18 DEF Next, controller, process, serves, slotReady

\* Controllers talk to who listens.
LEMMA TalksStep ==
  ASSUME Values, Orderly, ~hasty, [Next]_vars
  PROVE  hasty' \/ TalksToListener'
<1> USE ControlAssumption DEF Values, Orderly, OneThing, TalksToListener, FileLeadsToListener, Moving, Busy, Starting, At, Commands
<1>1. CASE \E c \in Controllers : connectTo(c)
  BY <1>1, IdleIs, FailedIs DEF connectTo, Succeeds, Fails, daemons
<1>2. CASE \E c \in Controllers : startDetached(c)
  BY <1>2, IdleIs, FailedIs DEF startDetached, Succeeds, daemons
<1>3. CASE \E c \in Controllers, cmd \in Commands : Call(c, cmd)
  BY <1>3, IdleIs, FailedIs DEF Call, Settled, daemons
<1>4. CASE \E d \in Daemons : setPathUnlink(d)
  BY <1>4, IdleIs, FailedIs DEF setPathUnlink, Step, daemons
<1>5. CASE \E d \in Daemons : setPathBind(d)
  BY <1>5, IdleIs, FailedIs DEF setPathBind, Step, daemons
<1>6. CASE \E d \in Daemons : start(d)
  BY <1>6, IdleIs, FailedIs DEF start, Step, portFree, daemons
<1>7. CASE \E d \in Daemons : leaveLoop(d)
  BY <1>7, IdleIs, FailedIs DEF leaveLoop, Step, daemons
<1>8. CASE \E d \in Daemons : closeSocket(d)
  BY <1>8, IdleIs, FailedIs DEF closeSocket, Step, daemons
<1>9. CASE \E d \in Daemons : unlinkAndExit(d)
  BY <1>9, IdleIs, FailedIs DEF unlinkAndExit, Step, Reset, Ended, daemons
<1>10. CASE \E d \in Daemons : exit(d)
  BY <1>10, IdleIs, FailedIs DEF exit, Step, Ended, daemons
<1>11. CASE \E d \in Daemons : Exec(d)
  BY <1>11, IdleIs, FailedIs DEF Exec, Step, Settled, daemons
<1>12. CASE \E d \in Daemons : Kill(d)
  BY <1>12, IdleIs, FailedIs DEF Kill, Dies, Reset, Ended, daemons
<1>13. CASE \E d \in Daemons, c \in Controllers : incomingConnection(d, c)
  BY <1>13, IdleIs, FailedIs DEF incomingConnection, Goes, daemons
<1>14. CASE \E d \in Daemons, c \in Controllers : terminate(d, c)
  BY <1>14, IdleIs, FailedIs DEF terminate, Asks, InLoop, Succeeds, daemons
<1>15. CASE \E d \in Daemons, c \in Controllers : suspend(d, c)
  BY <1>15, IdleIs, FailedIs DEF suspend, Asks, InLoop, Succeeds, daemons
<1>16. CASE \E d \in Daemons, c \in Controllers : suspendNothing(d, c)
  BY <1>16, IdleIs, FailedIs DEF suspendNothing, Asks, InLoop, Dies, Reset, Ended, daemons
<1>17. CASE \E d \in Daemons, c \in Controllers : reply(d, c)
  BY <1>17, IdleIs, FailedIs DEF reply, Asks, InLoop, Succeeds, daemons
<1>18. CASE UNCHANGED vars
  BY <1>18, IdleIs, FailedIs DEF vars, daemons
<1>19. QED
  BY <1>1, <1>2, <1>3, <1>4, <1>5, <1>6, <1>7, <1>8, <1>9, <1>10, <1>11, <1>12, <1>13, <1>14, <1>15, <1>16, <1>17, <1>18 DEF Next, controller, process, serves, slotReady

\* The server is there for each command.
LEMMA CrashStep ==
  ASSUME Values, ServingHasServer, Orderly, ~hasty, [Next]_vars
  PROVE  hasty' \/ ~crashed'
<1> USE ControlAssumption DEF Values, ServingHasServer, Orderly, OneThing, Moving, Busy, Starting, At
<1>1. CASE \E c \in Controllers : connectTo(c)
  BY <1>1 DEF connectTo, Succeeds, Fails, daemons
<1>2. CASE \E c \in Controllers : startDetached(c)
  BY <1>2 DEF startDetached, Succeeds, daemons
<1>3. CASE \E c \in Controllers, cmd \in Commands : Call(c, cmd)
  BY <1>3 DEF Call, Settled, daemons
<1>4. CASE \E d \in Daemons : setPathUnlink(d)
  BY <1>4 DEF setPathUnlink, Step, daemons
<1>5. CASE \E d \in Daemons : setPathBind(d)
  BY <1>5 DEF setPathBind, Step, daemons
<1>6. CASE \E d \in Daemons : start(d)
  BY <1>6 DEF start, Step, portFree, daemons
<1>7. CASE \E d \in Daemons : leaveLoop(d)
  BY <1>7 DEF leaveLoop, Step, daemons
<1>8. CASE \E d \in Daemons : closeSocket(d)
  BY <1>8 DEF closeSocket, Step, daemons
<1>9. CASE \E d \in Daemons : unlinkAndExit(d)
  BY <1>9 DEF unlinkAndExit, Step, Reset, Ended, daemons
<1>10. CASE \E d \in Daemons : exit(d)
  BY <1>10 DEF exit, Step, Ended, daemons
<1>11. CASE \E d \in Daemons : Exec(d)
  BY <1>11 DEF Exec, Step, Settled, daemons
<1>12. CASE \E d \in Daemons : Kill(d)
  BY <1>12 DEF Kill, Dies, Reset, Ended, daemons
<1>13. CASE \E d \in Daemons, c \in Controllers : incomingConnection(d, c)
  BY <1>13 DEF incomingConnection, Goes, daemons
<1>14. CASE \E d \in Daemons, c \in Controllers : terminate(d, c)
  BY <1>14 DEF terminate, Asks, InLoop, Succeeds, daemons
<1>15. CASE \E d \in Daemons, c \in Controllers : suspend(d, c)
  BY <1>15 DEF suspend, Asks, InLoop, Succeeds, daemons
<1>16. CASE \E d \in Daemons, c \in Controllers : suspendNothing(d, c)
  BY <1>16 DEF suspendNothing, Asks, InLoop, Dies, Reset, Ended, daemons
<1>17. CASE \E d \in Daemons, c \in Controllers : reply(d, c)
  BY <1>17 DEF reply, Asks, InLoop, Succeeds, daemons
<1>18. CASE UNCHANGED vars
  BY <1>18 DEF vars, daemons
<1>19. QED
  BY <1>1, <1>2, <1>3, <1>4, <1>5, <1>6, <1>7, <1>8, <1>9, <1>10, <1>11, <1>12, <1>13, <1>14, <1>15, <1>16, <1>17, <1>18 DEF Next, controller, process, serves, slotReady

\* Haste is not forgotten.
LEMMA HastyStep ==
  ASSUME hasty, [Next]_vars
  PROVE  hasty'
<1> USE ControlAssumption DEF At
<1>1. CASE \E c \in Controllers : connectTo(c)
  BY <1>1 DEF connectTo, Succeeds, Fails, daemons
<1>2. CASE \E c \in Controllers : startDetached(c)
  BY <1>2 DEF startDetached, Succeeds, daemons
<1>3. CASE \E c \in Controllers, cmd \in Commands : Call(c, cmd)
  BY <1>3 DEF Call, Settled, daemons
<1>4. CASE \E d \in Daemons : setPathUnlink(d)
  BY <1>4 DEF setPathUnlink, Step, daemons
<1>5. CASE \E d \in Daemons : setPathBind(d)
  BY <1>5 DEF setPathBind, Step, daemons
<1>6. CASE \E d \in Daemons : start(d)
  BY <1>6 DEF start, Step, portFree, daemons
<1>7. CASE \E d \in Daemons : leaveLoop(d)
  BY <1>7 DEF leaveLoop, Step, daemons
<1>8. CASE \E d \in Daemons : closeSocket(d)
  BY <1>8 DEF closeSocket, Step, daemons
<1>9. CASE \E d \in Daemons : unlinkAndExit(d)
  BY <1>9 DEF unlinkAndExit, Step, Reset, Ended, daemons
<1>10. CASE \E d \in Daemons : exit(d)
  BY <1>10 DEF exit, Step, Ended, daemons
<1>11. CASE \E d \in Daemons : Exec(d)
  BY <1>11 DEF Exec, Step, Settled, daemons
<1>12. CASE \E d \in Daemons : Kill(d)
  BY <1>12 DEF Kill, Dies, Reset, Ended, daemons
<1>13. CASE \E d \in Daemons, c \in Controllers : incomingConnection(d, c)
  BY <1>13 DEF incomingConnection, Goes, daemons
<1>14. CASE \E d \in Daemons, c \in Controllers : terminate(d, c)
  BY <1>14 DEF terminate, Asks, InLoop, Succeeds, daemons
<1>15. CASE \E d \in Daemons, c \in Controllers : suspend(d, c)
  BY <1>15 DEF suspend, Asks, InLoop, Succeeds, daemons
<1>16. CASE \E d \in Daemons, c \in Controllers : suspendNothing(d, c)
  BY <1>16 DEF suspendNothing, Asks, InLoop, Dies, Reset, Ended, daemons
<1>17. CASE \E d \in Daemons, c \in Controllers : reply(d, c)
  BY <1>17 DEF reply, Asks, InLoop, Succeeds, daemons
<1>18. CASE UNCHANGED vars
  BY <1>18 DEF vars, daemons
<1>19. QED
  BY <1>1, <1>2, <1>3, <1>4, <1>5, <1>6, <1>7, <1>8, <1>9, <1>10, <1>11, <1>12, <1>13, <1>14, <1>15, <1>16, <1>17, <1>18 DEF Next, controller, process, serves, slotReady

\* Whoever lets go of a connection's end, by closing its socket, by exiting or by
\* dying, has the connections with it; under every Env.
LEMMA AbandonedStep ==
  ASSUME Values, NobodyIsAbandoned, [Next]_vars
  PROVE  NobodyIsAbandoned'
<1> USE ControlAssumption DEF Values, NobodyIsAbandoned, Starting, At, Commands
<1>1. CASE \E c \in Controllers : connectTo(c)
  BY <1>1, IdleIs, FailedIs DEF connectTo, Succeeds, Fails, daemons
<1>2. CASE \E c \in Controllers : startDetached(c)
  BY <1>2, IdleIs, FailedIs DEF startDetached, Succeeds, daemons
<1>3. CASE \E c \in Controllers, cmd \in Commands : Call(c, cmd)
  BY <1>3, IdleIs, FailedIs DEF Call, daemons
<1>4. CASE \E d \in Daemons : setPathUnlink(d)
  BY <1>4, IdleIs, FailedIs DEF setPathUnlink, Step, daemons
<1>5. CASE \E d \in Daemons : setPathBind(d)
  BY <1>5, IdleIs, FailedIs DEF setPathBind, Step, daemons
<1>6. CASE \E d \in Daemons : start(d)
  BY <1>6, IdleIs, FailedIs DEF start, Step, daemons
<1>7. CASE \E d \in Daemons : leaveLoop(d)
  BY <1>7, IdleIs, FailedIs DEF leaveLoop, Step, daemons
<1>8. CASE \E d \in Daemons : closeSocket(d)
  BY <1>8, IdleIs, FailedIs DEF closeSocket, Step, daemons
<1>9. CASE \E d \in Daemons : unlinkAndExit(d)
  BY <1>9, IdleIs, FailedIs DEF unlinkAndExit, Step, Reset, Ended, daemons
<1>10. CASE \E d \in Daemons : exit(d)
  BY <1>10, IdleIs, FailedIs DEF exit, Step, Ended, daemons
<1>11. CASE \E d \in Daemons : Exec(d)
  BY <1>11, IdleIs, FailedIs DEF Exec, Step, daemons
<1>12. CASE \E d \in Daemons : Kill(d)
  BY <1>12, IdleIs, FailedIs DEF Kill, Dies, Reset, Ended, daemons
<1>13. CASE \E d \in Daemons, c \in Controllers : incomingConnection(d, c)
  BY <1>13, IdleIs, FailedIs DEF incomingConnection, Goes, daemons
<1>14. CASE \E d \in Daemons, c \in Controllers : terminate(d, c)
  BY <1>14, IdleIs, FailedIs DEF terminate, Asks, InLoop, Succeeds, daemons
<1>15. CASE \E d \in Daemons, c \in Controllers : suspend(d, c)
  BY <1>15, IdleIs, FailedIs DEF suspend, Asks, Succeeds, daemons
<1>16. CASE \E d \in Daemons, c \in Controllers : suspendNothing(d, c)
  BY <1>16, IdleIs, FailedIs DEF suspendNothing, Asks, Dies, Reset, Ended, daemons
<1>17. CASE \E d \in Daemons, c \in Controllers : reply(d, c)
  BY <1>17, IdleIs, FailedIs DEF reply, Asks, Succeeds, daemons
<1>18. CASE UNCHANGED vars
  BY <1>18, IdleIs, FailedIs DEF vars, daemons
<1>19. QED
  BY <1>1, <1>2, <1>3, <1>4, <1>5, <1>6, <1>7, <1>8, <1>9, <1>10, <1>11, <1>12, <1>13, <1>14, <1>15, <1>16, <1>17, <1>18 DEF Next, controller, process, serves, slotReady

\* Inv holds at first, and every step keeps it.
LEMMA InvCorrect == Spec => []Inv
<1>1. Init => Inv
  <2> SUFFICES ASSUME Init PROVE Inv
    OBVIOUS
  <2>1. Values
    BY IdleIs, ControlAssumption DEF Init, Values
  <2>2. Flags
    BY DEF Init, Flags
  <2>3. ServingHasServer
    BY DEF Init, ServingHasServer
  <2>4. Orderly
    BY IdleIs, ControlAssumption DEF Init, Orderly, OneThing, FileLeadsToListener, TalksToListener, Moving, Busy
  <2>5. QED
    BY <2>1, <2>2, <2>3, <2>4 DEF Inv, TypeOK, Values, Flags
<1>2. Inv /\ [Next]_vars => Inv'
  <2> SUFFICES ASSUME Inv, [Next]_vars PROVE Inv'
    OBVIOUS
  <2>1. Values /\ Flags /\ ServingHasServer
    BY DEF Inv, TypeOK, Values, Flags
  <2>2. Values' /\ Flags' /\ ServingHasServer'
    BY <2>1, ValuesStep, FlagsStep, ServerStep
  <2>3. hasty' \/ Orderly'
    <3>1. CASE hasty
      BY <3>1, HastyStep
    <3>2. CASE ~hasty
      <4>1. Orderly
        BY <3>2 DEF Inv
      <4>2. hasty' \/ OneThing'
        BY <2>1, <4>1, OneThingStep DEF Orderly
      <4>3. hasty' \/ FileLeadsToListener'
        BY <2>1, <3>2, <4>1, FileStep
      <4>4. hasty' \/ TalksToListener'
        BY <2>1, <3>2, <4>1, TalksStep
      <4>5. hasty' \/ ~crashed'
        BY <2>1, <3>2, <4>1, CrashStep
      <4>6. QED
        BY <4>2, <4>3, <4>4, <4>5 DEF Orderly
    <3>3. QED
      BY <3>1, <3>2
  <2>4. TypeOK'
    BY <2>2 DEF TypeOK, Values, Flags
  <2>5. QED
    BY <2>2, <2>3, <2>4 DEF Inv
<1>3. QED
  BY <1>1, <1>2, PTL DEF Spec

-----------------------------------------------------------------------------
\* Every variable keeps its type (QtServiceBasePrivate::run, QtServiceController
\* and QtServiceSysPrivate).
THEOREM TypeCorrect == Spec => []TypeOK
<1>1. Inv => TypeOK
  BY DEF Inv
<1>2. QED
  BY <1>1, InvCorrect, PTL

\* As long as each command waits until the last is through, the socket file leads
\* to the service, whatever was killed or failed before (setPath, sysCleanup).
THEOREM ReachableCorrect == Spec => []ServiceIsReachable
<1>1. Inv => ServiceIsReachable
  <2> SUFFICES ASSUME Inv, ~hasty, NEW d \in Daemons, daemon[d] = "serving", mode[d] = "service"
               PROVE  file = d /\ d \in listening
    BY DEF ServiceIsReachable, Reachable
  <2>1. FileLeadsToListener
    BY DEF Inv, Orderly
  <2>2. d \in listening
    BY <2>1 DEF FileLeadsToListener
  <2>3. QED
    BY <2>1, <2>2 DEF FileLeadsToListener
<1>2. QED
  BY <1>1, InvCorrect, PTL

\* Two processes never take commands together while nobody is hasty
\* (QtServiceBase::exec asks isRunning first; sysCleanup closes the socket).
THEOREM OneTakesCorrect == Spec => []OneTakesCommands
<1>1. Inv => OneTakesCommands
  BY DEF Inv, Orderly, FileLeadsToListener, OneTakesCommands
<1>2. QED
  BY <1>1, InvCorrect, PTL

\* pause and resume, which use server without a look, find it there as long as
\* nobody is hasty (EasysyncService::pause and resume).
THEOREM FindsServerCorrect == Spec => []CommandFindsServer
<1>1. Inv => CommandFindsServer
  BY DEF Inv, Orderly, CommandFindsServer
<1>2. QED
  BY <1>1, InvCorrect, PTL

\* Nobody waits at a connection whose other end is gone: sendCmd, which waits for
\* its reply without a limit, has a process to hear from or to be cut off by,
\* whoever is hasty, killed or late (sysCleanup, QtUnixSocket::connectTo).
THEOREM AbandonedCorrect == Spec => []NobodyIsAbandoned
<1>1. Init => NobodyIsAbandoned
  BY IdleIs DEF Init, NobodyIsAbandoned
<1>2. Inv /\ NobodyIsAbandoned /\ [Next]_vars => NobodyIsAbandoned'
  BY AbandonedStep DEF Inv, TypeOK, Values
<1>3. QED
  BY <1>1, <1>2, InvCorrect, PTL DEF Spec
=============================================================================
