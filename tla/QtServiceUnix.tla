---------------------------- MODULE QtServiceUnix ----------------------------
(***************************************************************************)
(* The daemon's life on Unix: processes of easysync-server that become the  *)
(* service, run in the foreground (-e) or only add a user, and processes    *)
(* that command it through a socket file (server/qt/qtservice_unix.cpp,     *)
(* qtunixserversocket.cpp, qtunixsocket.cpp, qtservice.cpp, and             *)
(* easysyncservice.cpp).  Every command is one connection with one line.    *)
(*                                                                         *)
(* An operator whose name ends in _Mutant is the one after it with a bug    *)
(* planted, to show that a property notices.                               *)
(***************************************************************************)
EXTENDS Integers

CONSTANTS
  Daemons,      \* bound: processes of the server that may exist at a time
  Controllers,  \* processes that give commands
  Env           \* what the surroundings may do in this instance

EnvEvents ==
  { "hasty",    \* commands are given while a process starts or ends, or together
    "kill",     \* a process is killed
    "exec",     \* -e
    "dbfail" }  \* the database cannot be opened

ASSUME ControlAssumption ==
  /\ Env \subseteq EnvEvents
  /\ Daemons # {} /\ {"none", "stale"} \cap Daemons = {}

VARIABLES
  daemon,       \* where each process is in QtServiceBasePrivate::run
  mode,         \* what it was started for
  server,       \* EasysyncService::server
  listening,    \* the processes with a listening QtServiceSysPrivate
  file,         \* what the socket file leads to
  ctl,          \* each controller: where it is, its command, the process it talks to
  crashed,      \* history: a process used server while it was NULL
  hasty         \* history: a command was given while something was under way

daemons == << daemon, mode, server, listening >>
vars    == << daemons, file, ctl, crashed, hasty >>

\* suspend stands for pause and resume, which only set disabled of the server.
Commands == {"start", "adduser", "running", "terminate", "suspend", "num"}
Starting == {"forked", "unlinked", "bound"}

TypeOK ==
  /\ daemon \in [Daemons -> {"none", "serving", "ending", "left", "closed"} \cup Starting]
  /\ mode \in [Daemons -> {"service", "adduser", "exec"}]
  /\ server \in [Daemons -> {"null", "running"}]
  /\ listening \subseteq Daemons
  /\ file \in {"none", "stale"} \cup Daemons
  /\ ctl \in [Controllers ->
       [pc : {"idle", "connect", "waiting", "accepted", "starting"},
        cmd : Commands, to : Daemons]]
  /\ crashed \in BOOLEAN /\ hasty \in BOOLEAN

\* A controller that is no process, with arbitrary values for the rest.
Idle == [pc |-> "idle", cmd |-> "start", to |-> CHOOSE d \in Daemons : TRUE]

Init ==
  /\ daemon = [d \in Daemons |-> "none"]
  /\ mode = [d \in Daemons |-> "service"]
  /\ server = [d \in Daemons |-> "null"]
  /\ listening = {}
  /\ file \in {"none", "stale"}
  /\ ctl = [c \in Controllers |-> Idle]
  /\ crashed = FALSE /\ hasty = FALSE

At(c, place)   == ctl[c].pc = place
Goes(c, place) == ctl' = [ctl EXCEPT ![c].pc = place]

\* sendCmd returned true: the controller has nothing more to do.
Succeeds(c) == ctl' = [ctl EXCEPT ![c] = Idle]

\* sendCmd returned false: nobody is alive, so that a start goes on; any other
\* controller tells the user so and ends.
Failed(call) == IF call.cmd \in {"start", "adduser"} THEN [Idle EXCEPT !.pc = "starting", !.cmd = call.cmd] ELSE Idle
Fails(c)     == ctl' = [ctl EXCEPT ![c] = Failed(@)]

Reset_Accepted_Mutant(d) ==
  [c \in Controllers |->
     IF ctl[c].pc = "accepted" /\ ctl[c].to = d THEN Failed(ctl[c]) ELSE ctl[c]]

\* The connections to process d end: waitForReadyRead returns, and no reply is
\* not "true".
Reset(d) ==
  [c \in Controllers |->
     IF ctl[c].pc \in {"waiting", "accepted"} /\ ctl[c].to = d THEN Failed(ctl[c]) ELSE ctl[c]]

\* No process: its mode is that of the initial state again.
Ended(d) == mode' = [mode EXCEPT ![d] = "service"]

-----------------------------------------------------------------------------
(* The controllers: the process started by a user or by a script.          *)

Settled == /\ \A d \in Daemons : daemon[d] \in {"none", "serving"}
           /\ \A c \in Controllers : At(c, "idle")

Call(c, cmd) ==
  /\ At(c, "idle")
  /\ ctl' = [ctl EXCEPT ![c].pc = "connect", ![c].cmd = cmd]
  /\ Settled \/ "hasty" \in Env
  /\ hasty' = (hasty \/ ~Settled)
  /\ UNCHANGED << daemons, file, crashed >>

connectTo_Blind_Mutant(c) ==
  /\ At(c, "connect")
  /\ ctl' = [ctl EXCEPT ![c].pc = "waiting", ![c].to = file]
  /\ UNCHANGED << daemons, file, crashed, hasty >>

connectTo_NotAsked_Mutant(c) ==
  /\ At(c, "connect")
  /\ Fails(c)
  /\ UNCHANGED << daemons, file, crashed, hasty >>

\* QtUnixSocket::connectTo; the file of a process that was killed refuses.
\* isRunning asks no more than that.
connectTo(c) ==
  /\ At(c, "connect")
  /\ \/ /\ file \in listening /\ ctl[c].cmd # "running"
        /\ ctl' = [ctl EXCEPT ![c].pc = "waiting", ![c].to = file]
     \/ file \in listening /\ ctl[c].cmd = "running" /\ Succeeds(c)
     \/ file \notin listening /\ Fails(c)
  /\ UNCHANGED << daemons, file, crashed, hasty >>

\* QtServiceBasePrivate::start, when no service said that it is alive.  An added
\* user needs the same: with a service running nothing is added.
startDetached(c) ==
  /\ At(c, "starting")
  /\ \E d \in Daemons :
       /\ daemon[d] = "none"
       /\ daemon' = [daemon EXCEPT ![d] = "forked"]
       /\ mode' = [mode EXCEPT ![d] = IF ctl[c].cmd = "start" THEN "service" ELSE "adduser"]
  /\ Succeeds(c)
  /\ UNCHANGED << server, listening, file, crashed, hasty >>

-----------------------------------------------------------------------------
(* run: the life of a process.                                             *)

Step(d, from, to) == daemon[d] = from /\ daemon' = [daemon EXCEPT ![d] = to]

\* -e: no socket of its own.
Exec(d) ==
  /\ "exec" \in Env
  /\ Step(d, "none", "bound")
  /\ mode' = [mode EXCEPT ![d] = "exec"]
  /\ hasty' = (hasty \/ ~Settled) /\ (Settled \/ "hasty" \in Env)
  /\ UNCHANGED << server, listening, file, ctl, crashed >>

setPathUnlink_Never_Mutant(d) ==
  /\ Step(d, "forked", "unlinked")
  /\ UNCHANGED << mode, server, listening, file, ctl, crashed, hasty >>

\* setPath removes whatever file has the name ...
setPathUnlink(d) ==
  /\ Step(d, "forked", "unlinked")
  /\ file' = "none"
  /\ UNCHANGED << mode, server, listening, ctl, crashed, hasty >>

\* ... and binds and listens, which fails without notice if the file is there.
setPathBind(d) ==
  /\ Step(d, "unlinked", "bound")
  /\ \/ file = "none" /\ file' = d /\ listening' = listening \cup {d}
     \/ file # "none" /\ UNCHANGED << file, listening >>
  /\ UNCHANGED << mode, server, ctl, crashed, hasty >>

portFree == \A d \in Daemons : server[d] = "null"

start_NoQuit_Mutant(d) ==
  /\ \/ /\ mode[d] # "adduser" /\ portFree
        /\ Step(d, "bound", "serving") /\ server' = [server EXCEPT ![d] = "running"]
     \/ /\ mode[d] = "adduser"
        /\ Step(d, "bound", "left") /\ UNCHANGED server
     \/ /\ mode[d] # "adduser" /\ (~portFree \/ "dbfail" \in Env)
        /\ Step(d, "bound", "serving") /\ UNCHANGED server
  /\ UNCHANGED << mode, listening, file, ctl, crashed, hasty >>

\* EasysyncService::start, before the event loop looks at any socket.  Without
\* the port or the database, or with the user added, the process leaves.
start(d) ==
  /\ \/ /\ mode[d] # "adduser" /\ portFree
        /\ Step(d, "bound", "serving") /\ server' = [server EXCEPT ![d] = "running"]
     \/ /\ mode[d] = "adduser" \/ ~portFree \/ "dbfail" \in Env
        /\ Step(d, "bound", "left") /\ UNCHANGED server
  /\ UNCHANGED << mode, listening, file, ctl, crashed, hasty >>

\* The event loop is left when the round that called quit() is over.
leaveLoop(d) ==
  /\ Step(d, "ending", "left")
  /\ UNCHANGED << mode, server, listening, file, ctl, crashed, hasty >>

\* sysCleanup: the listening socket first ...
closeSocket(d) ==
  /\ d \in listening
  /\ Step(d, "left", "closed")
  /\ listening' = listening \ {d}
  /\ UNCHANGED << mode, server, file, ctl, crashed, hasty >>

\* ... then the file, by its name, whosever it is by now; the connections end
\* with the process.
unlinkAndExit(d) ==
  /\ Step(d, "closed", "none")
  /\ file' = "none" /\ ctl' = Reset(d) /\ Ended(d)
  /\ UNCHANGED << server, listening, crashed, hasty >>

\* A process that has no path_ removes nothing.
exit(d) ==
  /\ d \notin listening
  /\ Step(d, "left", "none") /\ Ended(d)
  /\ UNCHANGED << server, listening, file, ctl, crashed, hasty >>

\* A process that ends on the spot leaves its file behind.
Dies(d) ==
  /\ daemon' = [daemon EXCEPT ![d] = "none"]
  /\ server' = [server EXCEPT ![d] = "null"]
  /\ listening' = listening \ {d}
  /\ file' = IF file = d THEN "stale" ELSE file
  /\ ctl' = Reset(d) /\ Ended(d)
  /\ UNCHANGED hasty

Kill(d) ==
  /\ "kill" \in Env /\ daemon[d] # "none"
  /\ Dies(d)
  /\ UNCHANGED crashed

-----------------------------------------------------------------------------
(* The commands, in the event loop of the service.                         *)

InLoop(d) == daemon[d] \in {"serving", "ending"}

\* A connection taken in a round is readable in the next one at the earliest, so one
\* that is taken in the last round might as well be left.
incomingConnection(d, c) ==
  /\ daemon[d] = "serving" /\ At(c, "waiting") /\ ctl[c].to = d
  /\ Goes(c, "accepted")
  /\ UNCHANGED << daemons, file, crashed, hasty >>

Asks(c, d, cmds) == InLoop(d) /\ At(c, "accepted") /\ ctl[c].to = d /\ ctl[c].cmd \in cmds

\* stop() deletes the server, quit() lets the round end: whoever was readable in
\* it is still answered.
terminate(d, c) ==
  /\ Asks(c, d, {"terminate"})
  /\ server' = [server EXCEPT ![d] = "null"]
  /\ daemon' = [daemon EXCEPT ![d] = "ending"]
  /\ Succeeds(c)
  /\ UNCHANGED << mode, listening, file, crashed, hasty >>

suspend_NoReply_Mutant(d, c) ==
  /\ Asks(c, d, {"suspend"}) /\ server[d] # "null"
  /\ UNCHANGED vars

\* pause and resume go through server without a look.
suspend(d, c) ==
  /\ Asks(c, d, {"suspend"}) /\ server[d] # "null"
  /\ Succeeds(c)
  /\ UNCHANGED << daemons, file, crashed, hasty >>

suspendNothing(d, c) ==
  /\ Asks(c, d, {"suspend"}) /\ server[d] = "null"
  /\ Dies(d) /\ crashed' = TRUE

\* "alive", and a number for processCommand, which does nothing.
reply(d, c) ==
  /\ Asks(c, d, {"start", "adduser", "num"})
  /\ Succeeds(c)
  /\ UNCHANGED << daemons, file, crashed, hasty >>

-----------------------------------------------------------------------------
controller(c) == connectTo(c) \/ startDetached(c)

process(d) ==
  \/ setPathUnlink(d) \/ setPathBind(d) \/ start(d)
  \/ leaveLoop(d) \/ closeSocket(d) \/ unlinkAndExit(d) \/ exit(d)

slotReady(d, c) == terminate(d, c) \/ suspend(d, c) \/ suspendNothing(d, c) \/ reply(d, c)
serves(d, c)    == incomingConnection(d, c) \/ slotReady(d, c)

Next ==
  \/ \E c \in Controllers : controller(c) \/ \E cmd \in Commands : Call(c, cmd)
  \/ \E d \in Daemons : process(d) \/ Exec(d) \/ Kill(d)
  \/ \E d \in Daemons, c \in Controllers : serves(d, c)

\* Processes get their turns, and an event loop serves each of its sockets.
Fairness ==
  /\ \A c \in Controllers : WF_vars(controller(c))
  /\ \A d \in Daemons : WF_vars(process(d))
  /\ \A c \in Controllers : WF_vars(\E d \in Daemons : serves(d, c))

Spec == Init /\ [][Next]_vars
LiveSpec == Spec /\ Fairness

-----------------------------------------------------------------------------
(* Properties.                                                             *)

Reachable == \A d \in Daemons :
  (daemon[d] = "serving" /\ mode[d] = "service") => file = d /\ d \in listening

\* The service can be commanded: the socket file leads to it, after kills and
\* failed starts too, as long as each command waits until the last is through.
ServiceIsReachable == hasty \/ Reachable

\* While nobody is hasty at most one process takes commands: a start asks first
\* who is alive, and what has ended has let go of its socket.
OneTakesCommands == hasty \/ \A d, e \in listening : d = e

\* As long as commands wait for one another, no pause or resume finds the service
\* without its server: neither before the start nor after it has failed.  When
\* terminate and pause are read in one round they do (NoCommandCrashes).
CommandFindsServer == crashed => hasty

\* At the other end of a connection that a controller waits on there is a process
\* that holds it and has still to answer or to end it: no order of starts, ends
\* and kills leaves a controller waiting for nobody.
NobodyIsAbandoned ==
  \A c \in Controllers :
    ctl[c].pc \in {"waiting", "accepted"} =>
      \E d \in Daemons : ctl[c].to = d /\ (d \in listening \/ daemon[d] = "closed")

\* A controller, which waits for its reply without a limit, gets an answer or
\* sees its connection end, whatever the order of the commands.
CommandReturns ==
  \A c \in Controllers : ctl[c].pc \in {"waiting", "accepted"} ~> ctl[c].pc \notin {"waiting", "accepted"}

\* isRunning "returns true if the service is running; otherwise returns false".
RunningServiceIsReachable == Reachable

\* "The function does nothing if the service is not running" (qtservice.cpp, pause
\* and resume): a command that comes too late does not end the process.
NoCommandCrashes == ~crashed
=============================================================================
