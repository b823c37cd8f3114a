---------------------------- MODULE QtServiceWin ----------------------------
(***************************************************************************)
(* The service on Windows (server/qt/qtservice_win.cpp): the main thread    *)
(* runs start() and the event loop, the handler thread sits in Windows'     *)
(* dispatcher and is called with the controls, and a third thread runs      *)
(* serviceMain.  The last two hand each control to the main thread as a     *)
(* posted event and wait for it on one condition; mutex is released only in *)
(* that wait, so that a stretch under the mutex is one step here.          *)
(*                                                                         *)
(* An operator whose name ends in _Mutant is the one after it with a bug    *)
(* planted, to show that a property notices.                               *)
(***************************************************************************)
EXTENDS Integers, Sequences

CONSTANTS
  Env           \* what the surroundings may do in this instance

EnvEvents ==
  { "startfail",  \* EasysyncService::start fails: no port, no database
    "slow",       \* a wait with a time limit may run into it
    "console",    \* the program is started by hand
    "shutdown" }  \* the system ends the process: it asked for no SHUTDOWN control

ASSUME WinServiceAssumption == Env \subseteq EnvEvents

VARIABLES
  main,         \* where the main thread is in QtServiceBasePrivate::start
  thread,       \* where the two other threads are
  code,         \* the control each of them handles
  success,      \* HandlerThread::success
  startSemaphore, startSemaphore2,
  posted,       \* events for controllerHandler
  quit,         \* QCoreApplication::quit was called
  server,       \* EasysyncService::server, paused if it is disabled
  status,       \* sysd->status.dwCurrentState
  reported,     \* what the service manager was told last
  failed        \* history: start() failed in this process

semaphores == << startSemaphore, startSemaphore2 >>
states     == << status, reported >>
vars == << main, thread, code, success, semaphores, posted, quit, server, states, failed >>

Threads == {"serviceMain", "handler"}
Controls == {"stop", "pause", "continue", "interrogate", "user"}
States == {"STOPPED", "START_PENDING", "STOP_PENDING", "RUNNING",
           "CONTINUE_PENDING", "PAUSE_PENDING", "PAUSED"}

InHandler == {"enter", "waiting", "woken", "report"}

TypeOK ==
  /\ main \in {"waitArgs", "create", "exec", "waitHandler", "end", "gone"}
  /\ thread \in [Threads -> {"none", "begin", "acquire2", "dispatch", "finished"} \cup InHandler]
  /\ code \in [Threads -> Controls \cup {"startup", "none"}]
  /\ success \in BOOLEAN
  /\ startSemaphore \in {0, 1} /\ startSemaphore2 \in {0, 1}
  /\ posted \in Seq(Controls \cup {"startup"})
  /\ quit \in BOOLEAN
  /\ server \in {"null", "running", "paused"}
  /\ status \in States /\ reported \in States
  /\ failed \in BOOLEAN

\* No process; the manager takes it for stopped.
Init ==
  /\ main = "gone"
  /\ thread = [t \in Threads |-> "none"] /\ code = [t \in Threads |-> "none"]
  /\ success = TRUE
  /\ startSemaphore = 0 /\ startSemaphore2 = 0
  /\ posted = << >> /\ quit = FALSE /\ server = "null"
  /\ status = "STOPPED" /\ reported = "STOPPED" /\ failed = FALSE

\* The process ends, and all its threads with it.
Gone ==
  /\ main' = "gone"
  /\ thread' = [t \in Threads |-> "none"] /\ code' = [t \in Threads |-> "none"]
  /\ success' = TRUE
  /\ startSemaphore' = 0 /\ startSemaphore2' = 0
  /\ posted' = << >> /\ quit' = FALSE /\ server' = "null"
  /\ status' = "STOPPED" /\ reported' = "STOPPED" /\ failed' = FALSE

At(t, place)   == thread[t] = place
Goes(t, place) == thread' = [thread EXCEPT ![t] = place]
setStatus(s)   == status' = s /\ reported' = s

-----------------------------------------------------------------------------
(* The start.                                                              *)

\* The manager's StartService, or a user: sysInit, and the handler thread.
Launch ==
  /\ main = "gone"
  /\ main' = "waitArgs" /\ Goes("handler", "begin")
  /\ UNCHANGED << code, success, semaphores, posted, quit, server, states, failed >>

\* StartServiceCtrlDispatcher: the manager takes the service for starting, and runs serviceMain in a thread.
dispatcherStarts ==
  /\ At("handler", "begin")
  /\ thread' = [serviceMain |-> "begin", handler |-> "dispatch"]
  /\ reported' = "START_PENDING"
  /\ UNCHANGED << main, code, success, semaphores, posted, quit, server, status, failed >>

\* It fails for a process that the manager did not start.
dispatcherFails ==
  /\ "console" \in Env /\ At("handler", "begin")
  /\ success' = FALSE /\ startSemaphore' = startSemaphore + 1
  /\ Goes("handler", "finished")
  /\ UNCHANGED << main, code, startSemaphore2, posted, quit, server, states, failed >>

\* It returns when the service has stopped.
dispatcherReturns ==
  /\ At("handler", "dispatch") /\ reported = "STOPPED"
  /\ Goes("handler", "finished")
  /\ UNCHANGED << main, code, success, semaphores, posted, quit, server, states, failed >>

serviceMainBegins ==
  /\ At("serviceMain", "begin")
  /\ startSemaphore' = startSemaphore + 1
  /\ Goes("serviceMain", "acquire2")
  /\ UNCHANGED << main, code, success, startSemaphore2, posted, quit, server, states, failed >>

serviceMain_NoAcquire_Mutant ==
  /\ At("serviceMain", "acquire2")
  /\ Goes("serviceMain", "enter") /\ code' = [code EXCEPT !["serviceMain"] = "startup"]
  /\ UNCHANGED << main, success, semaphores, posted, quit, server, states, failed >>

\* The handler is registered, and called for the start itself.
serviceMain ==
  /\ At("serviceMain", "acquire2") /\ startSemaphore2 > 0
  /\ startSemaphore2' = startSemaphore2 - 1
  /\ Goes("serviceMain", "enter") /\ code' = [code EXCEPT !["serviceMain"] = "startup"]
  /\ UNCHANGED << main, success, startSemaphore, posted, quit, server, states, failed >>

\* tryAcquire; without success the manager is asked for another process, or the
\* program gives up, and ends either way.
acquired ==
  /\ main = "waitArgs" /\ startSemaphore > 0
  /\ \/ /\ success
        /\ main' = "create" /\ startSemaphore' = startSemaphore - 1
        /\ UNCHANGED << thread, code, success, startSemaphore2, posted, quit, server, states, failed >>
     \/ ~success /\ Gone

timedOut == "slow" \in Env /\ main = "waitArgs" /\ startSemaphore = 0 /\ Gone

create ==
  /\ main = "create"
  /\ main' = "exec" /\ startSemaphore2' = startSemaphore2 + 1
  /\ UNCHANGED << thread, code, success, startSemaphore, posted, quit, server, states, failed >>

-----------------------------------------------------------------------------
(* handler(), in the handler thread or, for the start, in serviceMain.     *)

\* The manager gives one control at a time, and only in these states.
Control(c) ==
  /\ At("handler", "dispatch")
  /\ reported \notin {"STOPPED", "START_PENDING", "STOP_PENDING"}
  /\ Goes("handler", "enter") /\ code' = [code EXCEPT !["handler"] = c]
  /\ UNCHANGED << main, success, semaphores, posted, quit, server, states, failed >>

Pending == [startup |-> "START_PENDING", stop |-> "STOP_PENDING",
            pause |-> "PAUSE_PENDING", continue |-> "CONTINUE_PENDING"]
Final   == [startup |-> "RUNNING", pause |-> "PAUSED", continue |-> "RUNNING"]

\* An event for controllerHandler, which is there from create to cleanup.
post(c) == posted' = IF main \in {"exec", "waitHandler"} THEN Append(posted, c) ELSE posted

enter_RunningAtOnce_Mutant(t) ==
  /\ At(t, "enter") /\ code[t] # "interrogate"
  /\ IF code[t] \in DOMAIN Final THEN setStatus(Final[code[t]]) ELSE UNCHANGED states
  /\ post(code[t])
  /\ Goes(t, "waiting")
  /\ UNCHANGED << main, code, success, semaphores, quit, server, failed >>

\* Report the pending state, post the event, wait: under the mutex throughout.
enter(t) ==
  /\ At(t, "enter") /\ code[t] # "interrogate"
  /\ IF code[t] \in DOMAIN Pending THEN setStatus(Pending[code[t]]) ELSE UNCHANGED states
  /\ post(code[t])
  /\ Goes(t, "waiting")
  /\ UNCHANGED << main, code, success, semaphores, quit, server, failed >>

interrogate(t) ==
  /\ At(t, "enter") /\ code[t] = "interrogate"
  /\ Goes(t, "report")
  /\ UNCHANGED << main, code, success, semaphores, posted, quit, server, states, failed >>

awake_Code_Mutant(t) ==
  /\ At(t, "woken")
  /\ setStatus(code[t])
  /\ Goes(t, "report")
  /\ UNCHANGED << main, code, success, semaphores, posted, quit, server, failed >>

awake_Running_Mutant(t) ==
  /\ At(t, "woken")
  /\ IF code[t] \in DOMAIN Final THEN setStatus("RUNNING") ELSE UNCHANGED states
  /\ Goes(t, "report")
  /\ UNCHANGED << main, code, success, semaphores, posted, quit, server, failed >>

\* Awake, with the mutex again: the final state, unless that is start()'s affair.
awake(t) ==
  /\ At(t, "woken")
  /\ IF code[t] \in DOMAIN Final THEN setStatus(Final[code[t]]) ELSE UNCHANGED states
  /\ Goes(t, "report")
  /\ UNCHANGED << main, code, success, semaphores, posted, quit, server, failed >>

\* The current state is reported once more, outside of the mutex.
report(t) ==
  /\ At(t, "report")
  /\ reported' = IF status # "STOPPED" THEN status ELSE reported
  /\ Goes(t, IF t = "handler" THEN "dispatch" ELSE "finished")
  /\ code' = [code EXCEPT ![t] = "none"]
  /\ UNCHANGED << main, success, semaphores, posted, quit, server, status, failed >>

-----------------------------------------------------------------------------
(* The main thread's event loop, and the end.                              *)

wakeAll == thread' = [t \in Threads |-> IF At(t, "waiting") THEN "woken" ELSE thread[t]]

Effect_NoQuit_Mutant(c) ==
  \/ c = "startup" /\ server' = "running" /\ UNCHANGED << quit, failed >>
  \/ c = "stop" /\ server' = "null" /\ UNCHANGED << quit, failed >>
  \/ c = "pause" /\ server # "null" /\ server' = "paused" /\ UNCHANGED << quit, failed >>
  \/ c = "continue" /\ server # "null" /\ server' = "running" /\ UNCHANGED << quit, failed >>
  \/ c = "user" /\ UNCHANGED << server, quit, failed >>

\* The events, with what EasysyncService does; its start() quits when it fails.
Effect(c) ==
  \/ c = "startup" /\ server' = "running" /\ UNCHANGED << quit, failed >>
  \/ c = "startup" /\ "startfail" \in Env /\ quit' = TRUE /\ failed' = TRUE /\ UNCHANGED server
  \/ c = "stop" /\ server' = "null" /\ quit' = TRUE /\ UNCHANGED failed
  \/ c = "pause" /\ server # "null" /\ server' = "paused" /\ UNCHANGED << quit, failed >>
  \/ c = "continue" /\ server # "null" /\ server' = "running" /\ UNCHANGED << quit, failed >>
  \/ c = "user" /\ UNCHANGED << server, quit, failed >>

handleCustomEvent_NoWake_Mutant ==
  /\ main = "exec" /\ posted # << >>
  /\ Effect(Head(posted)) /\ posted' = Tail(posted)
  /\ IF Head(posted) = "stop" THEN UNCHANGED thread ELSE wakeAll
  /\ UNCHANGED << main, code, success, semaphores, states >>

\* Also of an event that is there when quit() was called: the loop may still
\* get to it.
handleCustomEvent ==
  /\ main = "exec" /\ posted # << >>
  /\ Effect(Head(posted)) /\ posted' = Tail(posted)
  /\ wakeAll
  /\ UNCHANGED << main, code, success, semaphores, states >>

\* pause or resume of a server that is NULL.
crash ==
  /\ main = "exec" /\ posted # << >> /\ Head(posted) \in {"pause", "continue"} /\ server = "null"
  /\ Gone

leaveLoop ==
  /\ main = "exec" /\ quit
  /\ setStatus("STOPPED") /\ main' = "waitHandler"
  /\ UNCHANGED << thread, code, success, semaphores, posted, quit, server, failed >>

\* wait(1000) for the handler thread; then controllerHandler and its events, the
\* application and sysd are deleted, whoever uses them.
cleanup ==
  /\ main = "waitHandler"
  /\ At("handler", "finished") \/ "slow" \in Env \/ At("handler", "waiting")
  /\ main' = "end" /\ posted' = << >>
  /\ UNCHANGED << thread, code, success, semaphores, quit, server, states, failed >>

exit == main = "end" /\ Gone

Shutdown == "shutdown" \in Env /\ main # "gone" /\ Gone

-----------------------------------------------------------------------------
mainThread == acquired \/ create \/ handleCustomEvent \/ crash \/ leaveLoop \/ cleanup \/ exit
serviceMainThread == serviceMainBegins \/ serviceMain
handlerThread == dispatcherStarts \/ dispatcherFails \/ dispatcherReturns
inHandler(t) == enter(t) \/ interrogate(t) \/ awake(t) \/ report(t)

Next ==
  \/ Launch \/ timedOut \/ Shutdown \/ \E c \in Controls : Control(c)
  \/ mainThread \/ serviceMainThread \/ handlerThread
  \/ \E t \in Threads : inHandler(t)

\* Every thread gets its turns.
Fairness ==
  /\ WF_vars(mainThread)
  /\ WF_vars(serviceMainThread \/ inHandler("serviceMain"))
  /\ WF_vars(handlerThread \/ inHandler("handler"))

Spec == Init /\ [][Next]_vars
LiveSpec == Spec /\ Fairness

-----------------------------------------------------------------------------
(* Properties.  A start() that fails is reported as a success by the thread *)
(* that waited for it: what follows then is told apart by failed.          *)

\* At most one thread waits on the condition, so that a wakeAll answers the
\* control it belongs to.
OneWaiter == \A t, u \in Threads : At(t, "waiting") /\ At(u, "waiting") => t = u

\* What the manager shows is what the daemon does: it serves when RUNNING is shown,
\* and is suspended when PAUSED is.
StatusIsTrue ==
  ~failed => /\ reported = "RUNNING" => server = "running"
             /\ reported = "PAUSED" => server = "paused"

\* What is pending is in somebody's hands, whatever the order of the threads: a
\* control that is waited for is the event that the loop will take next, and the
\* main thread does not go away from under it; a start is passed on by one of the
\* semaphores, and a stop by its event or by quit().
PendingIsUnderWay ==
  ~failed =>
    /\ \A t \in Threads : At(t, "waiting") => main = "exec" /\ posted = << code[t] >>
    /\ At("serviceMain", "acquire2") =>
         \/ main = "waitArgs" /\ startSemaphore = 1
         \/ main = "create"
         \/ main = "exec" /\ startSemaphore2 = 1
    /\ reported = "START_PENDING" => thread["serviceMain"] \in {"begin", "acquire2", "enter", "waiting", "woken"}
    /\ reported = "STOP_PENDING" => main = "exec" /\ (posted = << "stop" >> \/ quit)

\* A stop that was begun ends with the state that QtServiceController::stop
\* waits for.
StopEnds == reported = "STOP_PENDING" ~> reported = "STOPPED"

\* A start that was begun ends: the event is posted to a handler that exists, so
\* that serviceMain does not wait for ever.
StartEnds == reported = "START_PENDING" ~> reported # "START_PENDING"

\* The state is "reported as stopped by start() when qapp::exec returns", and
\* stays so (the comments in handler, qtservice_win.cpp 605 and 629).
StoppedIsFinal == main \in {"waitHandler", "end"} => reported = "STOPPED"
=============================================================================
