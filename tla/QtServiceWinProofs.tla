------------------------- MODULE QtServiceWinProofs -------------------------
(***************************************************************************)
(* Invariants of the Windows service, under every Env.  The argument: the   *)
(* manager gives no control before serviceMain is through with the start,   *)
(* and none after a stop, so that the two threads never wait together and   *)
(* what is posted is the control of the one that waits.                     *)
(***************************************************************************)
EXTENDS QtServiceWin, TLAPS

\* serviceMain is not through with the start.
Starting == thread["serviceMain"] \in {"begin", "acquire2", "enter", "waiting"}

\* The two semaphores pass the start from thread to thread.
Semaphores ==
  /\ thread["serviceMain"] # "dispatch"
  /\ startSemaphore = 1 => main = "waitArgs" /\ (At("serviceMain", "acquire2") \/ ~success)
  /\ At("serviceMain", "begin") => main = "waitArgs" /\ startSemaphore = 0
  /\ At("serviceMain", "acquire2") => main \in {"waitArgs", "create", "exec"}
  /\ At("serviceMain", "acquire2") /\ startSemaphore2 = 1 => main = "exec"
  /\ ~success => main = "waitArgs" /\ At("handler", "finished") /\ At("serviceMain", "none")
  /\ At("serviceMain", "none") => thread["handler"] \in {"none", "begin", "finished"}
  /\ At("handler", "begin") => At("serviceMain", "none") /\ main = "waitArgs" /\ startSemaphore = 0 /\ success
  /\ main \in {"waitArgs", "create"} =>
       /\ startSemaphore2 = 0 /\ posted = << >> /\ ~quit /\ ~failed /\ server = "null"
       /\ thread["serviceMain"] \in {"none", "begin", "acquire2"}
       /\ thread["handler"] \in {"begin", "dispatch", "finished"}
       /\ main = "create" => At("serviceMain", "acquire2")

\* Nothing is left of a process that is gone.
NothingLeft ==
  main = "gone" =>
    /\ \A t \in Threads : At(t, "none")
    /\ startSemaphore = 0 /\ startSemaphore2 = 0 /\ posted = << >> /\ ~quit /\ ~failed
    /\ success /\ reported = "STOPPED" /\ status = "STOPPED" /\ server = "null"

\* Until the start is through no control is given.
StartIsAlone ==
  Starting =>
    /\ At("handler", "dispatch") /\ reported = "START_PENDING" /\ ~quit /\ ~failed
    /\ thread["serviceMain"] \in {"enter", "waiting"} => main = "exec"

\* Each thread handles what it was called for.
CodesFit ==
  /\ thread["serviceMain"] \in InHandler => code["serviceMain"] = "startup"
  /\ thread["handler"] \in InHandler => code["handler"] \in Controls
  /\ thread["handler"] \in {"waiting", "woken"} => code["handler"] # "interrogate"
  /\ thread["handler"] \notin InHandler => code["handler"] = "none"

\* What is posted is the control of a thread that waits.
PostedByWaiter ==
  posted = << >> \/ \E t \in Threads : At(t, "waiting") /\ posted = << code[t] >>

StatesAgree ==
  /\ status = reported \/ (status = "STOPPED" /\ reported = "START_PENDING")
  /\ At("handler", "begin") => status = "STOPPED"

\* A start that did not fail: the start, then controls one at a time, then a stop.
InOrder ==
  ~failed =>
    /\ At("serviceMain", "woken") =>
         At("handler", "dispatch") /\ reported = "START_PENDING" /\ server = "running" /\ ~quit
    /\ thread["handler"] \in InHandler => thread["serviceMain"] \in {"report", "finished"}
    /\ At("handler", "waiting") /\ code["handler"] \in DOMAIN Pending => reported = Pending[code["handler"]]
    /\ At("handler", "woken") /\ code["handler"] = "pause" => server = "paused" /\ reported = "PAUSE_PENDING"
    /\ At("handler", "woken") /\ code["handler"] = "continue" => server = "running" /\ reported = "CONTINUE_PENDING"
    /\ quit => /\ reported \in {"STOP_PENDING", "STOPPED"}
               /\ thread["handler"] \notin {"enter", "waiting"} /\ code["handler"] \in {"stop", "none"}
               /\ thread["serviceMain"] \in {"report", "finished"}
    /\ main \in {"waitHandler", "end"} => quit

Order == Semaphores /\ NothingLeft /\ StartIsAlone /\ CodesFit /\ PostedByWaiter /\ StatesAgree /\ InOrder /\ StatusIsTrue

Inv == TypeOK /\ Order

-----------------------------------------------------------------------------
\* TypeOK without its Boolean variables, and these.
Values ==
  /\ main \in {"waitArgs", "create", "exec", "waitHandler", "end", "gone"}
  /\ thread \in [Threads -> {"none", "begin", "acquire2", "dispatch", "finished"} \cup InHandler]
  /\ code \in [Threads -> Controls \cup {"startup", "none"}]
  /\ startSemaphore \in {0, 1} /\ startSemaphore2 \in {0, 1}
  /\ server \in {"null", "running", "paused"}
  /\ status \in States /\ reported \in States

Events == posted \in Seq(Controls \cup {"startup"})

Flags == success \in BOOLEAN /\ quit \in BOOLEAN /\ failed \in BOOLEAN

\* TypeOK is no more than these parts.
LEMMA TypeParts == TypeOK <=> Values /\ Events /\ Flags
  BY DEF TypeOK, Values, Events, Flags

\* The states of the two tables, one by one.
LEMMA Tables ==
  /\ DOMAIN Pending = {"startup", "stop", "pause", "continue"}
  /\ DOMAIN Final = {"startup", "pause", "continue"}
  /\ Pending["startup"] = "START_PENDING" /\ Pending["stop"] = "STOP_PENDING"
  /\ Pending["pause"] = "PAUSE_PENDING" /\ Pending["continue"] = "CONTINUE_PENDING"
  /\ Final["startup"] = "RUNNING" /\ Final["pause"] = "PAUSED" /\ Final["continue"] = "RUNNING"
  BY DEF Pending, Final

\* A queue of one event.
LEMMA OneEvent ==
  ASSUME NEW c \in Controls \cup {"startup"}
  PROVE  Head(<< c >>) = c /\ Tail(<< c >>) = << >> /\ << c >> # << >> /\ Append(<< >>, c) = << c >>
  OBVIOUS

\* Every variable keeps its type.
LEMMA ValuesStep ==
  ASSUME Values, Semaphores, Flags, [Next]_vars
  PROVE  Values'
<1> USE DEF Values, Semaphores, Controls, States, Threads, InHandler, At, Goes
<1>1. CASE Launch
  BY <1>1 DEF Launch, semaphores, states
<1>2. CASE timedOut
  BY <1>2 DEF timedOut, Gone
<1>3. CASE Shutdown
  BY <1>3 DEF Shutdown, Gone
<1>4. CASE \E c \in Controls : Control(c)
  BY <1>4 DEF Control, semaphores, states
<1>5. CASE acquired
  BY <1>5 DEF acquired, Gone, semaphores, states
<1>6. CASE create
  BY <1>6 DEF create, semaphores, states
<1>7. CASE handleCustomEvent
  BY <1>7 DEF handleCustomEvent, semaphores, states, wakeAll, Effect
<1>8. CASE crash
  BY <1>8 DEF crash, Gone
<1>9. CASE leaveLoop
  BY <1>9 DEF leaveLoop, semaphores, states, setStatus
<1>10. CASE cleanup
  BY <1>10 DEF cleanup, semaphores, states
<1>11. CASE exit
  BY <1>11 DEF exit, Gone
<1>12. CASE serviceMainBegins
  BY <1>12 DEF serviceMainBegins, semaphores, states
<1>13. CASE serviceMain
  BY <1>13 DEF serviceMain, semaphores, states
<1>14. CASE dispatcherStarts
  BY <1>14 DEF dispatcherStarts, semaphores, states
<1>15. CASE dispatcherFails
  BY <1>15 DEF dispatcherFails, semaphores, states
<1>16. CASE dispatcherReturns
  BY <1>16 DEF dispatcherReturns, semaphores, states
<1>17. CASE \E t \in Threads : enter(t)
  BY <1>17, Tables DEF enter, semaphores, states, setStatus, post
<1>18. CASE \E t \in Threads : interrogate(t)
  BY <1>18 DEF interrogate, semaphores, states
<1>19. CASE \E t \in Threads : awake(t)
  BY <1>19, Tables DEF awake, semaphores, states, setStatus
<1>20. CASE \E t \in Threads : report(t)
  BY <1>20 DEF report, semaphores, states
<1>21. CASE UNCHANGED vars
  BY <1>21 DEF vars, semaphores, states
<1>22. QED
  BY <1>1, <1>2, <1>3, <1>4, <1>5, <1>6, <1>7, <1>8, <1>9, <1>10, <1>11, <1>12, <1>13, <1>14, <1>15, <1>16, <1>17, <1>18, <1>19, <1>20, <1>21 DEF Next, mainThread, serviceMainThread, handlerThread, inHandler

\* The queue holds events.
LEMMA EventsStep ==
  ASSUME Values, Order, Events, [Next]_vars
  PROVE  Events'
<1> USE DEF Values, Events, Controls, Threads, InHandler, At, Goes
<1>1. CASE Launch
  BY <1>1 DEF Launch, semaphores, states
<1>2. CASE timedOut
  BY <1>2 DEF timedOut, Gone
<1>3. CASE Shutdown
  BY <1>3 DEF Shutdown, Gone
<1>4. CASE \E c \in Controls : Control(c)
  BY <1>4 DEF Control, semaphores, states
<1>5. CASE acquired
  <2>1. posted' = posted \/ posted' = << >>
    BY <1>5 DEF acquired, Gone
  <2>2. << >> \in Seq(Controls \cup {"startup"})
    OBVIOUS
  <2>3. QED
    BY <2>1, <2>2
<1>6. CASE create
  BY <1>6 DEF create, semaphores, states
<1>7. CASE handleCustomEvent
  <2>1. Tail(posted) \in Seq(Controls \cup {"startup"})
    BY <1>7 DEF handleCustomEvent
  <2>2. QED
    BY <1>7, <2>1 DEF handleCustomEvent
<1>8. CASE crash
  BY <1>8 DEF crash, Gone
<1>9. CASE leaveLoop
  BY <1>9 DEF leaveLoop, semaphores, states, setStatus
<1>10. CASE cleanup
  BY <1>10 DEF cleanup, semaphores, states
<1>11. CASE exit
  BY <1>11 DEF exit, Gone
<1>12. CASE serviceMainBegins
  BY <1>12 DEF serviceMainBegins, semaphores, states
<1>13. CASE serviceMain
  BY <1>13 DEF serviceMain, semaphores, states
<1>14. CASE dispatcherStarts
  BY <1>14 DEF dispatcherStarts, semaphores, states
<1>15. CASE dispatcherFails
  BY <1>15 DEF dispatcherFails, semaphores, states
<1>16. CASE dispatcherReturns
  BY <1>16 DEF dispatcherReturns, semaphores, states
<1>17. CASE \E t \in Threads : enter(t)
  <2>1. PICK t \in Threads : enter(t)
    BY <1>17
  <2>2. code[t] \in Controls \cup {"startup"}
    BY <2>1 DEF Order, CodesFit, enter
  <2>3. QED
    BY <2>1, <2>2 DEF enter, post
<1>18. CASE \E t \in Threads : interrogate(t)
  BY <1>18 DEF interrogate, semaphores, states
<1>19. CASE \E t \in Threads : awake(t)
  BY <1>19 DEF awake, semaphores, states, setStatus
<1>20. CASE \E t \in Threads : report(t)
  BY <1>20 DEF report, semaphores, states
<1>21. CASE UNCHANGED vars
  BY <1>21 DEF vars, semaphores, states
<1>22. QED
  BY <1>1, <1>2, <1>3, <1>4, <1>5, <1>6, <1>7, <1>8, <1>9, <1>10, <1>11, <1>12, <1>13, <1>14, <1>15, <1>16, <1>17, <1>18, <1>19, <1>20, <1>21 DEF Next, mainThread, serviceMainThread, handlerThread, inHandler

\* The Boolean variables stay Boolean.
LEMMA FlagsStep ==
  ASSUME Flags, [Next]_vars
  PROVE  Flags'
<1> USE DEF Flags
<1>1. CASE Launch
  BY <1>1 DEF Launch, semaphores, states
<1>2. CASE timedOut
  BY <1>2 DEF timedOut, Gone
<1>3. CASE Shutdown
  BY <1>3 DEF Shutdown, Gone
<1>4. CASE \E c \in Controls : Control(c)
  BY <1>4 DEF Control, semaphores, states
<1>5. CASE acquired
  BY <1>5 DEF acquired, Gone, semaphores, states
<1>6. CASE create
  BY <1>6 DEF create, semaphores, states
<1>7. CASE handleCustomEvent
  BY <1>7 DEF handleCustomEvent, semaphores, states, wakeAll, Effect
<1>8. CASE crash
  BY <1>8 DEF crash, Gone
<1>9. CASE leaveLoop
  BY <1>9 DEF leaveLoop, semaphores, states, setStatus
<1>10. CASE cleanup
  BY <1>10 DEF cleanup, semaphores, states
<1>11. CASE exit
  BY <1>11 DEF exit, Gone
<1>12. CASE serviceMainBegins
  BY <1>12 DEF serviceMainBegins, semaphores, states
<1>13. CASE serviceMain
  BY <1>13 DEF serviceMain, semaphores, states
<1>14. CASE dispatcherStarts
  BY <1>14 DEF dispatcherStarts, semaphores, states
<1>15. CASE dispatcherFails
  BY <1>15 DEF dispatcherFails, semaphores, states
<1>16. CASE dispatcherReturns
  BY <1>16 DEF dispatcherReturns, semaphores, states
<1>17. CASE \E t \in Threads : enter(t)
  BY <1>17 DEF enter, semaphores, states, setStatus, post
<1>18. CASE \E t \in Threads : interrogate(t)
  BY <1>18 DEF interrogate, semaphores, states
<1>19. CASE \E t \in Threads : awake(t)
  BY <1>19 DEF awake, semaphores, states, setStatus
<1>20. CASE \E t \in Threads : report(t)
  BY <1>20 DEF report, semaphores, states
<1>21. CASE UNCHANGED vars
  BY <1>21 DEF vars, semaphores, states
<1>22. QED
  BY <1>1, <1>2, <1>3, <1>4, <1>5, <1>6, <1>7, <1>8, <1>9, <1>10, <1>11, <1>12, <1>13, <1>14, <1>15, <1>16, <1>17, <1>18, <1>19, <1>20, <1>21 DEF Next, mainThread, serviceMainThread, handlerThread, inHandler

\* What a thread that enters the handler meets, and what it leaves.
LEMMA Entered ==
  ASSUME Values, Order, NEW t \in Threads, enter(t)
  PROVE  posted = << >> /\ posted' = IF main \in {"exec", "waitHandler"} THEN << code[t] >> ELSE << >>
<1>1. \A u \in Threads : ~At(u, "waiting")
  BY DEF Threads, At, Order, StartIsAlone, Starting, InHandler, InOrder, enter
<1>2. posted = << >>
  BY <1>1 DEF Order, PostedByWaiter
<1>3. code[t] \in Controls \cup {"startup"}
  BY DEF Order, CodesFit, InHandler, At, Threads, enter
<1>4. QED
  BY <1>2, <1>3, OneEvent DEF enter, post

\* The event that the main thread takes is the control of a thread that waits.
LEMMA Answered ==
  ASSUME Values, Order, posted # << >>
  PROVE  \E t \in Threads : At(t, "waiting") /\ Head(posted) = code[t] /\ Tail(posted) = << >>
<1>1. PICK t \in Threads : At(t, "waiting") /\ posted = << code[t] >>
  BY DEF Order, PostedByWaiter
<1>2. code[t] \in Controls \cup {"startup"}
  BY <1>1 DEF Order, CodesFit, InHandler, At, Threads
<1>3. QED
  BY <1>1, <1>2, OneEvent

\* The semaphores pass the start on.
LEMMA SemaphoresStep ==
  ASSUME Values, Flags, Order, [Next]_vars
  PROVE  Semaphores'
<1> USE DEF Values, Flags, Order, Controls, Semaphores, NothingLeft, StartIsAlone, Starting, Threads, InHandler, At, Goes
<1>1. CASE Launch
  BY <1>1 DEF Launch, semaphores, states
<1>2. CASE timedOut
  BY <1>2 DEF timedOut, Gone
<1>3. CASE Shutdown
  BY <1>3 DEF Shutdown, Gone
<1>4. CASE \E c \in Controls : Control(c)
  BY <1>4 DEF Control, semaphores, states
<1>5. CASE acquired
  BY <1>5 DEF acquired, Gone, semaphores, states
<1>6. CASE create
  BY <1>6 DEF create, semaphores, states
<1>7. CASE handleCustomEvent
  <2>1. PICK t \in Threads : At(t, "waiting") /\ Head(posted) = code[t] /\ Tail(posted) = << >>
    BY <1>7, Answered DEF handleCustomEvent
  <2>2. Effect(code[t]) /\ posted' = << >>
    BY <1>7, <2>1 DEF handleCustomEvent
  <2>3. UNCHANGED << main, code, success, startSemaphore, startSemaphore2, status, reported >>
    BY <1>7 DEF handleCustomEvent, semaphores, states
  <2>4. thread' = [u \in Threads |-> IF At(u, "waiting") THEN "woken" ELSE thread[u]]
    BY <1>7 DEF handleCustomEvent, wakeAll
  <2>5. QED
    BY <2>1, <2>2, <2>3, <2>4, Tables DEF Effect
<1>8. CASE crash
  BY <1>8 DEF crash, Gone
<1>9. CASE leaveLoop
  BY <1>9 DEF leaveLoop, semaphores, states, setStatus
<1>10. CASE cleanup
  BY <1>10 DEF cleanup, semaphores, states
<1>11. CASE exit
  BY <1>11 DEF exit, Gone
<1>12. CASE serviceMainBegins
  BY <1>12 DEF serviceMainBegins, semaphores, states
<1>13. CASE serviceMain
  BY <1>13 DEF serviceMain, semaphores, states
<1>14. CASE dispatcherStarts
  BY <1>14 DEF dispatcherStarts, semaphores, states
<1>15. CASE dispatcherFails
  BY <1>15 DEF dispatcherFails, semaphores, states
<1>16. CASE dispatcherReturns
  BY <1>16 DEF dispatcherReturns, semaphores, states
<1>17. CASE \E t \in Threads : enter(t)
  <2>1. PICK t \in Threads : enter(t)
    BY <1>17
  <2>2. posted' = IF main \in {"exec", "waitHandler"} THEN << code[t] >> ELSE << >>
    BY <2>1, Entered DEF Order
  <2>3. QED
    BY <2>1, <2>2, Tables DEF enter, semaphores, states, setStatus
<1>18. CASE \E t \in Threads : interrogate(t)
  BY <1>18 DEF interrogate, semaphores, states
<1>19. CASE \E t \in Threads : awake(t)
  BY <1>19, Tables DEF awake, semaphores, states, setStatus
<1>20. CASE \E t \in Threads : report(t)
  BY <1>20 DEF report, semaphores, states
<1>21. CASE UNCHANGED vars
  BY <1>21 DEF vars, semaphores, states
<1>22. QED
  BY <1>1, <1>2, <1>3, <1>4, <1>5, <1>6, <1>7, <1>8, <1>9, <1>10, <1>11, <1>12, <1>13, <1>14, <1>15, <1>16, <1>17, <1>18, <1>19, <1>20, <1>21 DEF Next, mainThread, serviceMainThread, handlerThread, inHandler

\* An end leaves nothing.
LEMMA NothingLeftStep ==
  ASSUME Values, Flags, Order, [Next]_vars
  PROVE  NothingLeft'
<1> USE DEF Values, Flags, Order, Controls, NothingLeft, Semaphores, StartIsAlone, Starting, Threads, InHandler, At, Goes
<1>1. CASE Launch
  BY <1>1 DEF Launch, semaphores, states
<1>2. CASE timedOut
  BY <1>2 DEF timedOut, Gone
<1>3. CASE Shutdown
  BY <1>3 DEF Shutdown, Gone
<1>4. CASE \E c \in Controls : Control(c)
  BY <1>4 DEF Control, semaphores, states
<1>5. CASE acquired
  BY <1>5 DEF acquired, Gone, semaphores, states
<1>6. CASE create
  BY <1>6 DEF create, semaphores, states
<1>7. CASE handleCustomEvent
  <2>1. PICK t \in Threads : At(t, "waiting") /\ Head(posted) = code[t] /\ Tail(posted) = << >>
    BY <1>7, Answered DEF handleCustomEvent
  <2>2. Effect(code[t]) /\ posted' = << >>
    BY <1>7, <2>1 DEF handleCustomEvent
  <2>3. UNCHANGED << main, code, success, startSemaphore, startSemaphore2, status, reported >>
    BY <1>7 DEF handleCustomEvent, semaphores, states
  <2>4. thread' = [u \in Threads |-> IF At(u, "waiting") THEN "woken" ELSE thread[u]]
    BY <1>7 DEF handleCustomEvent, wakeAll
  <2>5. QED
    BY <2>1, <2>2, <2>3, <2>4, Tables DEF Effect
<1>8. CASE crash
  BY <1>8 DEF crash, Gone
<1>9. CASE leaveLoop
  BY <1>9 DEF leaveLoop, semaphores, states, setStatus
<1>10. CASE cleanup
  BY <1>10 DEF cleanup, semaphores, states
<1>11. CASE exit
  BY <1>11 DEF exit, Gone
<1>12. CASE serviceMainBegins
  BY <1>12 DEF serviceMainBegins, semaphores, states
<1>13. CASE serviceMain
  BY <1>13 DEF serviceMain, semaphores, states
<1>14. CASE dispatcherStarts
  BY <1>14 DEF dispatcherStarts, semaphores, states
<1>15. CASE dispatcherFails
  BY <1>15 DEF dispatcherFails, semaphores, states
<1>16. CASE dispatcherReturns
  BY <1>16 DEF dispatcherReturns, semaphores, states
<1>17. CASE \E t \in Threads : enter(t)
  <2>1. PICK t \in Threads : enter(t)
    BY <1>17
  <2>2. posted' = IF main \in {"exec", "waitHandler"} THEN << code[t] >> ELSE << >>
    BY <2>1, Entered DEF Order
  <2>3. QED
    BY <2>1, <2>2, Tables DEF enter, semaphores, states, setStatus
<1>18. CASE \E t \in Threads : interrogate(t)
  BY <1>18 DEF interrogate, semaphores, states
<1>19. CASE \E t \in Threads : awake(t)
  BY <1>19, Tables DEF awake, semaphores, states, setStatus
<1>20. CASE \E t \in Threads : report(t)
  BY <1>20 DEF report, semaphores, states
<1>21. CASE UNCHANGED vars
  BY <1>21 DEF vars, semaphores, states
<1>22. QED
  BY <1>1, <1>2, <1>3, <1>4, <1>5, <1>6, <1>7, <1>8, <1>9, <1>10, <1>11, <1>12, <1>13, <1>14, <1>15, <1>16, <1>17, <1>18, <1>19, <1>20, <1>21 DEF Next, mainThread, serviceMainThread, handlerThread, inHandler

\* The start has the handler for itself.
LEMMA StartIsAloneStep ==
  ASSUME Values, Flags, Order, [Next]_vars
  PROVE  StartIsAlone'
<1> USE DEF Values, Flags, Order, Controls, StartIsAlone, Starting, Semaphores, NothingLeft, StatesAgree, CodesFit, Threads, InHandler, At, Goes
<1>1. CASE Launch
  BY <1>1 DEF Launch, semaphores, states
<1>2. CASE timedOut
  BY <1>2 DEF timedOut, Gone
<1>3. CASE Shutdown
  BY <1>3 DEF Shutdown, Gone
<1>4. CASE \E c \in Controls : Control(c)
  BY <1>4 DEF Control, semaphores, states
<1>5. CASE acquired
  BY <1>5 DEF acquired, Gone, semaphores, states
<1>6. CASE create
  BY <1>6 DEF create, semaphores, states
<1>7. CASE handleCustomEvent
  <2>1. PICK t \in Threads : At(t, "waiting") /\ Head(posted) = code[t] /\ Tail(posted) = << >>
    BY <1>7, Answered DEF handleCustomEvent
  <2>2. Effect(code[t]) /\ posted' = << >>
    BY <1>7, <2>1 DEF handleCustomEvent
  <2>3. UNCHANGED << main, code, success, startSemaphore, startSemaphore2, status, reported >>
    BY <1>7 DEF handleCustomEvent, semaphores, states
  <2>4. thread' = [u \in Threads |-> IF At(u, "waiting") THEN "woken" ELSE thread[u]]
    BY <1>7 DEF handleCustomEvent, wakeAll
  <2>5. QED
    BY <2>1, <2>2, <2>3, <2>4, Tables DEF Effect
<1>8. CASE crash
  BY <1>8 DEF crash, Gone
<1>9. CASE leaveLoop
  BY <1>9 DEF leaveLoop, semaphores, states, setStatus
<1>10. CASE cleanup
  BY <1>10 DEF cleanup, semaphores, states
<1>11. CASE exit
  BY <1>11 DEF exit, Gone
<1>12. CASE serviceMainBegins
  BY <1>12 DEF serviceMainBegins, semaphores, states
<1>13. CASE serviceMain
  BY <1>13 DEF serviceMain, semaphores, states
<1>14. CASE dispatcherStarts
  BY <1>14 DEF dispatcherStarts, semaphores, states
<1>15. CASE dispatcherFails
  BY <1>15 DEF dispatcherFails, semaphores, states
<1>16. CASE dispatcherReturns
  BY <1>16 DEF dispatcherReturns, semaphores, states
<1>17. CASE \E t \in Threads : enter(t)
  <2>1. PICK t \in Threads : enter(t)
    BY <1>17
  <2>2. posted' = IF main \in {"exec", "waitHandler"} THEN << code[t] >> ELSE << >>
    BY <2>1, Entered DEF Order
  <2>3. QED
    BY <2>1, <2>2, Tables DEF enter, semaphores, states, setStatus
<1>18. CASE \E t \in Threads : interrogate(t)
  BY <1>18 DEF interrogate, semaphores, states
<1>19. CASE \E t \in Threads : awake(t)
  BY <1>19, Tables DEF awake, semaphores, states, setStatus
<1>20. CASE \E t \in Threads : report(t)
  BY <1>20 DEF report, semaphores, states
<1>21. CASE UNCHANGED vars
  BY <1>21 DEF vars, semaphores, states
<1>22. QED
  BY <1>1, <1>2, <1>3, <1>4, <1>5, <1>6, <1>7, <1>8, <1>9, <1>10, <1>11, <1>12, <1>13, <1>14, <1>15, <1>16, <1>17, <1>18, <1>19, <1>20, <1>21 DEF Next, mainThread, serviceMainThread, handlerThread, inHandler

\* A thread keeps its control until it is through with it.
LEMMA CodesFitStep ==
  ASSUME Values, Flags, Order, [Next]_vars
  PROVE  CodesFit'
<1> USE DEF Values, Flags, Order, Controls, CodesFit, NothingLeft, Semaphores, StartIsAlone, Starting, Threads, InHandler, At, Goes
<1>1. CASE Launch
  BY <1>1 DEF Launch, semaphores, states
<1>2. CASE timedOut
  BY <1>2 DEF timedOut, Gone
<1>3. CASE Shutdown
  BY <1>3 DEF Shutdown, Gone
<1>4. CASE \E c \in Controls : Control(c)
  BY <1>4 DEF Control, semaphores, states
<1>5. CASE acquired
  BY <1>5 DEF acquired, Gone, semaphores, states
<1>6. CASE create
  BY <1>6 DEF create, semaphores, states
<1>7. CASE handleCustomEvent
  <2>1. PICK t \in Threads : At(t, "waiting") /\ Head(posted) = code[t] /\ Tail(posted) = << >>
    BY <1>7, Answered DEF handleCustomEvent
  <2>2. Effect(code[t]) /\ posted' = << >>
    BY <1>7, <2>1 DEF handleCustomEvent
  <2>3. UNCHANGED << main, code, success, startSemaphore, startSemaphore2, status, reported >>
    BY <1>7 DEF handleCustomEvent, semaphores, states
  <2>4. thread' = [u \in Threads |-> IF At(u, "waiting") THEN "woken" ELSE thread[u]]
    BY <1>7 DEF handleCustomEvent, wakeAll
  <2>5. QED
    BY <2>1, <2>2, <2>3, <2>4, Tables DEF Effect
<1>8. CASE crash
  BY <1>8 DEF crash, Gone
<1>9. CASE leaveLoop
  BY <1>9 DEF leaveLoop, semaphores, states, setStatus
<1>10. CASE cleanup
  BY <1>10 DEF cleanup, semaphores, states
<1>11. CASE exit
  BY <1>11 DEF exit, Gone
<1>12. CASE serviceMainBegins
  BY <1>12 DEF serviceMainBegins, semaphores, states
<1>13. CASE serviceMain
  BY <1>13 DEF serviceMain, semaphores, states
<1>14. CASE dispatcherStarts
  BY <1>14 DEF dispatcherStarts, semaphores, states
<1>15. CASE dispatcherFails
  BY <1>15 DEF dispatcherFails, semaphores, states
<1>16. CASE dispatcherReturns
  BY <1>16 DEF dispatcherReturns, semaphores, states
<1>17. CASE \E t \in Threads : enter(t)
  <2>1. PICK t \in Threads : enter(t)
    BY <1>17
  <2>2. posted' = IF main \in {"exec", "waitHandler"} THEN << code[t] >> ELSE << >>
    BY <2>1, Entered DEF Order
  <2>3. QED
    BY <2>1, <2>2, Tables DEF enter, semaphores, states, setStatus
<1>18. CASE \E t \in Threads : interrogate(t)
  BY <1>18 DEF interrogate, semaphores, states
<1>19. CASE \E t \in Threads : awake(t)
  BY <1>19, Tables DEF awake, semaphores, states, setStatus
<1>20. CASE \E t \in Threads : report(t)
  BY <1>20 DEF report, semaphores, states
<1>21. CASE UNCHANGED vars
  BY <1>21 DEF vars, semaphores, states
<1>22. QED
  BY <1>1, <1>2, <1>3, <1>4, <1>5, <1>6, <1>7, <1>8, <1>9, <1>10, <1>11, <1>12, <1>13, <1>14, <1>15, <1>16, <1>17, <1>18, <1>19, <1>20, <1>21 DEF Next, mainThread, serviceMainThread, handlerThread, inHandler

\* An event is posted by a thread that waits for it.
LEMMA PostedByWaiterStep ==
  ASSUME Values, Flags, Order, [Next]_vars
  PROVE  PostedByWaiter'
<1> USE DEF Values, Flags, Order, Controls, PostedByWaiter, NothingLeft, Semaphores, Threads, InHandler, At, Goes
<1>1. CASE Launch
  BY <1>1 DEF Launch, semaphores, states
<1>2. CASE timedOut
  BY <1>2 DEF timedOut, Gone
<1>3. CASE Shutdown
  BY <1>3 DEF Shutdown, Gone
<1>4. CASE \E c \in Controls : Control(c)
  BY <1>4 DEF Control, semaphores, states
<1>5. CASE acquired
  BY <1>5 DEF acquired, Gone, semaphores, states
<1>6. CASE create
  BY <1>6 DEF create, semaphores, states
<1>7. CASE handleCustomEvent
  <2>1. PICK t \in Threads : At(t, "waiting") /\ Head(posted) = code[t] /\ Tail(posted) = << >>
    BY <1>7, Answered DEF handleCustomEvent
  <2>2. Effect(code[t]) /\ posted' = << >>
    BY <1>7, <2>1 DEF handleCustomEvent
  <2>3. UNCHANGED << main, code, success, startSemaphore, startSemaphore2, status, reported >>
    BY <1>7 DEF handleCustomEvent, semaphores, states
  <2>4. thread' = [u \in Threads |-> IF At(u, "waiting") THEN "woken" ELSE thread[u]]
    BY <1>7 DEF handleCustomEvent, wakeAll
  <2>5. QED
    BY <2>1, <2>2, <2>3, <2>4, Tables DEF Effect
<1>8. CASE crash
  BY <1>8 DEF crash, Gone
<1>9. CASE leaveLoop
  BY <1>9 DEF leaveLoop, semaphores, states, setStatus
<1>10. CASE cleanup
  BY <1>10 DEF cleanup, semaphores, states
<1>11. CASE exit
  BY <1>11 DEF exit, Gone
<1>12. CASE serviceMainBegins
  BY <1>12 DEF serviceMainBegins, semaphores, states
<1>13. CASE serviceMain
  BY <1>13 DEF serviceMain, semaphores, states
<1>14. CASE dispatcherStarts
  BY <1>14 DEF dispatcherStarts, semaphores, states
<1>15. CASE dispatcherFails
  BY <1>15 DEF dispatcherFails, semaphores, states
<1>16. CASE dispatcherReturns
  BY <1>16 DEF dispatcherReturns, semaphores, states
<1>17. CASE \E t \in Threads : enter(t)
  <2>1. PICK t \in Threads : enter(t)
    BY <1>17
  <2>2. posted' = IF main \in {"exec", "waitHandler"} THEN << code[t] >> ELSE << >>
    BY <2>1, Entered DEF Order
  <2>3. QED
    BY <2>1, <2>2, Tables DEF enter, semaphores, states, setStatus
<1>18. CASE \E t \in Threads : interrogate(t)
  BY <1>18 DEF interrogate, semaphores, states
<1>19. CASE \E t \in Threads : awake(t)
  BY <1>19, Tables DEF awake, semaphores, states, setStatus
<1>20. CASE \E t \in Threads : report(t)
  BY <1>20 DEF report, semaphores, states
<1>21. CASE UNCHANGED vars
  BY <1>21 DEF vars, semaphores, states
<1>22. QED
  BY <1>1, <1>2, <1>3, <1>4, <1>5, <1>6, <1>7, <1>8, <1>9, <1>10, <1>11, <1>12, <1>13, <1>14, <1>15, <1>16, <1>17, <1>18, <1>19, <1>20, <1>21 DEF Next, mainThread, serviceMainThread, handlerThread, inHandler

\* sysd's state is the one reported, but for the first report of the dispatcher.
LEMMA StatesAgreeStep ==
  ASSUME Values, Flags, Order, [Next]_vars
  PROVE  StatesAgree'
<1> USE DEF Values, Flags, Order, Controls, StatesAgree, Semaphores, NothingLeft, Threads, InHandler, At, Goes
<1>1. CASE Launch
  BY <1>1 DEF Launch, semaphores, states
<1>2. CASE timedOut
  BY <1>2 DEF timedOut, Gone
<1>3. CASE Shutdown
  BY <1>3 DEF Shutdown, Gone
<1>4. CASE \E c \in Controls : Control(c)
  BY <1>4 DEF Control, semaphores, states
<1>5. CASE acquired
  BY <1>5 DEF acquired, Gone, semaphores, states
<1>6. CASE create
  BY <1>6 DEF create, semaphores, states
<1>7. CASE handleCustomEvent
  <2>1. PICK t \in Threads : At(t, "waiting") /\ Head(posted) = code[t] /\ Tail(posted) = << >>
    BY <1>7, Answered DEF handleCustomEvent
  <2>2. Effect(code[t]) /\ posted' = << >>
    BY <1>7, <2>1 DEF handleCustomEvent
  <2>3. UNCHANGED << main, code, success, startSemaphore, startSemaphore2, status, reported >>
    BY <1>7 DEF handleCustomEvent, semaphores, states
  <2>4. thread' = [u \in Threads |-> IF At(u, "waiting") THEN "woken" ELSE thread[u]]
    BY <1>7 DEF handleCustomEvent, wakeAll
  <2>5. QED
    BY <2>1, <2>2, <2>3, <2>4, Tables DEF Effect
<1>8. CASE crash
  BY <1>8 DEF crash, Gone
<1>9. CASE leaveLoop
  BY <1>9 DEF leaveLoop, semaphores, states, setStatus
<1>10. CASE cleanup
  BY <1>10 DEF cleanup, semaphores, states
<1>11. CASE exit
  BY <1>11 DEF exit, Gone
<1>12. CASE serviceMainBegins
  BY <1>12 DEF serviceMainBegins, semaphores, states
<1>13. CASE serviceMain
  BY <1>13 DEF serviceMain, semaphores, states
<1>14. CASE dispatcherStarts
  BY <1>14 DEF dispatcherStarts, semaphores, states
<1>15. CASE dispatcherFails
  BY <1>15 DEF dispatcherFails, semaphores, states
<1>16. CASE dispatcherReturns
  BY <1>16 DEF dispatcherReturns, semaphores, states
<1>17. CASE \E t \in Threads : enter(t)
  <2>1. PICK t \in Threads : enter(t)
    BY <1>17
  <2>2. posted' = IF main \in {"exec", "waitHandler"} THEN << code[t] >> ELSE << >>
    BY <2>1, Entered DEF Order
  <2>3. QED
    BY <2>1, <2>2, Tables DEF enter, semaphores, states, setStatus
<1>18. CASE \E t \in Threads : interrogate(t)
  BY <1>18 DEF interrogate, semaphores, states
<1>19. CASE \E t \in Threads : awake(t)
  BY <1>19, Tables DEF awake, semaphores, states, setStatus
<1>20. CASE \E t \in Threads : report(t)
  BY <1>20 DEF report, semaphores, states
<1>21. CASE UNCHANGED vars
  BY <1>21 DEF vars, semaphores, states
<1>22. QED
  BY <1>1, <1>2, <1>3, <1>4, <1>5, <1>6, <1>7, <1>8, <1>9, <1>10, <1>11, <1>12, <1>13, <1>14, <1>15, <1>16, <1>17, <1>18, <1>19, <1>20, <1>21 DEF Next, mainThread, serviceMainThread, handlerThread, inHandler

\* Controls come one at a time, and none after a stop.
LEMMA InOrderStep ==
  ASSUME Values, Flags, Order, [Next]_vars
  PROVE  InOrder'
<1> USE DEF Values, Flags, Order, Controls, InOrder, Semaphores, NothingLeft, StartIsAlone, Starting, CodesFit, StatesAgree, Threads, InHandler, At, Goes
<1>1. CASE Launch
  BY <1>1 DEF Launch, semaphores, states
<1>2. CASE timedOut
  BY <1>2 DEF timedOut, Gone
<1>3. CASE Shutdown
  BY <1>3 DEF Shutdown, Gone
<1>4. CASE \E c \in Controls : Control(c)
  BY <1>4 DEF Control, semaphores, states
<1>5. CASE acquired
  BY <1>5 DEF acquired, Gone, semaphores, states
<1>6. CASE create
  BY <1>6 DEF create, semaphores, states
<1>7. CASE handleCustomEvent
  <2>1. PICK t \in Threads : At(t, "waiting") /\ Head(posted) = code[t] /\ Tail(posted) = << >>
    BY <1>7, Answered DEF handleCustomEvent
  <2>2. Effect(code[t]) /\ posted' = << >>
    BY <1>7, <2>1 DEF handleCustomEvent
  <2>3. UNCHANGED << main, code, success, startSemaphore, startSemaphore2, status, reported >>
    BY <1>7 DEF handleCustomEvent, semaphores, states
  <2>4. thread' = [u \in Threads |-> IF At(u, "waiting") THEN "woken" ELSE thread[u]]
    BY <1>7 DEF handleCustomEvent, wakeAll
  <2>5. QED
    BY <2>1, <2>2, <2>3, <2>4, Tables DEF Effect
<1>8. CASE crash
  BY <1>8 DEF crash, Gone
<1>9. CASE leaveLoop
  BY <1>9 DEF leaveLoop, semaphores, states, setStatus
<1>10. CASE cleanup
  BY <1>10 DEF cleanup, semaphores, states
<1>11. CASE exit
  BY <1>11 DEF exit, Gone
<1>12. CASE serviceMainBegins
  BY <1>12 DEF serviceMainBegins, semaphores, states
<1>13. CASE serviceMain
  BY <1>13 DEF serviceMain, semaphores, states
<1>14. CASE dispatcherStarts
  BY <1>14 DEF dispatcherStarts, semaphores, states
<1>15. CASE dispatcherFails
  BY <1>15 DEF dispatcherFails, semaphores, states
<1>16. CASE dispatcherReturns
  BY <1>16 DEF dispatcherReturns, semaphores, states
<1>17. CASE \E t \in Threads : enter(t)
  <2>1. PICK t \in Threads : enter(t)
    BY <1>17
  <2>2. posted' = IF main \in {"exec", "waitHandler"} THEN << code[t] >> ELSE << >>
    BY <2>1, Entered DEF Order
  <2>3. QED
    BY <2>1, <2>2, Tables DEF enter, semaphores, states, setStatus
<1>18. CASE \E t \in Threads : interrogate(t)
  BY <1>18 DEF interrogate, semaphores, states
<1>19. CASE \E t \in Threads : awake(t)
  BY <1>19, Tables DEF awake, semaphores, states, setStatus
<1>20. CASE \E t \in Threads : report(t)
  BY <1>20 DEF report, semaphores, states
<1>21. CASE UNCHANGED vars
  BY <1>21 DEF vars, semaphores, states
<1>22. QED
  BY <1>1, <1>2, <1>3, <1>4, <1>5, <1>6, <1>7, <1>8, <1>9, <1>10, <1>11, <1>12, <1>13, <1>14, <1>15, <1>16, <1>17, <1>18, <1>19, <1>20, <1>21 DEF Next, mainThread, serviceMainThread, handlerThread, inHandler

\* What is reported is what the daemon does.
LEMMA StatusIsTrueStep ==
  ASSUME Values, Flags, Order, [Next]_vars
  PROVE  StatusIsTrue'
<1> USE DEF Values, Flags, Order, Controls, StatusIsTrue, InOrder, StatesAgree, StartIsAlone, Starting, CodesFit, NothingLeft, Semaphores, Threads, InHandler, At, Goes
<1>1. CASE Launch
  BY <1>1 DEF Launch, semaphores, states
<1>2. CASE timedOut
  BY <1>2 DEF timedOut, Gone
<1>3. CASE Shutdown
  BY <1>3 DEF Shutdown, Gone
<1>4. CASE \E c \in Controls : Control(c)
  BY <1>4 DEF Control, semaphores, states
<1>5. CASE acquired
  BY <1>5 DEF acquired, Gone, semaphores, states
<1>6. CASE create
  BY <1>6 DEF create, semaphores, states
<1>7. CASE handleCustomEvent
  <2>1. PICK t \in Threads : At(t, "waiting") /\ Head(posted) = code[t] /\ Tail(posted) = << >>
    BY <1>7, Answered DEF handleCustomEvent
  <2>2. Effect(code[t]) /\ posted' = << >>
    BY <1>7, <2>1 DEF handleCustomEvent
  <2>3. UNCHANGED << main, code, success, startSemaphore, startSemaphore2, status, reported >>
    BY <1>7 DEF handleCustomEvent, semaphores, states
  <2>4. thread' = [u \in Threads |-> IF At(u, "waiting") THEN "woken" ELSE thread[u]]
    BY <1>7 DEF handleCustomEvent, wakeAll
  <2>5. QED
    BY <2>1, <2>2, <2>3, <2>4, Tables DEF Effect
<1>8. CASE crash
  BY <1>8 DEF crash, Gone
<1>9. CASE leaveLoop
  BY <1>9 DEF leaveLoop, semaphores, states, setStatus
<1>10. CASE cleanup
  BY <1>10 DEF cleanup, semaphores, states
<1>11. CASE exit
  BY <1>11 DEF exit, Gone
<1>12. CASE serviceMainBegins
  BY <1>12 DEF serviceMainBegins, semaphores, states
<1>13. CASE serviceMain
  BY <1>13 DEF serviceMain, semaphores, states
<1>14. CASE dispatcherStarts
  BY <1>14 DEF dispatcherStarts, semaphores, states
<1>15. CASE dispatcherFails
  BY <1>15 DEF dispatcherFails, semaphores, states
<1>16. CASE dispatcherReturns
  BY <1>16 DEF dispatcherReturns, semaphores, states
<1>17. CASE \E t \in Threads : enter(t)
  <2>1. PICK t \in Threads : enter(t)
    BY <1>17
  <2>2. posted' = IF main \in {"exec", "waitHandler"} THEN << code[t] >> ELSE << >>
    BY <2>1, Entered DEF Order
  <2>3. QED
    BY <2>1, <2>2, Tables DEF enter, semaphores, states, setStatus
<1>18. CASE \E t \in Threads : interrogate(t)
  BY <1>18 DEF interrogate, semaphores, states
<1>19. CASE \E t \in Threads : awake(t)
  BY <1>19, Tables DEF awake, semaphores, states, setStatus
<1>20. CASE \E t \in Threads : report(t)
  BY <1>20 DEF report, semaphores, states
<1>21. CASE UNCHANGED vars
  BY <1>21 DEF vars, semaphores, states
<1>22. QED
  BY <1>1, <1>2, <1>3, <1>4, <1>5, <1>6, <1>7, <1>8, <1>9, <1>10, <1>11, <1>12, <1>13, <1>14, <1>15, <1>16, <1>17, <1>18, <1>19, <1>20, <1>21 DEF Next, mainThread, serviceMainThread, handlerThread, inHandler

\* What is pending passes from hand to hand.
LEMMA PendingStep ==
  ASSUME Values, Flags, Order, PendingIsUnderWay, [Next]_vars
  PROVE  PendingIsUnderWay'
<1> USE DEF Values, Flags, Order, Controls, PendingIsUnderWay, InOrder, Semaphores, NothingLeft, StartIsAlone, Starting, CodesFit, StatesAgree, Threads, InHandler, At, Goes
<1>1. CASE Launch
  BY <1>1 DEF Launch, semaphores, states
<1>2. CASE timedOut
  BY <1>2 DEF timedOut, Gone
<1>3. CASE Shutdown
  BY <1>3 DEF Shutdown, Gone
<1>4. CASE \E c \in Controls : Control(c)
  BY <1>4 DEF Control, semaphores, states
<1>5. CASE acquired
  BY <1>5 DEF acquired, Gone, semaphores, states
<1>6. CASE create
  BY <1>6 DEF create, semaphores, states
<1>7. CASE handleCustomEvent
  <2>1. PICK t \in Threads : At(t, "waiting") /\ Head(posted) = code[t] /\ Tail(posted) = << >>
    BY <1>7, Answered DEF handleCustomEvent
  <2>2. Effect(code[t]) /\ posted' = << >>
    BY <1>7, <2>1 DEF handleCustomEvent
  <2>3. UNCHANGED << main, code, success, startSemaphore, startSemaphore2, status, reported >>
    BY <1>7 DEF handleCustomEvent, semaphores, states
  <2>4. thread' = [u \in Threads |-> IF At(u, "waiting") THEN "woken" ELSE thread[u]]
    BY <1>7 DEF handleCustomEvent, wakeAll
  <2>5. QED
    BY <2>1, <2>2, <2>3, <2>4, Tables DEF Effect
<1>8. CASE crash
  BY <1>8 DEF crash, Gone
<1>9. CASE leaveLoop
  BY <1>9 DEF leaveLoop, semaphores, states, setStatus
<1>10. CASE cleanup
  BY <1>10 DEF cleanup, semaphores, states
<1>11. CASE exit
  BY <1>11 DEF exit, Gone
<1>12. CASE serviceMainBegins
  BY <1>12 DEF serviceMainBegins, semaphores, states
<1>13. CASE serviceMain
  BY <1>13 DEF serviceMain, semaphores, states
<1>14. CASE dispatcherStarts
  BY <1>14 DEF dispatcherStarts, semaphores, states
<1>15. CASE dispatcherFails
  BY <1>15 DEF dispatcherFails, semaphores, states
<1>16. CASE dispatcherReturns
  BY <1>16 DEF dispatcherReturns, semaphores, states
<1>17. CASE \E t \in Threads : enter(t)
  <2>1. PICK t \in Threads : enter(t)
    BY <1>17
  <2>2. posted' = IF main \in {"exec", "waitHandler"} THEN << code[t] >> ELSE << >>
    BY <2>1, Entered DEF Order
  <2>3. main = "exec" \/ failed
    BY <2>1 DEF enter
  <2>4. UNCHANGED << main, code, quit, failed >> /\ thread' = [thread EXCEPT ![t] = "waiting"]
    BY <2>1 DEF enter
  <2>5. reported' = IF code[t] \in DOMAIN Pending THEN Pending[code[t]] ELSE reported
    BY <2>1 DEF enter, setStatus, states
  <2>6. CASE t = "serviceMain"
    <3>1. code[t] = "startup" /\ At("handler", "dispatch")
      BY <2>1, <2>6 DEF enter
    <3>2. QED
      BY <2>2, <2>3, <2>4, <2>5, <2>6, <3>1, Tables
  <2>7. CASE t = "handler" /\ ~failed
    <3>1. code[t] \in Controls /\ thread["serviceMain"] \in {"report", "finished"} /\ ~quit
      BY <2>1, <2>7 DEF enter
    <3>2. reported # "START_PENDING" /\ reported' # "START_PENDING"
      BY <2>5, <2>7, <3>1, Tables
    <3>3. posted' = << code[t] >>
      BY <2>2, <2>3, <2>7
    <3>4. reported' = "STOP_PENDING" => code[t] = "stop"
      <4>1. posted = << >>
        BY <2>1, Entered DEF Order
      <4>2. << "stop" >> # << >>
        OBVIOUS
      <4>3. reported # "STOP_PENDING"
        BY <2>7, <3>1, <4>1, <4>2
      <4>4. QED
        BY <2>5, <3>1, <4>3, Tables
    <3>5. QED
      BY <2>3, <2>4, <2>7, <3>1, <3>2, <3>3, <3>4
  <2>8. QED
    BY <2>1, <2>4, <2>6, <2>7
<1>18. CASE \E t \in Threads : interrogate(t)
  BY <1>18 DEF interrogate, semaphores, states
<1>19. CASE \E t \in Threads : awake(t)
  BY <1>19, Tables DEF awake, semaphores, states, setStatus
<1>20. CASE \E t \in Threads : report(t)
  BY <1>20 DEF report, semaphores, states
<1>21. CASE UNCHANGED vars
  BY <1>21 DEF vars, semaphores, states
<1>22. QED
  BY <1>1, <1>2, <1>3, <1>4, <1>5, <1>6, <1>7, <1>8, <1>9, <1>10, <1>11, <1>12, <1>13, <1>14, <1>15, <1>16, <1>17, <1>18, <1>19, <1>20, <1>21 DEF Next, mainThread, serviceMainThread, handlerThread, inHandler

\* Inv holds at first, and every step keeps it.
LEMMA InvCorrect == Spec => []Inv
<1>1. Init => Inv
  <2> SUFFICES ASSUME Init PROVE Inv
    OBVIOUS
  <2>1. Values /\ Flags
    BY DEF Init, Values, Flags, Threads, InHandler, States
  <2>2. Events
    BY DEF Init, Events
  <2>3. Order
    BY DEF Init, Order, Semaphores, NothingLeft, StartIsAlone, Starting, CodesFit, PostedByWaiter, StatesAgree, InOrder,
           StatusIsTrue, Threads, InHandler, At
  <2>4. QED
    BY <2>1, <2>2, <2>3, TypeParts DEF Inv
<1>2. Inv /\ [Next]_vars => Inv'
  <2> SUFFICES ASSUME Inv, [Next]_vars PROVE Inv'
    OBVIOUS
  <2>1. Values /\ Events /\ Flags /\ Order
    BY TypeParts DEF Inv
  <2>2. Values'
    BY <2>1, ValuesStep DEF Order
  <2>3. Events' /\ Flags'
    BY <2>1, EventsStep, FlagsStep
  <2>4. Semaphores' /\ NothingLeft' /\ StartIsAlone' /\ CodesFit'
    BY <2>1, SemaphoresStep, NothingLeftStep, StartIsAloneStep, CodesFitStep
  <2>5. PostedByWaiter' /\ StatesAgree' /\ InOrder' /\ StatusIsTrue'
    BY <2>1, PostedByWaiterStep, StatesAgreeStep, InOrderStep, StatusIsTrueStep
  <2>6. TypeOK'
    BY <2>2, <2>3 DEF TypeOK, Values, Events, Flags
  <2>7. QED
    BY <2>4, <2>5, <2>6 DEF Inv, Order
<1>3. QED
  BY <1>1, <1>2, PTL DEF Spec

-----------------------------------------------------------------------------
\* Every variable keeps its type (QtServiceBasePrivate::start, HandlerThread and QtServiceSysPrivate).
THEOREM TypeCorrect == Spec => []TypeOK
<1>1. Inv => TypeOK
  BY DEF Inv
<1>2. QED
  BY <1>1, InvCorrect, PTL

\* serviceMain and the handler thread never wait on the condition together, so
\* that wakeAll answers one control (QtServiceSysPrivate::handler).
THEOREM OneWaiterCorrect == Spec => []OneWaiter
<1>1. Inv => OneWaiter
  BY DEF Inv, Order, OneWaiter, StartIsAlone, Starting, Threads, At
<1>2. QED
  BY <1>1, InvCorrect, PTL

\* RUNNING and PAUSED are said of a daemon that serves and of one that is
\* suspended, unless a start failed (QtServiceSysPrivate::handler).
THEOREM StatusCorrect == Spec => []StatusIsTrue
<1>1. Inv => StatusIsTrue
  BY DEF Inv, Order
<1>2. QED
  BY <1>1, InvCorrect, PTL

\* A start, a stop and every control that is waited for is in somebody's hands:
\* the semaphores' next release, the event loop's next event or its end (acquire
\* and release in start() and serviceMain; handler and customEvent).
THEOREM PendingCorrect == Spec => []PendingIsUnderWay
<1>1. Init => PendingIsUnderWay
  BY DEF Init, PendingIsUnderWay, Threads, At
<1>2. Inv /\ PendingIsUnderWay /\ [Next]_vars => PendingIsUnderWay'
  BY PendingStep, TypeParts DEF Inv
<1>3. QED
  BY <1>1, <1>2, InvCorrect, PTL DEF Spec
=============================================================================
