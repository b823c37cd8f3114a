---------------------- MODULE MFileSystemWatcherProofs ----------------------
(***************************************************************************)
(* Invariants of the watcher and its thread, for any set of directories.   *)
(* The argument: while the client has nothing listed the thread sleeps on  *)
(* the event alone, and nobody but the insertion itself will set it.       *)
(***************************************************************************)
EXTENDS MFileSystemWatcher, SequenceTheorems, TLAPS

\* The places of the GUI between its decision to insert and the wake-up.
Inserting == {"insert", "wakeup", "ring"}

\* The places where a 'q' has been written and the thread has not been waited for.
Quitting == {"ringStop", "wait", "ringQuit", "quitAgain", "ringAgain", "waitQuit"}

\* The client watches one directory at a time.
OneDirectory ==
  /\ handles \subseteq {syncDir}
  /\ thread = "none" => handles = {}
  /\ gui \in {"stop", "ringStop", "wait"} => handles = {}

\* What the thread acknowledged it still has: only the GUI closes the other
\* handles, and it needs the mutex.
AckedIsWatched == thread = "acked" => woke \in handles

\* During an insertion the thread waits for the event and for nothing else.
ThreadSleeps ==
  /\ gui \in Inserting => thread = "waiting" /\ handlesCopy = {} /\ ~event
  /\ gui = "insert" => handles = {} /\ syncDir \notin directories
  /\ gui \in {"wakeup", "ring"} => handles = {syncDir}

\* Between calls the thread is awake only over a directory it watches, or is on
\* its way back to sleep.
ThreadIsQuiet ==
  gui = "idle" =>
    /\ event => thread = "waiting" /\ handlesCopy = {} /\ handles = {syncDir}
    /\ thread \in {"start", "relock", "woken", "taken", "acked"} => handles = {syncDir}
    /\ thread = "waiting" /\ handlesCopy # {} => handlesCopy = handles

\* Nobody quits unasked.
QuitsWhenAsked ==
  /\ msg = "q" => gui \in Quitting
  /\ thread = "taken" /\ m = "q" => gui \in Quitting
  /\ thread = "finished" => gui \in Quitting

\* The signals of removals name directories without a handle, each once.
RemovalsApart ==
  /\ \A i \in DOMAIN queue : queue[i].removed => queue[i].path \notin handles
  /\ \A i, j \in DOMAIN queue :
       queue[i].removed /\ queue[j].removed /\ queue[i].path = queue[j].path => i = j

Removed == {queue[i].path : i \in {j \in DOMAIN queue : queue[j].removed}}

\* A 'q' that is written is on its way to the thread, once the event is set.
QuitFollowed ==
  gui \in Quitting /\ ~lostQuit =>
    \/ thread = "finished"
    \/ thread = "taken" /\ m = "q"
    \/ /\ msg = "q" /\ thread # "taken"
       /\ gui \in {"wait", "quitAgain", "waitQuit"} =>
            event \/ (thread \in {"relock", "woken"} /\ woke = "event")

\* The thread sleeps on every handle there is, or will be woken to take them anew.
SleepsOnHandles ==
  thread = "waiting" => event \/ handles \subseteq handlesCopy \/ gui \in {"wakeup", "ring"}

\* After the signal that a directory is gone comes none of the same directory.
RemovalsLast ==
  \A i, j \in DOMAIN queue : queue[i].removed /\ queue[j].path = queue[i].path => j <= i

\* News is not dropped at its delivery.
NewsIsListed == \A i \in DOMAIN queue : queue[i].news => queue[i].path \in directories

Places == OneDirectory /\ AckedIsWatched /\ ThreadSleeps /\ ThreadIsQuiet /\ QuitsWhenAsked

Inv == TypeOK /\ Places /\ RemovalsApart /\ WatchedExactlyWhenListed

-----------------------------------------------------------------------------
\* Where the GUI goes after it has set the event or written the message.
LEMMA AfterPlaces ==
  /\ \A p \in DOMAIN AfterRing : AfterRing[p] \in {"idle", "wait", "quitAgain", "waitQuit"}
  /\ \A p \in DOMAIN AfterStop : AfterStop[p] \in {"ringStop", "ringQuit", "ringAgain"}
  /\ DOMAIN AfterRing = {"ring", "ringStop", "ringQuit", "ringAgain"} /\ AfterRing["ring"] = "idle"
  /\ DOMAIN AfterStop = {"stop", "quit", "quitAgain"}
<1>1. DOMAIN AfterRing = {"ring", "ringStop", "ringQuit", "ringAgain"} /\ DOMAIN AfterStop = {"stop", "quit", "quitAgain"}
  BY DEF AfterRing, AfterStop
<1>2. /\ AfterRing["ring"] = "idle" /\ AfterRing["ringStop"] = "wait"
      /\ AfterRing["ringQuit"] = "quitAgain" /\ AfterRing["ringAgain"] = "waitQuit"
  BY DEF AfterRing
<1>3. AfterStop["stop"] = "ringStop" /\ AfterStop["quit"] = "ringQuit" /\ AfterStop["quitAgain"] = "ringAgain"
  BY DEF AfterStop
<1>4. QED
  BY <1>1, <1>2, <1>3

\* TypeOK without its Boolean variables, and these.
Values ==
  /\ gui \in GuiPlaces
  /\ syncDir \in Paths /\ directories \subseteq Paths
  /\ handles \subseteq Paths /\ msg \in {"", "@", "q"}
  /\ thread \in {"none", "start", "waiting", "relock", "finished"} \cup Working
  /\ handlesCopy \subseteq Paths
  /\ woke \in {"event", "closed", Nothing} \cup Paths
  /\ m \in {"", "@", "q"}
  /\ exists \subseteq Paths /\ signalled \subseteq Paths
  /\ unseen \subseteq Paths

Signals == queue \in Seq(Posted)

Flags == event \in BOOLEAN /\ lostQuit \in BOOLEAN

\* TypeOK is no more than these parts.
LEMMA TypeParts == TypeOK <=> Values /\ Signals /\ Flags
  BY DEF TypeOK, Values, Signals, Flags

\* What the GUI takes from its queue, and what stays there.
LEMMA Delivered ==
  ASSUME NEW q \in Seq(Posted), q # << >>
  PROVE  /\ Head(q) \in Posted /\ Tail(q) \in Seq(Posted)
         /\ Len(q) \in Nat \ {0} /\ Len(Tail(q)) = Len(q) - 1
         /\ Head(q) = q[1]
         /\ \A i \in 1 .. Len(Tail(q)) : Tail(q)[i] = q[i + 1]
  OBVIOUS

\* A queue whose signals of one path are no news any more.
LEMMA Marked ==
  ASSUME NEW q \in Seq(Posted), NEW path
  PROVE  [i \in DOMAIN q |-> IF q[i].path = path THEN [q[i] EXCEPT !.news = FALSE] ELSE q[i]] \in Seq(Posted)
<1>1. \A i \in 1 .. Len(q) : q[i] \in Posted
  OBVIOUS
<1>2. \A i \in 1 .. Len(q) : [q[i] EXCEPT !.news = FALSE] \in Posted
  BY <1>1 DEF Posted
<1>3. DOMAIN q = 1 .. Len(q) /\ Len(q) \in Nat
  OBVIOUS
<1>4. QED
  BY <1>1, <1>2, <1>3

\* Every variable keeps its type.
LEMMA ValuesStep ==
  ASSUME Values, AckedIsWatched, [Next]_vars
  PROVE  Values'
<1> USE WatcherAssumption DEF Values, AckedIsWatched, GuiPlaces, Working, Nothing
<1>1. CASE addNewThread
  BY <1>1 DEF addNewThread, CanAdd, guiVars, shared, runVars, disk
<1>2. CASE addLookup
  BY <1>2 DEF addLookup, CanAdd, threadHasMutex, Working, guiVars, shared, runVars, disk
<1>3. CASE removePath
  BY <1>3 DEF removePath, Forget, threadHasMutex, Working, guiVars, shared, runVars, disk
<1>4. CASE Quit
  BY <1>4 DEF Quit, guiVars, shared, runVars, disk
<1>5. CASE writeSettings
  BY <1>5 DEF writeSettings, threadHasMutex, Working, guiVars, shared, runVars, disk
<1>6. CASE addInsert
  BY <1>6 DEF addInsert, guiVars, shared, runVars, disk
<1>7. CASE wakeup
  BY <1>7 DEF wakeup, guiVars, shared, runVars, disk
<1>8. CASE setEvent
  <2>1. gui' \in {"idle", "wait", "quitAgain", "waitQuit"}
    BY <1>8, AfterPlaces DEF setEvent
  <2>2. QED
    BY <1>8, <2>1 DEF setEvent, guiVars, shared, runVars, disk
<1>9. CASE stop
  <2>1. gui' \in {"ringStop", "ringQuit", "ringAgain"}
    BY <1>9, AfterPlaces DEF stop
  <2>2. QED
    BY <1>9, <2>1 DEF stop, guiVars, shared, runVars, disk
<1>10. CASE waited
  BY <1>10 DEF waited, guiVars, shared, runVars, disk
<1>11. CASE Restart
  BY <1>11 DEF Restart, Fresh, guiVars, shared, runVars, disk
<1>12. CASE _q_directoryChanged
  BY <1>12, Delivered DEF _q_directoryChanged, guiVars, shared, runVars, disk
<1>13. CASE start
  BY <1>13 DEF start, guiVars, shared, runVars, disk
<1>14. CASE beginWait
  BY <1>14 DEF beginWait, guiVars, shared, runVars, disk
<1>15. CASE endWait
  BY <1>15 DEF endWait, WaitReturns, guiVars, shared, runVars, disk
<1>16. CASE relock
  BY <1>16 DEF relock, guiVars, shared, runVars, disk
<1>17. CASE takeMsg
  BY <1>17 DEF takeMsg, guiVars, shared, runVars, disk
<1>18. CASE clearMsg
  BY <1>18 DEF clearMsg, guiVars, shared, runVars, disk
<1>19. CASE acknowledge
  BY <1>19 DEF acknowledge, guiVars, shared, runVars, disk
<1>20. CASE passOver
  BY <1>20 DEF passOver, guiVars, shared, runVars, disk
<1>21. CASE emit
  BY <1>21 DEF emit, Signal, guiVars, shared, runVars, disk
<1>22. CASE poll
  BY <1>22 DEF poll, WaitReturns, guiVars, shared, runVars, disk
<1>23. CASE Surroundings
  <2>1. PICK path \in Paths :
          (\E samesize \in {FALSE} \cup {"samesize" \in Env} : Change(path, samesize)) \/ Delete(path) \/ Recreate(path)
    BY <1>23 DEF Surroundings
  <2>2. unseen' \subseteq Paths /\ signalled' \subseteq Paths /\ exists' \subseteq Paths
    BY <2>1 DEF Change, Delete, Recreate, Follow, disk
  <2>3. UNCHANGED << guiVars, shared, runVars >>
    BY <2>1 DEF Change, Delete, Recreate
  <2>4. QED
    BY <2>2, <2>3 DEF guiVars, shared, runVars
<1>24. CASE UNCHANGED vars
  BY <1>24 DEF vars, guiVars, shared, runVars, disk
<1>25. QED
  BY <1>1, <1>2, <1>3, <1>4, <1>5, <1>6, <1>7, <1>8, <1>9, <1>10, <1>11, <1>12, <1>13, <1>14, <1>15, <1>16, <1>17, <1>18, <1>19, <1>20, <1>21, <1>22, <1>23, <1>24 DEF Next, addPaths, removePaths, inCall, run

\* The queue holds signals.
LEMMA SignalsStep ==
  ASSUME Values, Signals, AckedIsWatched, [Next]_vars
  PROVE  Signals'
<1> USE WatcherAssumption DEF Signals
<1>1. CASE addNewThread
  BY <1>1 DEF addNewThread, CanAdd, guiVars, shared, runVars, disk
<1>2. CASE addLookup
  BY <1>2 DEF addLookup, CanAdd, threadHasMutex, Working, guiVars, shared, runVars, disk
<1>3. CASE removePath
  BY <1>3, Marked DEF removePath, Forget
<1>4. CASE Quit
  BY <1>4 DEF Quit, guiVars, shared, runVars, disk
<1>5. CASE writeSettings
  BY <1>5 DEF writeSettings, threadHasMutex, Working, guiVars, shared, runVars, disk
<1>6. CASE addInsert
  BY <1>6 DEF addInsert, guiVars, shared, runVars, disk
<1>7. CASE wakeup
  BY <1>7 DEF wakeup, guiVars, shared, runVars, disk
<1>8. CASE setEvent
  BY <1>8 DEF setEvent, AfterRing, guiVars, shared, runVars, disk
<1>9. CASE stop
  BY <1>9 DEF stop, AfterStop, guiVars, shared, runVars, disk
<1>10. CASE waited
  BY <1>10 DEF waited, guiVars, shared, runVars, disk
<1>11. CASE Restart
  <2>1. queue' = << >>
    BY <1>11 DEF Restart, Fresh
  <2>2. QED
    BY <2>1
<1>12. CASE _q_directoryChanged
  BY <1>12, Delivered DEF _q_directoryChanged
<1>13. CASE start
  BY <1>13 DEF start, guiVars, shared, runVars, disk
<1>14. CASE beginWait
  BY <1>14 DEF beginWait, guiVars, shared, runVars, disk
<1>15. CASE endWait
  BY <1>15 DEF endWait, WaitReturns, guiVars, shared, runVars, disk
<1>16. CASE relock
  BY <1>16 DEF relock, guiVars, shared, runVars, disk
<1>17. CASE takeMsg
  BY <1>17 DEF takeMsg, guiVars, shared, runVars, disk
<1>18. CASE clearMsg
  BY <1>18 DEF clearMsg, guiVars, shared, runVars, disk
<1>19. CASE acknowledge
  BY <1>19 DEF acknowledge, guiVars, shared, runVars, disk
<1>20. CASE passOver
  BY <1>20 DEF passOver, guiVars, shared, runVars, disk
<1>21. CASE emit
  <2>1. woke \in Paths
    BY <1>21 DEF emit, Values, AckedIsWatched
  <2>2. Signal \in Posted
    <3>1. (woke \notin exists) \in BOOLEAN
      OBVIOUS
    <3>2. (woke \in unseen /\ \A i \in DOMAIN queue : queue[i].news => queue[i].path # woke) \in BOOLEAN
      OBVIOUS
    <3>3. QED
      BY <2>1, <3>1, <3>2 DEF Signal, Posted
  <2>3. QED
    BY <1>21, <2>2 DEF emit
<1>22. CASE poll
  BY <1>22 DEF poll, WaitReturns, guiVars, shared, runVars, disk
<1>23. CASE Surroundings
  BY <1>23 DEF Surroundings, Change, Delete, Recreate, Follow, guiVars, shared, runVars, disk
<1>24. CASE UNCHANGED vars
  BY <1>24 DEF vars, guiVars, shared, runVars, disk
<1>25. QED
  BY <1>1, <1>2, <1>3, <1>4, <1>5, <1>6, <1>7, <1>8, <1>9, <1>10, <1>11, <1>12, <1>13, <1>14, <1>15, <1>16, <1>17, <1>18, <1>19, <1>20, <1>21, <1>22, <1>23, <1>24 DEF Next, addPaths, removePaths, inCall, run

\* The Boolean variables stay Boolean.
LEMMA FlagsStep ==
  ASSUME Flags, [Next]_vars
  PROVE  Flags'
<1> USE WatcherAssumption DEF Flags
<1>1. CASE addNewThread
  BY <1>1 DEF addNewThread, CanAdd, guiVars, shared, runVars, disk
<1>2. CASE addLookup
  BY <1>2 DEF addLookup, CanAdd, threadHasMutex, Working, guiVars, shared, runVars, disk
<1>3. CASE removePath
  BY <1>3 DEF removePath, Forget, threadHasMutex, Working, guiVars, shared, runVars, disk
<1>4. CASE Quit
  BY <1>4 DEF Quit, guiVars, shared, runVars, disk
<1>5. CASE writeSettings
  BY <1>5 DEF writeSettings, threadHasMutex, Working, guiVars, shared, runVars, disk
<1>6. CASE addInsert
  BY <1>6 DEF addInsert, guiVars, shared, runVars, disk
<1>7. CASE wakeup
  BY <1>7 DEF wakeup, guiVars, shared, runVars, disk
<1>8. CASE setEvent
  BY <1>8 DEF setEvent, AfterRing, guiVars, shared, runVars, disk
<1>9. CASE stop
  BY <1>9 DEF stop, AfterStop, guiVars, shared, runVars, disk
<1>10. CASE waited
  BY <1>10 DEF waited, guiVars, shared, runVars, disk
<1>11. CASE Restart
  BY <1>11 DEF Restart, Fresh, guiVars, shared, runVars, disk
<1>12. CASE _q_directoryChanged
  BY <1>12 DEF _q_directoryChanged, guiVars, shared, runVars, disk
<1>13. CASE start
  BY <1>13 DEF start, guiVars, shared, runVars, disk
<1>14. CASE beginWait
  BY <1>14 DEF beginWait, guiVars, shared, runVars, disk
<1>15. CASE endWait
  BY <1>15 DEF endWait, WaitReturns, guiVars, shared, runVars, disk
<1>16. CASE relock
  BY <1>16 DEF relock, guiVars, shared, runVars, disk
<1>17. CASE takeMsg
  BY <1>17 DEF takeMsg, guiVars, shared, runVars, disk
<1>18. CASE clearMsg
  BY <1>18 DEF clearMsg, guiVars, shared, runVars, disk
<1>19. CASE acknowledge
  BY <1>19 DEF acknowledge, guiVars, shared, runVars, disk
<1>20. CASE passOver
  BY <1>20 DEF passOver, guiVars, shared, runVars, disk
<1>21. CASE emit
  BY <1>21 DEF emit, Signal, guiVars, shared, runVars, disk
<1>22. CASE poll
  BY <1>22 DEF poll, WaitReturns, guiVars, shared, runVars, disk
<1>23. CASE Surroundings
  BY <1>23 DEF Surroundings, Change, Delete, Recreate, Follow, guiVars, shared, runVars, disk
<1>24. CASE UNCHANGED vars
  BY <1>24 DEF vars, guiVars, shared, runVars, disk
<1>25. QED
  BY <1>1, <1>2, <1>3, <1>4, <1>5, <1>6, <1>7, <1>8, <1>9, <1>10, <1>11, <1>12, <1>13, <1>14, <1>15, <1>16, <1>17, <1>18, <1>19, <1>20, <1>21, <1>22, <1>23, <1>24 DEF Next, addPaths, removePaths, inCall, run

\* GUI and thread meet only where the code means them to.
LEMMA PlacesStep ==
  ASSUME Values, Places, WatchedExactlyWhenListed, [Next]_vars
  PROVE  Places'
<1> USE WatcherAssumption DEF Places, OneDirectory, AckedIsWatched, ThreadSleeps, ThreadIsQuiet, QuitsWhenAsked, Inserting, Quitting
<1>1. CASE addNewThread
  BY <1>1 DEF addNewThread, CanAdd, guiVars, shared, runVars, disk
<1>2. CASE addLookup
  <2>1. handles = {}
    BY <1>2 DEF addLookup, CanAdd, WatchedExactlyWhenListed
  <2>2. thread = "waiting" /\ handlesCopy = {} /\ ~event
    BY <1>2, <2>1 DEF addLookup, CanAdd, threadHasMutex, Working, Values
  <2>3. QED
    BY <1>2, <2>1, <2>2 DEF addLookup, CanAdd, threadHasMutex, Working, guiVars, shared, runVars, disk
<1>3. CASE removePath
  BY <1>3 DEF removePath, Forget, threadHasMutex, Working, guiVars, shared, runVars, disk
<1>4. CASE Quit
  BY <1>4 DEF Quit, guiVars, shared, runVars, disk
<1>5. CASE writeSettings
  BY <1>5 DEF writeSettings, threadHasMutex, Working, guiVars, shared, runVars, disk
<1>6. CASE addInsert
  BY <1>6 DEF addInsert, guiVars, shared, runVars, disk
<1>7. CASE wakeup
  BY <1>7 DEF wakeup, guiVars, shared, runVars, disk
<1>8. CASE setEvent
  BY <1>8 DEF setEvent, AfterRing, guiVars, shared, runVars, disk
<1>9. CASE stop
  BY <1>9 DEF stop, AfterStop, guiVars, shared, runVars, disk
<1>10. CASE waited
  BY <1>10 DEF waited, guiVars, shared, runVars, disk
<1>11. CASE Restart
  BY <1>11 DEF Restart, Fresh, guiVars, shared, runVars, disk
<1>12. CASE _q_directoryChanged
  BY <1>12 DEF _q_directoryChanged, guiVars, shared, runVars, disk
<1>13. CASE start
  BY <1>13 DEF start, guiVars, shared, runVars, disk
<1>14. CASE beginWait
  BY <1>14 DEF beginWait, guiVars, shared, runVars, disk
<1>15. CASE endWait
  BY <1>15 DEF endWait, WaitReturns, guiVars, shared, runVars, disk
<1>16. CASE relock
  BY <1>16 DEF relock, guiVars, shared, runVars, disk
<1>17. CASE takeMsg
  BY <1>17 DEF takeMsg, guiVars, shared, runVars, disk
<1>18. CASE clearMsg
  BY <1>18 DEF clearMsg, guiVars, shared, runVars, disk
<1>19. CASE acknowledge
  BY <1>19 DEF acknowledge, guiVars, shared, runVars, disk
<1>20. CASE passOver
  BY <1>20 DEF passOver, guiVars, shared, runVars, disk
<1>21. CASE emit
  BY <1>21 DEF emit, Signal, guiVars, shared, runVars, disk
<1>22. CASE poll
  BY <1>22 DEF poll, WaitReturns, guiVars, shared, runVars, disk
<1>23. CASE Surroundings
  BY <1>23 DEF Surroundings, Change, Delete, Recreate, Follow, guiVars, shared, runVars, disk
<1>24. CASE UNCHANGED vars
  BY <1>24 DEF vars, guiVars, shared, runVars, disk
<1>25. QED
  BY <1>1, <1>2, <1>3, <1>4, <1>5, <1>6, <1>7, <1>8, <1>9, <1>10, <1>11, <1>12, <1>13, <1>14, <1>15, <1>16, <1>17, <1>18, <1>19, <1>20, <1>21, <1>22, <1>23, <1>24 DEF Next, addPaths, removePaths, inCall, run

\* The signals of removals stay apart, and what is listed is what is watched.
LEMMA ListStep ==
  ASSUME Values, Signals, Places, RemovalsApart, WatchedExactlyWhenListed, [Next]_vars
  PROVE  RemovalsApart' /\ WatchedExactlyWhenListed'
<1> USE DEF RemovalsApart, WatchedExactlyWhenListed
<1>1. CASE addNewThread
  BY <1>1 DEF addNewThread, CanAdd, Places, OneDirectory
<1>2. CASE addInsert
  <2>1. handles = {} /\ syncDir \notin directories
    BY <1>2 DEF addInsert, Places, ThreadSleeps
  <2>2. QED
    BY <1>2, <2>1 DEF addInsert
<1>3. CASE removePath
  <2> DEFINE q == [i \in DOMAIN queue |->
                     IF queue[i].path = syncDir THEN [queue[i] EXCEPT !.news = FALSE] ELSE queue[i]]
  <2>1. queue' = q
    BY <1>3 DEF removePath, Forget
  <2>2. DOMAIN q = DOMAIN queue
    OBVIOUS
  <2>3. \A i \in DOMAIN queue : queue[i] \in Posted
    BY DEF Signals
  <2>4. \A i \in DOMAIN queue : q[i].path = queue[i].path /\ q[i].removed = queue[i].removed
    BY <2>3 DEF Posted
  <2> HIDE DEF q
  <2>5. \A i \in DOMAIN queue : queue[i].removed => queue[i].path # syncDir
    BY <1>3 DEF removePath
  <2>6. directories' = directories \ {syncDir} /\ handles' = handles \ {syncDir}
    BY <1>3 DEF removePath
  <2>7. QED
    BY <2>1, <2>2, <2>4, <2>5, <2>6
<1>4. CASE Restart
  <2>1. queue' = << >> /\ handles' = {} /\ directories' = {}
    BY <1>4 DEF Restart, Fresh
  <2>2. QED
    BY <2>1
<1>5. CASE _q_directoryChanged
  <2> DEFINE q == Tail(queue)
  <2>1. /\ Head(queue) = queue[1] /\ Len(queue) \in Nat \ {0} /\ Len(q) = Len(queue) - 1
        /\ q \in Seq(Posted)
        /\ \A i \in 1 .. Len(q) : q[i] = queue[i + 1]
    BY <1>5, Delivered DEF _q_directoryChanged, Signals
  <2>2. DOMAIN q = 1 .. Len(q) /\ DOMAIN queue = 1 .. Len(queue)
    BY <2>1 DEF Signals
  <2>3. /\ queue' = q /\ handles' = handles
        /\ directories' = IF queue[1].removed THEN directories \ {queue[1].path} ELSE directories
    BY <1>5, <2>1 DEF _q_directoryChanged, shared
  <2> HIDE DEF q
  <2>4. \A i \in DOMAIN queue : i = 1 \/ (i - 1 \in DOMAIN q /\ q[i - 1] = queue[i])
    BY <2>1, <2>2
  <2>5. \A i \in DOMAIN q : i + 1 \in DOMAIN queue /\ q[i] = queue[i + 1] /\ i + 1 # 1
    BY <2>1, <2>2
  <2>6. 1 \in DOMAIN queue
    BY <2>1, <2>2
  <2>7. RemovalsApart'
    <3>1. \A i \in DOMAIN q : q[i].removed => q[i].path \notin handles
      BY <2>5
    <3>2. ASSUME NEW i \in DOMAIN q, NEW j \in DOMAIN q, q[i].removed, q[j].removed, q[i].path = q[j].path
          PROVE  i = j
      <4>1. i + 1 = j + 1
        BY <2>5, <3>2
      <4>2. QED
        BY <2>1, <2>2, <4>1
    <3>3. QED
      BY <2>3, <3>1, <3>2
  <2>8. WatchedExactlyWhenListed'
    <3>1. CASE queue[1].removed
      <4>1. \A i \in DOMAIN q : q[i].removed => q[i].path # queue[1].path
        BY <2>5, <2>6, <3>1
      <4>2. queue[1].path \notin handles
        BY <2>6, <3>1
      <4>3. QED
        BY <2>3, <2>4, <2>5, <2>6, <3>1, <4>1, <4>2
    <3>2. CASE ~queue[1].removed
      BY <2>3, <2>4, <2>5, <3>2
    <3>3. QED
      BY <3>1, <3>2
  <2>9. QED
    BY <2>7, <2>8
<1>6. CASE emit
  <2> DEFINE q == Append(queue, Signal)
             n == Len(queue) + 1
  <2>1. /\ Len(queue) \in Nat /\ DOMAIN queue = 1 .. Len(queue) /\ DOMAIN q = 1 .. n
        /\ q[n] = Signal /\ \A i \in 1 .. Len(queue) : q[i] = queue[i]
    BY DEF Signals
  <2>2. Signal.path = woke /\ (Signal.removed <=> woke \notin exists)
    BY DEF Signal
  <2>3. queue' = q /\ handles' = handles \cap exists /\ directories' = directories
    BY <1>6 DEF emit, guiVars
  <2>4. handles = {woke}
    BY <1>6 DEF emit, Places, AckedIsWatched, OneDirectory
  <2> HIDE DEF q
  <2>5. QED
    BY <2>1, <2>2, <2>3, <2>4
<1>7. CASE UNCHANGED << queue, handles, directories >>
  BY <1>7
<1>8. QED
  BY <1>1, <1>2, <1>3, <1>4, <1>5, <1>6, <1>7
     DEF Next, addPaths, removePaths, addLookup, Quit, writeSettings, inCall, wakeup, setEvent, stop, waited, run, start,
         beginWait, endWait, relock, takeMsg, clearMsg, acknowledge, passOver, poll, Surroundings, Change, Delete, Recreate,
         vars, guiVars, shared

\* The surroundings touch the disk and the history, and nothing else.
LEMMA SurroundingsKeep == Surroundings => UNCHANGED << guiVars, queue, shared, runVars, lostQuit >>
  BY DEF Surroundings, Change, Delete, Recreate

\* From the 'q' to the end of the thread: it is overtaken by nothing.
LEMMA QuitStep ==
  ASSUME Values, AckedIsWatched, QuitFollowed, [Next]_vars
  PROVE  QuitFollowed'
<1> USE WatcherAssumption DEF Values, AckedIsWatched, QuitFollowed, Quitting
<1>1. CASE addNewThread
  BY <1>1 DEF addNewThread, CanAdd, guiVars, shared, runVars, disk
<1>2. CASE addLookup
  BY <1>2 DEF addLookup, CanAdd, threadHasMutex, Working, guiVars, shared, runVars, disk
<1>3. CASE removePath
  BY <1>3 DEF removePath, threadHasMutex, Working, guiVars, shared, runVars, disk
<1>4. CASE Quit
  BY <1>4 DEF Quit, guiVars, shared, runVars, disk
<1>5. CASE writeSettings
  BY <1>5 DEF writeSettings, guiVars, shared, runVars, disk
<1>6. CASE addInsert
  BY <1>6 DEF addInsert, guiVars, shared, runVars, disk
<1>7. CASE wakeup
  BY <1>7 DEF wakeup, guiVars, shared, runVars, disk
<1>8. CASE setEvent
  <2>1. gui' \in {"idle", "wait", "quitAgain", "waitQuit"} /\ event'
    BY <1>8, AfterPlaces DEF setEvent
  <2>2. gui' = "idle" \/ gui \in Quitting
    BY <1>8, AfterPlaces DEF setEvent
  <2>3. QED
    BY <1>8, <2>1, <2>2 DEF setEvent, shared, runVars
<1>9. CASE stop
  <2>1. gui' \in {"ringStop", "ringQuit", "ringAgain"}
    BY <1>9, AfterPlaces DEF stop
  <2>2. msg' = "q" /\ (lostQuit' <=> thread = "taken" /\ m # "q") /\ UNCHANGED << thread, m >>
    BY <1>9 DEF stop, runVars
  <2>3. QED
    BY <2>1, <2>2
<1>10. CASE waited
  BY <1>10 DEF waited, guiVars, shared, runVars, disk
<1>11. CASE Restart
  BY <1>11 DEF Restart, Fresh, guiVars, shared, runVars, disk
<1>12. CASE _q_directoryChanged
  BY <1>12 DEF _q_directoryChanged, guiVars, shared, runVars, disk
<1>13. CASE start
  BY <1>13 DEF start, guiVars, shared, runVars, disk
<1>14. CASE beginWait
  BY <1>14 DEF beginWait, guiVars, shared, runVars, disk
<1>15. CASE endWait
  BY <1>15 DEF endWait, WaitReturns, guiVars, shared, runVars, disk
<1>16. CASE relock
  BY <1>16 DEF relock, guiVars, shared, runVars, disk
<1>17. CASE takeMsg
  BY <1>17 DEF takeMsg, guiVars, shared, runVars, disk
<1>18. CASE clearMsg
  BY <1>18 DEF clearMsg, guiVars, shared, runVars, disk
<1>19. CASE acknowledge
  BY <1>19 DEF acknowledge, guiVars, shared, runVars, disk
<1>20. CASE passOver
  BY <1>20 DEF passOver, guiVars, shared, runVars, disk
<1>21. CASE emit
  BY <1>21 DEF emit, guiVars, shared, runVars, disk
<1>22. CASE poll
  BY <1>22 DEF poll, WaitReturns, guiVars, shared, runVars, disk
<1>23. CASE Surroundings
  BY <1>23, SurroundingsKeep DEF guiVars, shared, runVars
<1>24. CASE UNCHANGED vars
  BY <1>24 DEF vars, guiVars, shared, runVars, disk
<1>25. QED
  BY <1>1, <1>2, <1>3, <1>4, <1>5, <1>6, <1>7, <1>8, <1>9, <1>10, <1>11, <1>12, <1>13, <1>14, <1>15, <1>16, <1>17, <1>18, <1>19, <1>20, <1>21, <1>22, <1>23, <1>24 DEF Next, addPaths, removePaths, inCall, run

\* A handle the sleeping thread does not know of comes with a wake-up.
LEMMA SleepStep ==
  ASSUME Values, Places, SleepsOnHandles, [Next]_vars
  PROVE  SleepsOnHandles'
<1> USE WatcherAssumption DEF Values, Places, ThreadSleeps, SleepsOnHandles
<1>1. CASE addNewThread
  BY <1>1 DEF addNewThread, CanAdd, guiVars, shared, runVars, disk
<1>2. CASE addLookup
  BY <1>2 DEF addLookup, CanAdd, threadHasMutex, Working, guiVars, shared, runVars, disk
<1>3. CASE removePath
  BY <1>3 DEF removePath, threadHasMutex, Working, guiVars, shared, runVars, disk
<1>4. CASE Quit
  BY <1>4 DEF Quit, guiVars, shared, runVars, disk
<1>5. CASE writeSettings
  BY <1>5 DEF writeSettings, guiVars, shared, runVars, disk
<1>6. CASE addInsert
  BY <1>6 DEF addInsert, guiVars, shared, runVars, disk
<1>7. CASE wakeup
  BY <1>7 DEF wakeup, guiVars, shared, runVars, disk
<1>8. CASE setEvent
  BY <1>8 DEF setEvent, guiVars, shared, runVars, disk
<1>9. CASE stop
  <2>1. gui \notin {"wakeup", "ring"}
    BY <1>9, AfterPlaces DEF stop
  <2>2. QED
    BY <1>9, <2>1 DEF stop, runVars
<1>10. CASE waited
  BY <1>10 DEF waited, guiVars, shared, runVars, disk
<1>11. CASE Restart
  BY <1>11 DEF Restart, Fresh, guiVars, shared, runVars, disk
<1>12. CASE _q_directoryChanged
  BY <1>12 DEF _q_directoryChanged, guiVars, shared, runVars, disk
<1>13. CASE start
  BY <1>13 DEF start, guiVars, shared, runVars, disk
<1>14. CASE beginWait
  BY <1>14 DEF beginWait, guiVars, shared, runVars, disk
<1>15. CASE endWait
  BY <1>15 DEF endWait, WaitReturns, guiVars, shared, runVars, disk
<1>16. CASE relock
  BY <1>16 DEF relock, guiVars, shared, runVars, disk
<1>17. CASE takeMsg
  BY <1>17 DEF takeMsg, guiVars, shared, runVars, disk
<1>18. CASE clearMsg
  BY <1>18 DEF clearMsg, guiVars, shared, runVars, disk
<1>19. CASE acknowledge
  BY <1>19 DEF acknowledge, guiVars, shared, runVars, disk
<1>20. CASE passOver
  BY <1>20 DEF passOver, guiVars, shared, runVars, disk
<1>21. CASE emit
  BY <1>21 DEF emit, guiVars, shared, runVars, disk
<1>22. CASE poll
  BY <1>22 DEF poll, WaitReturns, guiVars, shared, runVars, disk
<1>23. CASE Surroundings
  BY <1>23, SurroundingsKeep DEF guiVars, shared, runVars
<1>24. CASE UNCHANGED vars
  BY <1>24 DEF vars, guiVars, shared, runVars, disk
<1>25. QED
  BY <1>1, <1>2, <1>3, <1>4, <1>5, <1>6, <1>7, <1>8, <1>9, <1>10, <1>11, <1>12, <1>13, <1>14, <1>15, <1>16, <1>17, <1>18, <1>19, <1>20, <1>21, <1>22, <1>23, <1>24 DEF Next, addPaths, removePaths, inCall, run

\* The removal of a directory is its last signal, and news keeps its listeners.
LEMMA NewsStep ==
  ASSUME Values, Signals, Places, RemovalsApart, WatchedExactlyWhenListed, RemovalsLast, NewsIsListed, [Next]_vars
  PROVE  RemovalsLast' /\ NewsIsListed'
<1> USE DEF RemovalsLast, NewsIsListed
<1>1. CASE addNewThread
  BY <1>1 DEF addNewThread
<1>2. CASE addInsert
  BY <1>2 DEF addInsert
<1>3. CASE removePath
  <2> DEFINE q == [i \in DOMAIN queue |->
                     IF queue[i].path = syncDir THEN [queue[i] EXCEPT !.news = FALSE] ELSE queue[i]]
  <2>1. queue' = q /\ directories' = directories \ {syncDir}
    BY <1>3 DEF removePath, Forget
  <2>2. DOMAIN q = DOMAIN queue
    OBVIOUS
  <2>3. \A i \in DOMAIN queue : queue[i] \in Posted
    BY DEF Signals
  <2>4. \A i \in DOMAIN queue : q[i].path = queue[i].path /\ q[i].removed = queue[i].removed
    BY <2>3 DEF Posted
  <2>5. \A i \in DOMAIN queue : q[i].news => queue[i].news /\ queue[i].path # syncDir
    BY <2>3 DEF Posted
  <2> HIDE DEF q
  <2>6. QED
    BY <2>1, <2>2, <2>4, <2>5
<1>4. CASE Restart
  <2>1. queue' = << >>
    BY <1>4 DEF Restart, Fresh
  <2>2. QED
    BY <2>1
<1>5. CASE _q_directoryChanged
  <2> DEFINE q == Tail(queue)
  <2>1. /\ Head(queue) = queue[1] /\ Len(queue) \in Nat \ {0} /\ Len(q) = Len(queue) - 1
        /\ q \in Seq(Posted)
        /\ \A i \in 1 .. Len(q) : q[i] = queue[i + 1]
    BY <1>5, Delivered DEF _q_directoryChanged, Signals
  <2>2. DOMAIN q = 1 .. Len(q) /\ DOMAIN queue = 1 .. Len(queue)
    BY <2>1 DEF Signals
  <2>3. /\ queue' = q
        /\ directories' = IF queue[1].removed THEN directories \ {queue[1].path} ELSE directories
    BY <1>5, <2>1 DEF _q_directoryChanged
  <2> HIDE DEF q
  <2>4. \A i \in DOMAIN q : i + 1 \in DOMAIN queue /\ q[i] = queue[i + 1] /\ ~(i + 1 <= 1)
    BY <2>1, <2>2
  <2>5. 1 \in DOMAIN queue
    BY <2>1, <2>2
  <2>6. RemovalsLast'
    <3>1. ASSUME NEW i \in DOMAIN q, NEW j \in DOMAIN q, q[i].removed, q[j].path = q[i].path
          PROVE  j <= i
      <4>1. j + 1 <= i + 1
        BY <2>4, <3>1
      <4>2. QED
        BY <2>1, <2>2, <4>1
    <3>2. QED
      BY <2>3, <3>1
  <2>7. NewsIsListed'
    <3>1. \A i \in DOMAIN q : queue[1].removed => q[i].path # queue[1].path
      BY <2>4, <2>5
    <3>2. QED
      BY <2>3, <2>4, <3>1
  <2>8. QED
    BY <2>6, <2>7
<1>6. CASE emit
  <2> DEFINE q == Append(queue, Signal)
             n == Len(queue) + 1
  <2>1. /\ Len(queue) \in Nat /\ DOMAIN queue = 1 .. Len(queue) /\ DOMAIN q = 1 .. n
        /\ q[n] = Signal /\ \A i \in 1 .. Len(queue) : q[i] = queue[i]
    BY DEF Signals
  <2>2. Signal.path = woke
    BY DEF Signal
  <2>3. queue' = q /\ directories' = directories
    BY <1>6 DEF emit, guiVars
  <2>4. woke \in handles /\ woke \in directories
    BY <1>6 DEF emit, Places, AckedIsWatched, WatchedExactlyWhenListed
  <2> HIDE DEF q
  <2>5. NewsIsListed'
    BY <2>1, <2>2, <2>3, <2>4
  <2>6. RemovalsLast'
    <3>1. ASSUME NEW i \in 1 .. n, NEW j \in 1 .. n, q[i].removed, q[j].path = q[i].path
          PROVE  j <= i
      <4>1. CASE i = n
        BY <2>1, <4>1
      <4>2. CASE i # n /\ j # n
        <5>1. i \in DOMAIN queue /\ j \in DOMAIN queue
          BY <2>1, <4>2
        <5>2. QED
          BY <2>1, <3>1, <5>1
      <4>3. CASE i # n /\ j = n
        <5>1. i \in DOMAIN queue
          BY <2>1, <4>3
        <5>2. queue[i].removed /\ queue[i].path = woke
          BY <2>1, <2>2, <3>1, <4>3, <5>1
        <5>3. QED
          BY <2>4, <5>1, <5>2 DEF RemovalsApart
      <4>4. QED
        BY <4>1, <4>2, <4>3
    <3>2. QED
      BY <2>1, <2>3, <3>1
  <2>7. QED
    BY <2>5, <2>6
<1>7. CASE UNCHANGED << queue, directories >>
  BY <1>7
<1>8. QED
  BY <1>1, <1>2, <1>3, <1>4, <1>5, <1>6, <1>7, SurroundingsKeep
     DEF Next, addPaths, removePaths, addLookup, Quit, writeSettings, inCall, wakeup, setEvent, stop, waited, run, start,
         beginWait, endWait, relock, takeMsg, clearMsg, acknowledge, passOver, poll, vars, guiVars

\* A change under watch passes from the handle to the thread and from there to the
\* queue, and is never without one of them.
LEMMA ChangeStep ==
  ASSUME Values, Signals, Places, SleepsOnHandles, NewsIsListed, ChangeIsUnderWay, "samesize" \notin Env, [Next]_vars
  PROVE  ChangeIsUnderWay'
<1> USE DEF ChangeIsUnderWay
<1>1. CASE addNewThread
  <2>1. handles = {} /\ thread # "acked"
    BY <1>1 DEF addNewThread, Places, OneDirectory
  <2>2. QED
    BY <1>1, <2>1 DEF addNewThread
<1>2. CASE addLookup
  BY <1>2 DEF addLookup, CanAdd, shared, runVars, disk
<1>3. CASE addInsert
  <2>1. handles = {} /\ thread # "acked"
    BY <1>3 DEF addInsert, Places, ThreadSleeps, Inserting
  <2>2. QED
    BY <1>3, <2>1 DEF addInsert
<1>4. CASE wakeup
  BY <1>4 DEF wakeup, runVars, disk
<1>5. CASE setEvent
  BY <1>5 DEF setEvent, runVars, disk
<1>6. CASE stop
  <2>1. gui \notin {"wakeup", "ring"}
    BY <1>6, AfterPlaces DEF stop
  <2>2. QED
    BY <1>6, <2>1 DEF stop, runVars, disk
<1>7. CASE removePath
  <2> DEFINE q == [i \in DOMAIN queue |->
                     IF queue[i].path = syncDir THEN [queue[i] EXCEPT !.news = FALSE] ELSE queue[i]]
  <2>1. queue' = q /\ unseen' = unseen \ {syncDir} /\ thread # "acked"
    BY <1>7 DEF removePath, Forget, threadHasMutex, Working
  <2>2. \A i \in DOMAIN queue : queue[i].path # syncDir => q[i] = queue[i]
    OBVIOUS
  <2>3. DOMAIN q = DOMAIN queue
    OBVIOUS
  <2> HIDE DEF q
  <2>4. handles \subseteq {syncDir}
    BY DEF Places, OneDirectory
  <2>5. QED
    BY <2>1, <2>2, <2>3, <2>4
<1>8. CASE waited
  BY <1>8 DEF waited, disk
<1>9. CASE Restart
  BY <1>9 DEF Restart, Fresh
<1>10. CASE _q_directoryChanged
  <2> DEFINE q == Tail(queue)
  <2>1. /\ Head(queue) = queue[1] /\ Len(queue) \in Nat \ {0} /\ Len(q) = Len(queue) - 1
        /\ q \in Seq(Posted)
        /\ \A i \in 1 .. Len(q) : q[i] = queue[i + 1]
    BY <1>10, Delivered DEF _q_directoryChanged, Signals
  <2>2. DOMAIN q = 1 .. Len(q) /\ DOMAIN queue = 1 .. Len(queue)
    BY <2>1 DEF Signals
  <2>3. /\ queue' = q /\ UNCHANGED << handles, event, thread, handlesCopy, woke, signalled, gui >>
        /\ unseen' = IF queue[1].path \in directories /\ queue[1].news THEN unseen \ {queue[1].path} ELSE unseen
    BY <1>10, <2>1 DEF _q_directoryChanged, shared, runVars, disk
  <2> HIDE DEF q
  <2>4. \A i \in DOMAIN queue : i = 1 \/ (i - 1 \in DOMAIN q /\ q[i - 1] = queue[i])
    BY <2>1, <2>2
  <2>5. queue[1].news => queue[1].path \in directories
    BY <2>1, <2>2 DEF NewsIsListed
  <2>6. QED
    BY <2>3, <2>4, <2>5
<1>11. CASE start
  BY <1>11 DEF start, guiVars, shared, disk
<1>12. CASE beginWait
  BY <1>12 DEF beginWait, guiVars, shared, disk
<1>13. CASE endWait
  BY <1>13 DEF endWait, disk
<1>14. CASE relock
  BY <1>14 DEF relock, shared, disk
<1>15. CASE takeMsg
  BY <1>15 DEF takeMsg, shared, disk
<1>16. CASE clearMsg
  BY <1>16 DEF clearMsg, disk
<1>17. CASE acknowledge
  BY <1>17 DEF acknowledge, shared
<1>18. CASE passOver
  BY <1>18 DEF passOver, shared, disk
<1>19. CASE emit
  <2> DEFINE q == Append(queue, Signal)
             n == Len(queue) + 1
  <2>1. /\ Len(queue) \in Nat /\ DOMAIN queue = 1 .. Len(queue) /\ DOMAIN q = 1 .. n
        /\ q[n] = Signal /\ \A i \in 1 .. Len(queue) : q[i] = queue[i]
    BY DEF Signals
  <2>2. Signal.path = woke
        /\ (Signal.news <=> woke \in unseen /\ \A i \in DOMAIN queue : queue[i].news => queue[i].path # woke)
    BY Zenon DEF Signal
  <2>3. queue' = q /\ unseen' = unseen
    BY <1>19 DEF emit
  <2>4. handles = {woke}
    BY <1>19 DEF emit, Places, AckedIsWatched, OneDirectory
  <2> HIDE DEF q
  <2>5. ASSUME NEW path \in unseen
        PROVE  \E i \in DOMAIN q : q[i].path = path /\ q[i].news
    <3>1. CASE \E i \in DOMAIN queue : queue[i].path = path /\ queue[i].news
      BY <2>1, <3>1
    <3>2. CASE ~\E i \in DOMAIN queue : queue[i].path = path /\ queue[i].news
      <4>1. path = woke
        BY <2>4, <2>5, <3>2
      <4>2. Signal.news
        BY <2>2, <2>5, <3>2, <4>1
      <4>3. n \in DOMAIN q
        BY <2>1
      <4>4. QED
        BY <2>1, <2>2, <4>1, <4>2, <4>3
    <3>3. QED
      BY <3>1, <3>2
  <2>6. QED
    BY <2>3, <2>5
<1>20. CASE poll
  BY <1>20 DEF poll, disk
<1>21. CASE Surroundings
  <2>1. UNCHANGED << gui, queue, handles, event, thread, handlesCopy, woke >>
    BY <1>21, SurroundingsKeep DEF guiVars, shared, runVars
  <2>2. signalled \subseteq signalled' /\ \A path \in unseen' : path \in unseen \/ path \in handles \cap signalled'
    <3>1. PICK path \in Paths :
            (\E samesize \in {FALSE} \cup {"samesize" \in Env} : Change(path, samesize)) \/ Delete(path) \/ Recreate(path)
      BY <1>21 DEF Surroundings
    <3>2. CASE \E samesize \in {FALSE} \cup {"samesize" \in Env} : Change(path, samesize)
      <4>1. {FALSE} \cup {"samesize" \in Env} = {FALSE}
        <5>1. ("samesize" \in Env) = FALSE
          OBVIOUS
        <5>2. QED
          BY <5>1, Zenon
      <4>2. \E samesize \in {FALSE} : Change(path, samesize)
        BY <3>2, <4>1, Zenon
      <4>3. Change(path, FALSE)
        BY <4>2, Zenon
      <4>4. QED
        BY <4>3 DEF Change, Follow
    <3>3. CASE Delete(path) \/ Recreate(path)
      BY <3>3 DEF Delete, Recreate, Follow
    <3>4. QED
      BY <3>1, <3>2, <3>3
  <2>3. QED
    BY <2>1, <2>2 DEF SleepsOnHandles
<1>22. CASE Quit \/ writeSettings \/ UNCHANGED vars
  BY <1>22 DEF Quit, writeSettings, vars, guiVars, shared, runVars, disk
<1>23. QED
  BY <1>1, <1>2, <1>3, <1>4, <1>5, <1>6, <1>7, <1>8, <1>9, <1>10, <1>11, <1>12, <1>13, <1>14, <1>15, <1>16, <1>17, <1>18, <1>19, <1>20, <1>21, <1>22 DEF Next, addPaths, removePaths, inCall, run

\* The conjunction is inductive.
LEMMA InvStep == Inv /\ [Next]_vars => Inv'
<1> SUFFICES ASSUME Inv, [Next]_vars PROVE Inv'
  OBVIOUS
<1>1. Values /\ Signals /\ Flags /\ Places /\ AckedIsWatched /\ RemovalsApart /\ WatchedExactlyWhenListed
  BY TypeParts DEF Inv, Places
<1>2. Values' /\ Signals' /\ Flags'
  BY <1>1, ValuesStep, SignalsStep, FlagsStep
<1>3. TypeOK'
  BY <1>2 DEF TypeOK, Values, Signals, Flags
<1>4. Places' /\ RemovalsApart' /\ WatchedExactlyWhenListed'
  BY <1>1, PlacesStep, ListStep
<1>5. QED
  BY <1>3, <1>4 DEF Inv

\* It holds at the start.
LEMMA InvInit == Init => Inv
<1> SUFFICES ASSUME Init PROVE Inv
  OBVIOUS
<1>1. Values
  BY DEF Init, Values, GuiPlaces, Nothing
<1>2. queue = << >> /\ handles = {} /\ directories = {}
  BY DEF Init
<1>3. Flags
  BY DEF Init, Flags
<1>4. Places
  BY DEF Init, Places, OneDirectory, AckedIsWatched, ThreadSleeps, ThreadIsQuiet, QuitsWhenAsked, Inserting, Quitting
<1>5. RemovalsApart /\ WatchedExactlyWhenListed
  BY <1>2 DEF RemovalsApart, WatchedExactlyWhenListed
<1>6. Signals
  BY <1>2 DEF Signals
<1>7. QED
  BY <1>1, <1>6, <1>3, <1>4, <1>5, TypeParts DEF Inv

\* It holds in every reachable state.
LEMMA InvCorrect == Spec => []Inv
  BY InvInit, InvStep, PTL DEF Spec

-----------------------------------------------------------------------------
\* Whatever the user and the file system do, every variable keeps its type.
THEOREM TypeCorrect == Spec => []TypeOK
<1>1. Inv => TypeOK
  BY DEF Inv
<1>2. QED
  BY <1>1, InvCorrect, PTL

\* addPaths inserts into the thread's containers without its lock, and never
\* while the thread holds it or is about to: one directory at a time is safe.
THEOREM InsertionCorrect == Spec => []InsertionIsAlone
<1>1. Inv => InsertionIsAlone
  BY DEF Inv, Places, ThreadSleeps, Inserting, InsertionIsAlone, threadHasMutex, Working
<1>2. QED
  BY <1>1, InvCorrect, PTL

\* What is listed has a handle or the signal of its removal on the way, for any
\* number of directories, signals under way and ends of the program.
THEOREM WatchedCorrect == Spec => []WatchedExactlyWhenListed
<1>1. Inv => WatchedExactlyWhenListed
  BY DEF Inv
<1>2. QED
  BY <1>1, InvCorrect, PTL

\* removePaths and the destructor wait for a thread that is about to read their
\* 'q', unless it fell between lines 340 and 341: no wake-up, whatever the handles
\* do meanwhile, takes its place.
THEOREM QuitCorrect == Spec => []QuitIsUnderWay
<1>1. Init => QuitFollowed
  BY DEF Init, QuitFollowed, Quitting
<1>2. Inv /\ QuitFollowed /\ [Next]_vars => QuitFollowed'
  BY QuitStep, TypeParts DEF Inv, Places
<1>3. QuitFollowed => QuitIsUnderWay
  BY DEF QuitFollowed, Quitting, QuitIsUnderWay, GuiWaits
<1>4. QED
  BY <1>1, <1>2, <1>3, InvCorrect, PTL DEF Spec

\* No change that the file system reports gets lost between a handle and the
\* GUI's queue, while directories come and go and are listed and removed.
THEOREM ChangeCorrect ==
  ASSUME "samesize" \notin Env
  PROVE  Spec => []ChangeIsUnderWay
<1> DEFINE Followed == SleepsOnHandles /\ RemovalsLast /\ NewsIsListed /\ ChangeIsUnderWay
<1>1. Init => Followed
  <2> SUFFICES ASSUME Init PROVE Followed
    OBVIOUS
  <2>1. queue = << >> /\ unseen = {} /\ thread = "none"
    BY DEF Init
  <2>2. QED
    BY <2>1 DEF SleepsOnHandles, RemovalsLast, NewsIsListed, ChangeIsUnderWay
<1>2. Inv /\ Followed /\ [Next]_vars => Followed'
  BY SleepStep, NewsStep, ChangeStep, TypeParts DEF Inv
<1>3. QED
  BY <1>1, <1>2, InvCorrect, PTL DEF Spec
=============================================================================
