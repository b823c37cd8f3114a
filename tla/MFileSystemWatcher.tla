------------------------- MODULE MFileSystemWatcher -------------------------
(***************************************************************************)
(* MFileSystemWatcher with its Windows engine (client/qt/), as the client   *)
(* uses it: installWatcher adds syncDir, stopWatcher removes it, so that at *)
(* most one directory is watched at a time and one thread does it.  The GUI *)
(* thread calls addPaths and removePaths; the engine's thread waits for the *)
(* notification handle and for an auto-reset event, and posts its signals   *)
(* to the GUI.  thread->mutex guards the handles, but not msg, nor the      *)
(* insertion in addPaths, whose lock ends with its own statement.           *)
(*                                                                         *)
(* An operator whose name ends in _Mutant is the one after it with a bug    *)
(* planted, to show that a property notices.                               *)
(***************************************************************************)
EXTENDS Integers, Sequences

CONSTANTS
  Paths,        \* directories the user may choose as syncDir
  Env,          \* what the surroundings may do in this instance
  MaxQueue      \* bound: signals posted to the GUI while more changes come

EnvEvents ==
  { "delete",     \* a directory is deleted, and may come back
    "samesize",   \* a file is rewritten at its size
    "settings",   \* the user chooses another directory
    "quit" }      \* the program ends and is started again

ASSUME WatcherAssumption ==
  /\ Paths # {} /\ Env \subseteq EnvEvents /\ MaxQueue \in Nat \ {0}
  /\ {"event", "closed"} \cap Paths = {}      \* values of woke

VARIABLES
  \* the GUI thread
  gui,          \* where it is in a call of the watcher
  syncDir,      \* Client::syncDir
  directories,  \* MFileSystemWatcherPrivate::directories
  queue,        \* directoryChanged signals of the thread not yet delivered
  \* shared
  handles,      \* the directories with a handle in thread->handles
  msg,          \* thread->msg, "" for 0
  event,        \* the event handles[0] is set
  \* the engine's thread
  thread,       \* where its run() is
  handlesCopy,  \* the directories whose handles it waits for
  woke,         \* what its wait returned: "event", "closed" or a directory
  m,            \* the message it took
  \* the file system
  exists,       \* the directories that exist
  signalled,    \* the open handles with a notification
  \* history
  unseen,       \* directories with a change under way to its signal that is followed
  lostQuit      \* the last 'q' was written between lines 340 and 341

guiVars  == << gui, syncDir, directories >>
shared   == << handles, msg, event >>
runVars  == << thread, handlesCopy, woke, m >>
disk     == << exists, signalled >>
vars     == << guiVars, queue, shared, runVars, disk, unseen, lostQuit >>

Nothing == "nothing"      \* the value of woke before the first wait

\* The thread holds its mutex from the return of a wait to the next one.
Working    == {"woken", "taken", "acked", "poll", "top"}
threadHasMutex == thread \in Working

GuiPlaces == {"idle", "insert", "wakeup", "ring", "stop", "ringStop", "wait",
              "quit", "ringQuit", "quitAgain", "ringAgain", "waitQuit"}
GuiWaits == gui \in {"wait", "waitQuit"}

\* The signals of the thread: its directory is gone, or has changed.
Posted == [path : Paths, removed : BOOLEAN, news : BOOLEAN]

TypeOK ==
  /\ gui \in GuiPlaces
  /\ syncDir \in Paths /\ directories \subseteq Paths
  /\ queue \in Seq(Posted)
  /\ handles \subseteq Paths /\ msg \in {"", "@", "q"} /\ event \in BOOLEAN
  /\ thread \in {"none", "start", "waiting", "relock", "finished"} \cup Working
  /\ handlesCopy \subseteq Paths
  /\ woke \in {"event", "closed", Nothing} \cup Paths
  /\ m \in {"", "@", "q"}
  /\ exists \subseteq Paths /\ signalled \subseteq Paths
  /\ unseen \subseteq Paths /\ lostQuit \in BOOLEAN

\* The program starts: no thread, nothing watched.
Fresh ==
  /\ gui' = "idle" /\ directories' = {} /\ queue' = << >>
  /\ handles' = {} /\ msg' = "" /\ event' = FALSE
  /\ thread' = "none" /\ handlesCopy' = {} /\ woke' = Nothing /\ m' = ""
  /\ signalled' = {} /\ unseen' = {} /\ lostQuit' = FALSE

Init ==
  /\ gui = "idle" /\ syncDir \in Paths /\ directories = {} /\ queue = << >>
  /\ handles = {} /\ msg = "" /\ event = FALSE
  /\ thread = "none" /\ handlesCopy = {} /\ woke = Nothing /\ m = ""
  /\ exists \in SUBSET Paths /\ signalled = {}
  /\ unseen = {} /\ lostQuit = FALSE

-----------------------------------------------------------------------------
(* addPaths.  A path that is listed or does not exist is skipped, and so is *)
(* one whose handle cannot be had: the call then changes nothing.  No       *)
(* unlisted directory has a handle (WatchedExactlyWhenListed), so the       *)
(* branch that finds one in a thread is not taken.                         *)

CanAdd ==
  /\ gui = "idle"
  /\ syncDir \notin directories /\ syncDir \in exists

\* No thread yet: the new one starts with the handle in its list.
addNewThread ==
  /\ CanAdd /\ thread = "none"
  /\ handles' = {syncDir} /\ directories' = directories \cup {syncDir}
  /\ msg' = "@" /\ event' = FALSE /\ thread' = "start"
  /\ UNCHANGED << gui, syncDir, queue, handlesCopy, woke, m, disk, unseen, lostQuit >>

\* A thread is there: it is asked, under its mutex, whether it has the handle.
addLookup ==
  /\ CanAdd /\ thread # "none" /\ ~threadHasMutex
  /\ gui' = "insert"
  /\ UNCHANGED << syncDir, directories, queue, shared, runVars, disk, unseen, lostQuit >>

\* QMutexLocker(&(thread->mutex)) is gone at its semicolon: nothing keeps the
\* thread away from the containers written here.
addInsert ==
  /\ gui = "insert"
  /\ handles' = handles \cup {syncDir} /\ directories' = directories \cup {syncDir}
  /\ gui' = "wakeup"
  /\ UNCHANGED << syncDir, queue, msg, event, runVars, disk, unseen, lostQuit >>

\* msg is written, then the event is set; neither under the mutex.
wakeup ==
  /\ gui = "wakeup"
  /\ msg' = "@" /\ gui' = "ring"
  /\ UNCHANGED << syncDir, directories, queue, handles, event, runVars, disk, unseen, lostQuit >>

AfterRing == [ring |-> "idle", ringStop |-> "wait", ringQuit |-> "quitAgain", ringAgain |-> "waitQuit"]

setEvent_Never_Mutant ==
  /\ gui \in DOMAIN AfterRing
  /\ gui' = AfterRing[gui]
  /\ UNCHANGED << syncDir, directories, queue, shared, runVars, disk, unseen, lostQuit >>

setEvent ==
  /\ gui \in DOMAIN AfterRing
  /\ event' = TRUE /\ gui' = AfterRing[gui]
  /\ UNCHANGED << syncDir, directories, queue, handles, msg, runVars, disk, unseen, lostQuit >>

-----------------------------------------------------------------------------
(* removePaths and the end.                                                *)

\* The watch of a directory is over: its changes need no signal any more.
Forget(path) ==
  /\ signalled' = signalled \ {path} /\ unseen' = unseen \ {path}
  /\ queue' = [i \in DOMAIN queue |->
                IF queue[i].path = path THEN [queue[i] EXCEPT !.news = FALSE] ELSE queue[i]]

removePath_KeepThread_Mutant ==
  /\ gui = "idle" /\ syncDir \in handles /\ ~threadHasMutex
  /\ directories' = directories \ {syncDir} /\ handles' = handles \ {syncDir}
  /\ Forget(syncDir)
  /\ UNCHANGED << gui, syncDir, msg, event, runVars, exists, lostQuit >>

\* The handle is closed; as it was the thread's last one the mutex is released
\* and the thread is told to stop.  A path without a handle is left as it is,
\* also in directories.
removePath ==
  /\ gui = "idle" /\ syncDir \in handles /\ ~threadHasMutex
  /\ directories' = directories \ {syncDir} /\ handles' = handles \ {syncDir}
  /\ Forget(syncDir)
  /\ gui' = "stop"
  /\ UNCHANGED << syncDir, msg, event, runVars, exists, lostQuit >>

\* ~MFileSystemWatcher stops the thread, then deletes the engine, which stops
\* it again and waits.
Quit ==
  /\ "quit" \in Env /\ gui = "idle" /\ thread # "none"
  /\ gui' = "quit"
  /\ UNCHANGED << syncDir, directories, queue, shared, runVars, disk, unseen, lostQuit >>

AfterStop == [stop |-> "ringStop", quit |-> "ringQuit", quitAgain |-> "ringAgain"]

stop ==
  /\ gui \in DOMAIN AfterStop
  /\ msg' = "q" /\ gui' = AfterStop[gui]
  /\ lostQuit' = (thread = "taken" /\ m # "q")
  /\ UNCHANGED << syncDir, directories, queue, handles, event, runVars, disk, unseen >>

\* wait() returns, the thread is deleted, and with it its event.
waited ==
  /\ gui = "wait" /\ thread = "finished"
  /\ gui' = "idle" /\ thread' = "none"
  /\ handlesCopy' = {} /\ woke' = Nothing /\ m' = "" /\ msg' = "" /\ event' = FALSE
  /\ UNCHANGED << syncDir, directories, queue, handles, disk, unseen, lostQuit >>

\* The program has ended, and is started again.
Restart ==
  /\ gui = "waitQuit" /\ thread = "finished"
  /\ Fresh /\ UNCHANGED << syncDir, exists >>

\* Client::saveSettings stops the watcher before syncDir is written.
writeSettings ==
  /\ "settings" \in Env /\ gui = "idle" /\ syncDir \notin handles /\ ~threadHasMutex
  /\ syncDir' \in Paths \ {syncDir}
  /\ UNCHANGED << gui, directories, queue, shared, runVars, disk, unseen, lostQuit >>

\* The GUI's event loop delivers the oldest signal; _q_directoryChanged drops
\* one of a directory that is no longer listed.
deliver_KeepListed_Mutant ==
  /\ gui = "idle" /\ queue # << >>
  /\ queue' = Tail(queue)
  /\ unseen' = IF Head(queue).news THEN unseen \ {Head(queue).path} ELSE unseen
  /\ UNCHANGED << guiVars, shared, runVars, disk, lostQuit >>

_q_directoryChanged ==
  /\ gui = "idle" /\ queue # << >>
  /\ LET signal == Head(queue) IN
     /\ directories' = IF signal.removed THEN directories \ {signal.path} ELSE directories
     /\ unseen' = IF signal.path \in directories /\ signal.news THEN unseen \ {signal.path} ELSE unseen
  /\ queue' = Tail(queue)
  /\ UNCHANGED << gui, syncDir, shared, runVars, disk, lostQuit >>

-----------------------------------------------------------------------------
(* ModifiedWindowsFileSystemWatcherEngineThread::run.                      *)

start ==
  /\ thread = "start"
  /\ thread' = "top"
  /\ UNCHANGED << guiVars, queue, shared, handlesCopy, woke, m, disk, unseen, lostQuit >>

\* The head of the loop: copy the handles, release the mutex, wait.
beginWait_OldCopy_Mutant ==
  /\ thread = "top"
  /\ handlesCopy' = IF woke = "event" THEN handlesCopy ELSE handles
  /\ thread' = "waiting"
  /\ UNCHANGED << guiVars, queue, shared, woke, m, disk, unseen, lostQuit >>

beginWait ==
  /\ thread = "top"
  /\ handlesCopy' = handles /\ thread' = "waiting"
  /\ UNCHANGED << guiVars, queue, shared, woke, m, disk, unseen, lostQuit >>

\* The wait's outcomes over a list of handles: the event has the lowest index;
\* a handle that was closed meanwhile may seem signalled, or fail the wait.
WaitReturns(waited_) ==
  \/ event /\ woke' = "event" /\ event' = FALSE
  \/ ~event /\ woke' \in waited_ \cap signalled /\ UNCHANGED event
  \/ ~event /\ waited_ \ handles # {} /\ woke' \in {"closed"} \cup (waited_ \ handles) /\ UNCHANGED event

endWait ==
  /\ thread = "waiting"
  /\ WaitReturns(handlesCopy)
  /\ thread' = "relock"
  /\ UNCHANGED << guiVars, queue, handles, msg, handlesCopy, m, disk, unseen, lostQuit >>

relock ==
  /\ thread = "relock"
  /\ thread' = "woken"
  /\ UNCHANGED << guiVars, queue, shared, handlesCopy, woke, m, disk, unseen, lostQuit >>

\* The message is read ...
takeMsg ==
  /\ thread = "woken" /\ woke = "event"
  /\ m' = msg /\ thread' = "taken"
  /\ UNCHANGED << guiVars, queue, shared, handlesCopy, woke, disk, unseen, lostQuit >>

\* ... and then cleared, whatever it is by now.
clearMsg ==
  /\ thread = "taken"
  /\ msg' = "" /\ thread' = IF m = "q" THEN "finished" ELSE "top"
  /\ UNCHANGED << guiVars, queue, handles, event, handlesCopy, woke, m, disk, unseen, lostQuit >>

acknowledge_Unchecked_Mutant ==
  /\ thread = "woken" /\ woke # "event"
  /\ signalled' = signalled \ {woke} /\ thread' = "acked"
  /\ UNCHANGED << guiVars, queue, shared, handlesCopy, woke, m, exists, unseen, lostQuit >>

\* FindNextChangeNotification: from here on a change signals the handle anew.
acknowledge ==
  /\ thread = "woken" /\ woke \in handles
  /\ signalled' = signalled \ {woke} /\ thread' = "acked"
  /\ UNCHANGED << guiVars, queue, shared, handlesCopy, woke, m, exists, unseen, lostQuit >>

\* A handle that is no longer in the list is passed over, a failed wait started
\* again.
passOver ==
  /\ thread = "woken" /\ woke \in ({"closed"} \cup Paths) \ handles
  /\ thread' = IF woke = "closed" THEN "top" ELSE "poll"
  /\ UNCHANGED << guiVars, queue, shared, handlesCopy, woke, m, disk, unseen, lostQuit >>

\* The signal; it is news of the change followed, if that had none yet.
Signal == [path |-> woke, removed |-> woke \notin exists,
           news |-> woke \in unseen /\ \A i \in DOMAIN queue : queue[i].news => queue[i].path # woke]

emit_KeepHandle_Mutant ==
  /\ thread = "acked"
  /\ queue' = Append(queue, Signal)
  /\ thread' = "poll"
  /\ UNCHANGED << guiVars, shared, handlesCopy, woke, m, disk, unseen, lostQuit >>

\* The directory is looked at: if it is gone, its handle is closed.
emit ==
  /\ thread = "acked"
  /\ queue' = Append(queue, Signal)
  /\ handles' = handles \cap exists
  /\ signalled' = signalled \cap handles'
  /\ thread' = "poll"
  /\ UNCHANGED << guiVars, msg, event, handlesCopy, woke, m, exists, unseen, lostQuit >>

\* The wait that does not wait, at the end of the inner loop.
poll ==
  /\ thread = "poll"
  /\ handlesCopy' = handles
  /\ \/ WaitReturns(handles) /\ thread' = "woken"
     \/ ~event /\ handles \cap signalled = {} /\ thread' = "top" /\ UNCHANGED << woke, event >>
  /\ UNCHANGED << guiVars, queue, handles, msg, m, disk, unseen, lostQuit >>

-----------------------------------------------------------------------------
(* The file system.  FindFirstChangeNotification was told to report names   *)
(* and sizes, and the end of the directory; the bound on the queue keeps    *)
(* the surroundings, not the program, from running ahead.                  *)

\* Any change under watch may be the one that the history follows.
Follow(path) == unseen' \in {unseen, unseen \cup ({path} \cap handles)}

\* Something changes in path; a file rewritten at its size is not reported.
Change(path, samesize) ==
  /\ path \in exists /\ Len(queue) < MaxQueue
  /\ signalled' = IF samesize THEN signalled ELSE signalled \cup ({path} \cap handles)
  /\ Follow(path)
  /\ UNCHANGED << guiVars, queue, shared, runVars, exists, lostQuit >>

Delete(path) ==
  /\ "delete" \in Env /\ path \in exists /\ Len(queue) < MaxQueue
  /\ exists' = exists \ {path}
  /\ signalled' = signalled \cup ({path} \cap handles) /\ Follow(path)
  /\ UNCHANGED << guiVars, queue, shared, runVars, lostQuit >>

\* A deleted directory is gone only when its last handle is closed.
Recreate(path) ==
  /\ "delete" \in Env /\ path \notin exists \cup handles
  /\ exists' = exists \cup {path}
  /\ UNCHANGED << guiVars, queue, shared, runVars, signalled, unseen, lostQuit >>

-----------------------------------------------------------------------------
\* MFileSystemWatcher passes every path on to the native engine, the only one.
addPaths    == addNewThread \/ addLookup
removePaths == removePath

inCall   == addInsert \/ wakeup \/ setEvent \/ stop \/ waited \/ Restart
run      == start \/ beginWait \/ endWait \/ relock \/ takeMsg \/ clearMsg \/ acknowledge
              \/ passOver \/ emit \/ poll
Surroundings ==
  \E path \in Paths :
    \/ \E samesize \in {FALSE} \cup {"samesize" \in Env} : Change(path, samesize)
    \/ Delete(path) \/ Recreate(path)

Next ==
  \/ addPaths \/ removePaths \/ Quit \/ writeSettings
  \/ inCall \/ _q_directoryChanged \/ run \/ Surroundings

\* Calls go on, the engine's thread gets its turns, and the GUI's event loop
\* comes back to its queue, be it between calls again and again.
Fairness == WF_vars(inCall) /\ WF_vars(run) /\ SF_vars(_q_directoryChanged)

Spec == Init /\ [][Next]_vars
LiveSpec == Spec /\ Fairness

-----------------------------------------------------------------------------
(* Properties.                                                             *)

\* While addPaths inserts without the lock, the thread is not at work on the
\* same containers: it holds the mutex only after a wake-up, and none is due
\* while its list is empty.  True of one directory at a time.
InsertionIsAlone ==
  gui = "insert" => ~threadHasMutex /\ ~event

\* A directory is listed exactly when it has a handle or the signal of its
\* removal is on its way: none stays listed, and is then refused by addPaths,
\* while nobody watches it.
WatchedExactlyWhenListed ==
  directories = handles \cup {queue[i].path : i \in {j \in DOMAIN queue : queue[j].removed}}

\* A change under watch that no signal tells of yet is on its way to one, at any
\* moment: it is posted, or about to be, or the handle has it and the thread, if it
\* sleeps, sleeps on that handle or will be woken to take its handles anew.  True
\* of changes that are reported at all (event "samesize" is not in Env).
ChangeIsUnderWay ==
  \A path \in unseen :
    \/ \E i \in DOMAIN queue : queue[i].path = path /\ queue[i].news
    \/ thread = "acked" /\ woke = path
    \/ /\ path \in handles \cap signalled
       /\ thread = "waiting" => event \/ path \in handlesCopy \/ gui \in {"wakeup", "ring"}

\* While the GUI waits for the thread, the thread has ended or is about to read
\* the 'q': nothing but the window between the reading of msg and its clearing
\* keeps removePaths or the destructor for ever.
QuitIsUnderWay ==
  GuiWaits /\ ~lostQuit =>
    \/ thread = "finished"
    \/ thread = "taken" /\ m = "q"
    \/ msg = "q" /\ (event \/ (thread \in {"relock", "woken"} /\ woke = "event"))

\* A call of removePath or the destructor whose 'q' the thread wiped out.
Hangs == GuiWaits /\ lostQuit

\* After any change of a directory under watch a signal is delivered that was
\* sent after the change, unless the watch is removed first, or the GUI hangs
\* (the doc of directoryChanged, mfilesystemwatcher.cpp 597-604).
ChangeIsSignalled ==
  \A path \in Paths : path \in unseen ~> (path \notin unseen \/ Hangs)

\* removePaths and the destructor return, unless their 'q' fell between the
\* thread's reading of msg and its clearing it (lines 340 and 341).
RemovalEnds ==
  (GuiWaits /\ ~Hangs) ~> ~GuiWaits

\* They return (mfilesystemwatcher_p.h 84: "removes paths ... and returns").
RemovalReturns ==
  GuiWaits ~> ~GuiWaits
=============================================================================
