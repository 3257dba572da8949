------------------------ MODULE DispatcherLifecycle ------------------------
(***************************************************************************)
(* Starting and stopping the dispatcher (startUplink(), runUplink() and     *)
(* stopUplink() of lorawan/task/message-task-dispatcher.cpp).               *)
(*                                                                         *)
(* Callers are threads that call start() and stop(); Loops are the detached *)
(* threads startUplink() creates, each runs runUplink() once.  state is a   *)
(* plain variable: startUplink() reads and writes it without a lock,        *)
(* stopUplink() reads it without and writes it under mutexState, runUplink()*)
(* holds mutexState only for its last write.                                *)
(*                                                                         *)
(* How the host program uses the two functions is chosen once: careful, it  *)
(* starts a stopped dispatcher and stops a running one, one call at a time  *)
(* and never on the loop's thread; otherwise anything goes.                 *)
(***************************************************************************)
EXTENDS Naturals, FiniteSets

CONSTANTS
    Callers,
    Loops,      \* bound: threads that can be created
    NoThread

ASSUME LifecycleAssumption ==
    /\ NoThread \notin Callers \cup Loops
    /\ Callers \cap Loops = {}

VARIABLES
    state,          \* TASK_STATE
    threadUplink,   \* the thread object stopUplink() frees, NoThread: nullptr
    cpc,            \* where each caller is
    lpc,            \* where each loop thread is
    mutexState,     \* who holds it
    wakeUp,         \* a byte is in the control socket
    accepted,       \* accepted sockets in the vector: none, open or closed
    opened,         \* the sockets of the vector are open
    careful,        \* how the host program calls start() and stop()
    failed,         \* history: the sockets failed to open once
    overwrote       \* history: a stop request was written over TASK_STOPPED

callVars == <<cpc, threadUplink>>
sockVars == <<wakeUp, accepted, opened, failed>>
vars == <<state, callVars, lpc, mutexState, sockVars, careful, overwrote>>

LoopEnd == {"none", "gone"}

\* A call of stopUplink() is between its parts "lock", "wait" (predicate, under
\* the lock) and "asleep".
InStop == {"lock", "wait", "asleep"}

TypeOK ==
    /\ state \in {"TASK_STOPPED", "TASK_START", "TASK_RUN", "TASK_STOP"}
    /\ threadUplink \in Loops \cup {NoThread}
    /\ cpc \in [Callers -> {"idle", "create"} \cup InStop]
    /\ lpc \in [Loops -> LoopEnd \cup InStop \cup
                {"open", "run", "select", "stopped", "close", "notify"}]
    /\ mutexState \in Callers \cup Loops \cup {NoThread}
    /\ wakeUp \in BOOLEAN
    /\ accepted \in {"none", "open", "closed"}
    /\ opened \in BOOLEAN /\ careful \in BOOLEAN
    /\ failed \in BOOLEAN /\ overwrote \in BOOLEAN

Init ==
    /\ state = "TASK_STOPPED"
    /\ threadUplink = NoThread
    /\ cpc = [c \in Callers |-> "idle"]
    /\ lpc = [l \in Loops |-> "none"]
    /\ mutexState = NoThread
    /\ wakeUp = FALSE
    /\ accepted = "none"
    /\ opened = FALSE
    /\ careful \in BOOLEAN
    /\ failed = FALSE /\ overwrote = FALSE

\* The threads that use the sockets or the queue.
running == {l \in Loops : lpc[l] \notin LoopEnd \cup {"notify"}}

----------------------------------------------------------------------------
(* startUplink()                                                            *)

startUplink(c) ==
    /\ cpc[c] = "idle"
    /\ state # "TASK_RUN"
    /\ Cardinality({d \in Callers : cpc[d] = "create"})
            < Cardinality({l \in Loops : lpc[l] = "none"})
    /\ careful => /\ state = "TASK_STOPPED"
                  /\ \A d \in Callers : cpc[d] = "idle"
    /\ state' = "TASK_START"
    /\ cpc' = [cpc EXCEPT ![c] = "create"]
    /\ UNCHANGED <<threadUplink, lpc, mutexState, sockVars, careful, overwrote>>

\* new std::thread, with the wrong pointer kept.
createThread_wrongPointer(c) ==
    /\ cpc[c] = "create"
    /\ \E l \in Loops :
          /\ lpc[l] = "none"
          /\ lpc' = [lpc EXCEPT ![l] = "open"]
          /\ threadUplink' = c
    /\ cpc' = [cpc EXCEPT ![c] = "idle"]
    /\ UNCHANGED <<state, mutexState, sockVars, careful, overwrote>>

\* new std::thread, detached
createThread(c) ==
    /\ cpc[c] = "create"
    /\ \E l \in Loops :
          /\ lpc[l] = "none"
          /\ lpc' = [lpc EXCEPT ![l] = "open"]
          /\ threadUplink' = l
    /\ cpc' = [cpc EXCEPT ![c] = "idle"]
    /\ UNCHANGED <<state, mutexState, sockVars, careful, overwrote>>

----------------------------------------------------------------------------
(* stopUplink()                                                             *)

stopUplink(c) ==
    /\ cpc[c] = "idle"
    /\ state # "TASK_STOPPED"
    /\ careful => /\ state = "TASK_RUN"
                  /\ \A d \in Callers : cpc[d] = "idle"
    /\ cpc' = [cpc EXCEPT ![c] = "lock"]
    /\ UNCHANGED <<state, threadUplink, lpc, mutexState, sockVars, careful, overwrote>>

\* Nothing runs: only the thread object is freed.
stopStopped(c) ==
    /\ cpc[c] = "idle"
    /\ state = "TASK_STOPPED"
    /\ threadUplink # NoThread
    /\ threadUplink' = NoThread
    /\ UNCHANGED <<state, cpc, lpc, mutexState, sockVars, careful, overwrote>>

\* The stop request and the wake-up byte, which is lost on a closed socket.  The
\* state may have changed since stopUplink() looked at it.
stopRequest(c) ==
    /\ cpc[c] = "lock"
    /\ mutexState = NoThread
    /\ mutexState' = c
    /\ state' = "TASK_STOP"
    /\ wakeUp' = (wakeUp \/ opened)
    /\ overwrote' = (overwrote \/ state = "TASK_STOPPED")
    /\ cpc' = [cpc EXCEPT ![c] = "wait"]
    /\ UNCHANGED <<threadUplink, lpc, accepted, opened, failed, careful>>

\* The predicate of cvState.wait(), evaluated with the lock held.
stopWait(c) ==
    /\ cpc[c] = "wait"
    /\ mutexState \in {c, NoThread}
    /\ mutexState' = NoThread
    /\ IF state = "TASK_STOPPED"
       THEN /\ cpc' = [cpc EXCEPT ![c] = "idle"]
            /\ threadUplink' = NoThread
       ELSE /\ cpc' = [cpc EXCEPT ![c] = "asleep"]
            /\ UNCHANGED threadUplink
    /\ UNCHANGED <<state, lpc, sockVars, careful, overwrote>>

----------------------------------------------------------------------------
(* runUplink()                                                              *)

\* openSockets() fails: by an error of a socket, and always when the vector
\* holds an accepted socket that was closed, because such a socket cannot be
\* opened again.  The sockets are closed; state is written without the lock and
\* nobody is notified.
openFails(l) ==
    /\ lpc[l] = "open"
    /\ state' = "TASK_STOPPED"
    /\ opened' = FALSE
    /\ wakeUp' = FALSE
    /\ accepted' = IF accepted = "open" THEN "closed" ELSE accepted
    /\ failed' = TRUE
    /\ lpc' = [lpc EXCEPT ![l] = "gone"]
    /\ UNCHANGED <<callVars, mutexState, careful, overwrote>>

openSockets(l) ==
    /\ lpc[l] = "open"
    /\ accepted # "closed"
    /\ opened' = TRUE
    /\ lpc' = [lpc EXCEPT ![l] = "run"]
    /\ UNCHANGED <<state, callVars, mutexState, wakeUp, accepted, failed, careful, overwrote>>

\* A loop that does not say that it runs.
setRun_unset(l) ==
    /\ lpc[l] = "run"
    /\ lpc' = [lpc EXCEPT ![l] = "select"]
    /\ UNCHANGED <<state, callVars, mutexState, sockVars, careful, overwrote>>

\* state = TASK_RUN, whatever it was.
setRun(l) ==
    /\ lpc[l] = "run"
    /\ state' = "TASK_RUN"
    /\ lpc' = [lpc EXCEPT ![l] = "select"]
    /\ UNCHANGED <<callVars, mutexState, sockVars, careful, overwrote>>

\* A loop that takes itself for running on every turn.
select_rearm(l) ==
    /\ lpc[l] = "select"
    /\ wakeUp' = FALSE
    /\ lpc' = [lpc EXCEPT ![l] = IF state = "TASK_RUN" /\ opened
                                 THEN "select" ELSE "stopped"]
    /\ state' = "TASK_RUN"
    /\ UNCHANGED <<callVars, mutexState, accepted, opened, failed, careful, overwrote>>

\* select() returns, by a socket or its timeout; sockets are read, a connection
\* may be accepted; the loop condition is checked.
select(l) ==
    /\ lpc[l] = "select"
    /\ wakeUp' = FALSE
    /\ accepted' \in {accepted, IF accepted = "none" THEN "open" ELSE accepted}
    /\ lpc' = [lpc EXCEPT ![l] = IF state = "TASK_RUN" /\ opened
                                 THEN "select" ELSE "stopped"]
    /\ UNCHANGED <<state, callVars, mutexState, opened, failed, careful, overwrote>>

\* select() fails, for instance because of a signal: the loop ends by itself, and
\* state stays what it is until its last write.
selectFails(l) ==
    /\ lpc[l] = "select"
    /\ lpc' = [lpc EXCEPT ![l] = "stopped"]
    /\ UNCHANGED <<state, callVars, mutexState, sockVars, careful, overwrote>>

\* An end of the loop that reports TASK_STOPPED before it closes the sockets.
closeSockets_reported(l) ==
    /\ lpc[l] = "stopped"
    /\ state' = "TASK_STOPPED"
    /\ lpc' = [lpc EXCEPT ![l] = "close"]
    /\ UNCHANGED <<callVars, mutexState, sockVars, careful, overwrote>>

\* closeSockets(), doneBridges(), onStop
closeSockets(l) ==
    /\ lpc[l] = "stopped"
    /\ opened' = FALSE
    /\ wakeUp' = FALSE
    /\ accepted' = IF accepted = "open" THEN "closed" ELSE accepted
    /\ lpc' = [lpc EXCEPT ![l] = "close"]
    /\ UNCHANGED <<state, callVars, mutexState, failed, careful, overwrote>>

\* state = TASK_STOPPED under mutexState
setStopped(l) ==
    /\ lpc[l] = "close"
    /\ mutexState = NoThread
    /\ state' = "TASK_STOPPED"
    /\ lpc' = [lpc EXCEPT ![l] = "notify"]
    /\ UNCHANGED <<callVars, mutexState, sockVars, careful, overwrote>>

\* An end of the loop that does not notify.
notify_none(l) ==
    /\ lpc[l] = "notify"
    /\ lpc' = [lpc EXCEPT ![l] = "gone"]
    /\ UNCHANGED <<state, callVars, mutexState, sockVars, careful, overwrote>>

\* cvState.notify_all()
notify(l) ==
    /\ lpc[l] = "notify"
    /\ cpc' = [c \in Callers |-> IF cpc[c] = "asleep" THEN "wait" ELSE cpc[c]]
    /\ lpc' = [k \in Loops |-> IF k = l THEN "gone"
                               ELSE IF lpc[k] = "asleep" THEN "wait" ELSE lpc[k]]
    /\ UNCHANGED <<state, threadUplink, mutexState, sockVars, careful, overwrote>>

\* stop() on the loop's own thread: the thread sleeps in it until a state that
\* only it would set.
selfStop(l) ==
    /\ ~careful
    /\ lpc[l] = "select"
    /\ mutexState = NoThread
    /\ state' = "TASK_STOP"
    /\ wakeUp' = opened
    /\ lpc' = [lpc EXCEPT ![l] = "asleep"]
    /\ UNCHANGED <<callVars, mutexState, accepted, opened, failed, careful, overwrote>>

\* It goes on when another loop has ended meanwhile.
selfStopWait(l) ==
    /\ lpc[l] = "wait"
    /\ mutexState = NoThread
    /\ lpc' = [lpc EXCEPT ![l] = IF state = "TASK_STOPPED" THEN "select"
                                 ELSE "asleep"]
    /\ threadUplink' = IF state = "TASK_STOPPED" THEN NoThread ELSE threadUplink
    /\ UNCHANGED <<state, cpc, mutexState, sockVars, careful, overwrote>>

loopStep(l) ==
    \/ openFails(l) \/ openSockets(l) \/ setRun(l) \/ select(l)
    \/ closeSockets(l) \/ setStopped(l) \/ notify(l)
    \/ selfStopWait(l)

callStep(c) == createThread(c) \/ stopRequest(c) \/ stopWait(c)

Next ==
    \/ \E c \in Callers : startUplink(c) \/ stopUplink(c) \/ stopStopped(c)
    \/ \E c \in Callers : callStep(c)
    \/ \E l \in Loops : loopStep(l) \/ selectFails(l) \/ selfStop(l)

Spec == Init /\ [][Next]_vars

\* The operating system schedules every thread; select() returns at least every
\* DEF_TIMEOUT_SECONDS.
Fairness ==
    /\ \A l \in Loops : WF_vars(loopStep(l))
    /\ \A c \in Callers : WF_vars(callStep(c))

FairSpec == Spec /\ Fairness

----------------------------------------------------------------------------

\* "If dispatcher running already, return" (message-task-dispatcher.cpp:119):
\* with a careful host one loop runs at a time.
OneLoop == careful => Cardinality(running) <= 1

\* When the dispatcher says TASK_STOPPED its sockets are closed and no thread
\* uses them any more (closeSockets() and doneBridges() precede the last write
\* of state), so that a careful host may start it again or destroy it.
StoppedIsClosed ==
    (careful /\ state = "TASK_STOPPED") => ~opened /\ running = {}

\* No wake-up is lost between the predicate and the sleep of cvState.wait():
\* whoever sleeps while the state is TASK_STOPPED is about to be notified, for
\* any calls by any threads in any order, as long as the sockets have never
\* failed to open (stopUplink, runUplink).
NoLostWakeup ==
    (/\ ~failed
     /\ state = "TASK_STOPPED"
     /\ \/ \E c \in Callers : cpc[c] = "asleep"
        \/ \E l \in Loops : lpc[l] = "asleep")
        => \E l \in Loops : lpc[l] = "notify"

\* The stop request of a careful host is not undone: only the end of the loop
\* follows it.
StopIsKept ==
    [][(careful /\ state = "TASK_STOP") =>
            state' \in {"TASK_STOP", "TASK_STOPPED"}]_vars

\* "Set stop request flag and send wake-up message. Then wait until dispatcher
\* loop finished" (message-task-dispatcher.cpp:162): stop() returns to a careful
\* host, also when select() fails meanwhile.  The exception is a loop that ended
\* by itself between the look at state (:134) and the lock (:136): the request
\* then takes the place of its TASK_STOPPED, which nobody writes again.
StopReturns ==
    \A c \in Callers :
        (careful /\ cpc[c] \in InStop) ~> (cpc[c] = "idle" \/ overwrote)

\* "Run dispatcher runner in separate threads" (message-task-dispatcher.cpp:151):
\* a dispatcher started by a careful host comes to run, or its sockets fail.
StartRuns ==
    \A l \in Loops :
        (careful /\ lpc[l] = "open") ~> (state = "TASK_RUN" \/ failed)

----------------------------------------------------------------------------
(* What the documentation says and the code does not do.                    *)

\* "Then wait until dispatcher loop finished then destroy dispatcher thread"
\* (message-task-dispatcher.cpp:163): stop() returns, also when it is called
\* before the loop has come to run, as long as the sockets open and no loop
\* stops itself.
StopAlwaysReturns ==
    \A c \in Callers : (cpc[c] \in InStop) ~>
        (\/ cpc[c] = "idle"
         \/ failed \/ \E l \in Loops : lpc[l] \in {"asleep", "wait"})
=============================================================================
