---------------------- MODULE DispatcherLifecycleProofs ----------------------
(***************************************************************************)
(* Proofs about DispatcherLifecycle, for any number of callers and loops.    *)
(*                                                                         *)
(* Type correctness and NoLostWakeup need no help: TASK_STOPPED is written   *)
(* by a loop that is about to notify, and nobody falls asleep after it.      *)
(*                                                                         *)
(* The other properties are about a careful host, and CarefulInv says what    *)
(* its care amounts to: one call at a time, and from the place of the one     *)
(* loop follow the state and whether the sockets are open.                   *)
(***************************************************************************)
EXTENDS DispatcherLifecycle, FiniteSetTheorems, TLAPS

\* Where a loop is while it uses the sockets, and while they are open.
Active == {"open", "run", "select", "stopped", "close"}
HasSockets == {"run", "select", "stopped"}

CallsInv ==
    /\ \A c, d \in Callers : cpc[c] # "idle" /\ cpc[d] # "idle" => c = d
    /\ \A c \in Callers :
        /\ cpc[c] = "create" =>
                state = "TASK_START" /\ \A l \in Loops : lpc[l] \notin Active
        /\ cpc[c] = "lock" => state \in {"TASK_RUN", "TASK_STOPPED"}

LoopsInv ==
    /\ \A k, l \in Loops : lpc[k] \in Active /\ lpc[l] \in Active => k = l
    /\ \A l \in Loops :
        /\ lpc[l] \notin {"lock", "wait", "asleep"}
        /\ lpc[l] \in {"open", "run"} => state = "TASK_START"
        /\ lpc[l] = "select" => state \in {"TASK_RUN", "TASK_STOP"}
        /\ lpc[l] \in {"stopped", "close"} => state \in {"TASK_RUN", "TASK_STOP"}
        /\ lpc[l] \in HasSockets => opened
    /\ opened => \E l \in Loops : lpc[l] \in HasSockets
    /\ state = "TASK_RUN" => \E l \in Loops : lpc[l] \in {"select", "stopped", "close"}

CarefulInv == careful => CallsInv /\ LoopsInv

IInv == TypeOK /\ NoLostWakeup /\ CarefulInv

----------------------------------------------------------------------------
\* The steps of the callers keep the types.
LEMMA CallTyped ==
    ASSUME TypeOK, NEW c \in Callers,
           \/ startUplink(c) \/ stopUplink(c) \/ stopStopped(c) \/ createThread(c)
           \/ stopRequest(c) \/ stopWait(c)
    PROVE  TypeOK'
<1> USE LifecycleAssumption DEF callVars, sockVars, TypeOK, InStop
<1>1. CASE startUplink(c)
  BY <1>1 DEF startUplink
<1>2. CASE stopUplink(c)
  BY <1>2 DEF stopUplink
<1>3. CASE stopStopped(c)
  BY <1>3 DEF stopStopped
<1>4. CASE createThread(c)
  BY <1>4 DEF createThread
<1>5. CASE stopRequest(c)
  BY <1>5 DEF stopRequest
<1>6. CASE stopWait(c)
  BY <1>6 DEF stopWait
<1> QED
  BY <1>1, <1>2, <1>3, <1>4, <1>5, <1>6

\* The steps of the loops keep the types.
LEMMA LoopTyped ==
    ASSUME TypeOK, NEW l \in Loops,
           \/ openFails(l) \/ openSockets(l) \/ setRun(l) \/ select(l) \/ selectFails(l)
           \/ closeSockets(l) \/ setStopped(l) \/ notify(l)
           \/ selfStopWait(l) \/ selfStop(l)
    PROVE  TypeOK'
<1> USE LifecycleAssumption DEF callVars, sockVars, TypeOK, InStop, LoopEnd
<1>1. CASE openFails(l)
  BY <1>1 DEF openFails
<1>2. CASE openSockets(l)
  BY <1>2 DEF openSockets
<1>3. CASE setRun(l)
  BY <1>3 DEF setRun
<1>4. CASE select(l)
  BY <1>4 DEF select
<1>5. CASE closeSockets(l)
  BY <1>5 DEF closeSockets
<1>6. CASE setStopped(l)
  BY <1>6 DEF setStopped
<1>7. CASE notify(l)
  BY <1>7 DEF notify
<1>8. CASE selfStopWait(l)
  BY <1>8 DEF selfStopWait
<1>9. CASE selfStop(l)
  BY <1>9 DEF selfStop
<1>10. CASE selectFails(l)
  BY <1>10 DEF selectFails
<1> QED
  BY <1>1, <1>2, <1>3, <1>4, <1>5, <1>6, <1>7, <1>8, <1>9, <1>10

----------------------------------------------------------------------------
\* No caller falls asleep after TASK_STOPPED.
LEMMA CallWakes ==
    ASSUME TypeOK, NoLostWakeup, NEW c \in Callers,
           \/ startUplink(c) \/ stopUplink(c) \/ stopStopped(c) \/ createThread(c)
           \/ stopRequest(c) \/ stopWait(c)
    PROVE  NoLostWakeup'
<1> USE LifecycleAssumption DEF callVars, sockVars, TypeOK, InStop, NoLostWakeup
<1>1. CASE startUplink(c)
  BY <1>1 DEF startUplink
<1>2. CASE stopUplink(c)
  BY <1>2 DEF stopUplink
<1>3. CASE stopStopped(c)
  BY <1>3 DEF stopStopped
<1>4. CASE createThread(c)
  BY <1>4 DEF createThread
<1>5. CASE stopRequest(c)
  BY <1>5 DEF stopRequest
<1>6. CASE stopWait(c)
  BY <1>6 DEF stopWait
<1> QED
  BY <1>1, <1>2, <1>3, <1>4, <1>5, <1>6

\* No loop does, and who writes TASK_STOPPED notifies.
LEMMA LoopWakes ==
    ASSUME TypeOK, NoLostWakeup, NEW l \in Loops,
           \/ openFails(l) \/ openSockets(l) \/ setRun(l) \/ select(l) \/ selectFails(l)
           \/ closeSockets(l) \/ setStopped(l) \/ notify(l)
           \/ selfStopWait(l) \/ selfStop(l)
    PROVE  NoLostWakeup'
<1> USE LifecycleAssumption DEF callVars, sockVars, TypeOK, InStop, LoopEnd, NoLostWakeup
<1>1. CASE openFails(l)
  BY <1>1 DEF openFails
<1>2. CASE openSockets(l)
  BY <1>2 DEF openSockets
<1>3. CASE setRun(l)
  BY <1>3 DEF setRun
<1>4. CASE select(l)
  BY <1>4 DEF select
<1>5. CASE closeSockets(l)
  BY <1>5 DEF closeSockets
<1>6. CASE setStopped(l)
  BY <1>6 DEF setStopped
<1>7. CASE notify(l)
  BY <1>7 DEF notify
<1>8. CASE selfStopWait(l)
  BY <1>8 DEF selfStopWait
<1>9. CASE selfStop(l)
  BY <1>9 DEF selfStop
<1>10. CASE selectFails(l)
  BY <1>10 DEF selectFails
<1> QED
  BY <1>1, <1>2, <1>3, <1>4, <1>5, <1>6, <1>7, <1>8, <1>9, <1>10

----------------------------------------------------------------------------
\* The steps of a careful host's callers.
LEMMA CallCareful ==
    ASSUME TypeOK, careful, CallsInv, LoopsInv, NEW c \in Callers,
           \/ startUplink(c) \/ stopUplink(c) \/ stopStopped(c) \/ createThread(c)
           \/ stopRequest(c) \/ stopWait(c)
    PROVE  CallsInv' /\ LoopsInv'
<1> USE LifecycleAssumption DEF callVars, sockVars, TypeOK, InStop, CallsInv, LoopsInv, Active, HasSockets
<1>1. CASE startUplink(c)
  BY <1>1 DEF startUplink
<1>2. CASE stopUplink(c)
  BY <1>2 DEF stopUplink
<1>3. CASE stopStopped(c)
  BY <1>3 DEF stopStopped
<1>4. CASE createThread(c)
  BY <1>4 DEF createThread
<1>5. CASE stopRequest(c)
  BY <1>5 DEF stopRequest
<1>6. CASE stopWait(c)
  BY <1>6 DEF stopWait
<1> QED
  BY <1>1, <1>2, <1>3, <1>4, <1>5, <1>6

\* The steps of its loops.
LEMMA LoopCareful ==
    ASSUME TypeOK, careful, CallsInv, LoopsInv, NEW l \in Loops,
           \/ openFails(l) \/ openSockets(l) \/ setRun(l) \/ select(l) \/ selectFails(l)
           \/ closeSockets(l) \/ setStopped(l) \/ notify(l)
           \/ selfStopWait(l) \/ selfStop(l)
    PROVE  CallsInv' /\ LoopsInv'
<1> USE LifecycleAssumption DEF callVars, sockVars, TypeOK, InStop, CallsInv, LoopsInv, Active, HasSockets
<1>1. CASE openFails(l)
  BY <1>1 DEF openFails
<1>2. CASE openSockets(l)
  BY <1>2 DEF openSockets
<1>3. CASE setRun(l)
  BY <1>3 DEF setRun
<1>4. CASE select(l)
  BY <1>4 DEF select
<1>5. CASE closeSockets(l)
  BY <1>5 DEF closeSockets
<1>6. CASE setStopped(l)
  BY <1>6 DEF setStopped
<1>7. CASE notify(l)
  BY <1>7 DEF notify
<1>8. CASE selfStopWait(l)
  BY <1>8 DEF selfStopWait
<1>9. CASE selfStop(l)
  BY <1>9 DEF selfStop
<1>10. CASE selectFails(l)
  BY <1>10 DEF selectFails
<1> QED
  BY <1>1, <1>2, <1>3, <1>4, <1>5, <1>6, <1>7, <1>8, <1>9, <1>10

----------------------------------------------------------------------------

\* Nothing runs at first.
LEMMA InitIInv == Init => IInv
BY LifecycleAssumption
   DEF Init, IInv, TypeOK, NoLostWakeup, CarefulInv, CallsInv, LoopsInv, Active,
       HasSockets, LoopEnd

\* The host stays as it is.
LEMMA CarefulKept == [Next]_vars => careful' = careful
BY DEF Next, callStep, loopStep, vars, callVars, sockVars, startUplink, stopUplink, stopStopped, createThread, stopRequest,
       stopWait,
       openFails, openSockets, setRun, select, selectFails, closeSockets, setStopped,
       notify, selfStopWait, selfStop

\* Every step keeps the invariant.
LEMMA NextIInv == IInv /\ [Next]_vars => IInv'
<1> SUFFICES ASSUME IInv, [Next]_vars PROVE IInv'
  OBVIOUS
<1>1. CASE UNCHANGED vars
  BY <1>1
     DEF vars, callVars, sockVars, IInv, TypeOK, NoLostWakeup, CarefulInv, CallsInv,
         LoopsInv
<1>2. CASE Next
  <2>1. careful' = careful
    BY CarefulKept
  <2>2. ASSUME NEW c \in Callers,
               \/ startUplink(c) \/ stopUplink(c) \/ stopStopped(c)
               \/ callStep(c)
        PROVE  IInv'
    <3>1. TypeOK' /\ NoLostWakeup'
      BY <2>2, CallTyped, CallWakes DEF IInv, callStep
    <3>2. careful => CallsInv' /\ LoopsInv'
      BY <2>2, CallCareful DEF IInv, CarefulInv, callStep
    <3> QED
      BY <2>1, <3>1, <3>2 DEF IInv, CarefulInv
  <2>3. ASSUME NEW l \in Loops, loopStep(l) \/ selectFails(l) \/ selfStop(l)
        PROVE  IInv'
    <3>1. TypeOK' /\ NoLostWakeup'
      BY <2>3, LoopTyped, LoopWakes DEF IInv, loopStep
    <3>2. careful => CallsInv' /\ LoopsInv'
      BY <2>3, LoopCareful DEF IInv, CarefulInv, loopStep
    <3> QED
      BY <2>1, <3>1, <3>2 DEF IInv, CarefulInv
  <2> QED
    BY <1>2, <2>2, <2>3 DEF Next
<1> QED
  BY <1>1, <1>2

----------------------------------------------------------------------------

\* Every variable keeps its type: in particular stopUplink() only ever frees a
\* thread object that startUplink() made.
THEOREM TypeCorrect == Spec => []TypeOK
<1>1. IInv => TypeOK
  BY DEF IInv
<1> QED
  BY InitIInv, NextIInv, <1>1, PTL DEF Spec

\* Whoever calls start() and stop(), in any order and on any thread, nobody who
\* waits in stopUplink() sleeps over TASK_STOPPED without a notification to come
\* (cvState.wait() and notify_all()), as long as the sockets open.
THEOREM WakeupNeverLost == Spec => []NoLostWakeup
<1>1. IInv => NoLostWakeup
  BY DEF IInv
<1> QED
  BY InitIInv, NextIInv, <1>1, PTL DEF Spec

\* Active loops of a careful host are one.
LEMMA OneActive ==
    ASSUME IInv, careful
    PROVE  /\ running = {l \in Loops : lpc[l] \in Active}
           /\ \A k, l \in running : k = l
<1>1. \A l \in Loops : lpc[l] \in Active <=> lpc[l] \notin LoopEnd \cup {"notify"}
  <2> SUFFICES ASSUME NEW l \in Loops
               PROVE  lpc[l] \in Active <=> lpc[l] \notin LoopEnd \cup {"notify"}
    OBVIOUS
  <2>1. lpc[l] \in LoopEnd \cup {"notify", "lock", "wait", "asleep"} \cup Active
    BY DEF IInv, TypeOK, InStop, Active
  <2>2. lpc[l] \notin {"lock", "wait", "asleep"}
    BY DEF IInv, CarefulInv, LoopsInv
  <2> QED
    BY <2>1, <2>2 DEF Active, LoopEnd
<1>2. running = {l \in Loops : lpc[l] \in Active}
  BY <1>1 DEF running
<1> QED
  BY <1>2 DEF IInv, CarefulInv, LoopsInv

\* A careful host gets one loop at a time, for any number of callers and of
\* starts (startUplink, runUplink).
THEOREM OneLoopAlways == Spec => []OneLoop
<1>1. IInv => OneLoop
  <2> SUFFICES ASSUME IInv, careful PROVE Cardinality(running) <= 1
    BY DEF OneLoop
  <2>1. CASE running = {}
    <3>1. Cardinality(running) = 0
      BY <2>1, FS_EmptySet
    <3> QED
      BY <3>1
  <2>2. CASE running # {}
    <3>1. PICK l : running = {l}
      BY <2>2, OneActive
    <3>2. Cardinality(running) = 1
      BY <3>1, FS_Singleton
    <3> QED
      BY <3>2
  <2> QED
    BY <2>1, <2>2
<1> QED
  BY InitIInv, NextIInv, <1>1, PTL DEF Spec

\* TASK_STOPPED tells a careful host the truth: the sockets are closed and no loop
\* uses them (closeSockets() before the last write of state, and openSockets()'s
\* failure).
THEOREM StoppedAlwaysClosed == Spec => []StoppedIsClosed
<1>1. IInv => StoppedIsClosed
  <2> SUFFICES ASSUME IInv, careful, state = "TASK_STOPPED"
               PROVE  ~opened /\ running = {}
    BY DEF StoppedIsClosed
  <2>1. \A l \in Loops : lpc[l] \notin Active
    BY DEF IInv, CarefulInv, LoopsInv, Active
  <2> QED
    BY <2>1, OneActive DEF IInv, TypeOK, CarefulInv, LoopsInv, Active, HasSockets
<1> QED
  BY InitIInv, NextIInv, <1>1, PTL DEF Spec

\* The state of a careful host's loop goes from TASK_STOP to TASK_STOPPED alone.
LEMMA StopKeptStep ==
    ASSUME IInv, [Next]_vars, careful, state = "TASK_STOP"
    PROVE  state' \in {"TASK_STOP", "TASK_STOPPED"}
<1>1. CASE UNCHANGED vars
  BY <1>1 DEF vars
<1>2. ASSUME NEW c \in Callers,
             \/ startUplink(c) \/ stopUplink(c) \/ stopStopped(c) \/ callStep(c)
      PROVE  state' \in {"TASK_STOP", "TASK_STOPPED"}
  BY <1>2
     DEF callStep, startUplink, stopUplink, stopStopped, createThread, stopRequest,
         stopWait
<1>3. ASSUME NEW l \in Loops, loopStep(l) \/ selectFails(l) \/ selfStop(l)
      PROVE  state' \in {"TASK_STOP", "TASK_STOPPED"}
  <2>1. lpc[l] # "run"
    BY DEF IInv, CarefulInv, LoopsInv
  <2> QED
    BY <1>3, <2>1
       DEF loopStep, callVars, sockVars,
           openFails, openSockets, setRun, select, selectFails, closeSockets, setStopped,
           notify, selfStopWait, selfStop
<1> QED
  BY <1>1, <1>2, <1>3 DEF Next

\* The stop request of a careful host is not undone (stopUplink, runUplink).
THEOREM StopAlwaysKept == Spec => StopIsKept
<1>1. IInv /\ [Next]_vars =>
        [(careful /\ state = "TASK_STOP") =>
            state' \in {"TASK_STOP", "TASK_STOPPED"}]_vars
  BY StopKeptStep
<1> QED
  BY InitIInv, NextIInv, <1>1, PTL DEF Spec, StopIsKept
=============================================================================
