---------------------- MODULE LoraGatewayListenerProofs ----------------------
(***************************************************************************)
(* Proofs about LoraGatewayListener and JitQueue, for any settings, packets, *)
(* delays, queue sizes, counters and number of starts.                      *)
(*                                                                         *)
(* The threads: Truthful is the heart of the invariant.  As long as no       *)
(* stop() gave up on a thread and no fetch failed, a flag is set exactly     *)
(* while one thread of its kind is there.                                   *)
(*                                                                         *)
(* The queue: what jit_enqueue() accepts collides with nothing queued, so    *)
(* that the nodes of a queue have different instants, an index names one     *)
(* node, and only one node is due at a time.                                *)
(*                                                                         *)
(* The packets: Watchful says what a jit thread may rely on between its peek *)
(* and its dequeue, Apart that packets on their way do not want the radio at *)
(* the same time, and OnTime that jitRunner() keeps its dates.              *)
(***************************************************************************)
EXTENDS LoraGatewayListener, FiniteSetTheorems, WellFoundedInduction, TLAPS

Labels == Rest \cup {"loop", "receive", "fail", "stopEnter", "time", "peek",
                     "dequeue", "transmit", "send", "lock", "scanning"}

\* The types of what concerns the threads.
ThreadsTyped ==
    /\ config \in Settings
    /\ host \in {"closed", "starting", "open", "broken", "enqueue",
                 "stopEnter", "stopWait"}
    /\ session \in 0..MaxStarts
    /\ stopRequest \in BOOLEAN /\ tainted \in BOOLEAN
    /\ flag \in [Kinds \cup {"beacon"} -> BOOLEAN]
    /\ pc \in [Threads -> Labels]
    /\ mLGW \in Threads \cup {Nobody}

\* What is known of threads and flags whatever happened.
Grounded ==
    /\ host = "stopWait" => stopRequest
    /\ host = "starting" => session # 0
    /\ config.noBeacon => ~flag["beacon"]
    /\ \A t \in Threads :
        /\ pc[t] \in {"fail", "stopEnter", "stopWait"} => tainted
        /\ pc[t] # "none" =>
            /\ t[2] <= session
            /\ host = "starting" => t[2] # session
            /\ t[1] = "jit" => ~config.noSend
        /\ mLGW = t => pc[t] \in {"receive", "scanning"}

\* What the flags say is true.
FlagsTrue ==
    /\ \A t \in live : flag[t[1]]
    /\ \A s, t \in live : s[1] = t[1] => s = t
    /\ \A k \in Kinds : flag[k] => \E t \in live : t[1] = k

Truthful == ~tainted => FlagsTrue

IInv == ThreadsTyped /\ Grounded /\ Truthful

----------------------------------------------------------------------------

\* A thread is a kind and the number of the start() that made it.
LEMMA ThreadIs ==
    \A t \in Threads : /\ t[1] \in Kinds /\ t[2] \in 1..MaxStarts
                       /\ t = <<t[1], t[2]>>
BY DEF Threads

\* A step that moves one living thread to another place, leaving the flags.
LEMMA Moves ==
    ASSUME IInv, NEW t \in Threads, t \in live, NEW l \in Labels \ {"none", "gone"},
           pc' = [pc EXCEPT ![t] = l],
           UNCHANGED <<config, host, session, flag>>,
           tainted' \in BOOLEAN, stopRequest' \in BOOLEAN,
           stopRequest => stopRequest', tainted => tainted',
           l \in {"fail", "stopEnter", "stopWait"} => tainted',
           mLGW' \in {mLGW, Nobody} \/ (mLGW' = t /\ l \in {"receive", "scanning"}),
           mLGW' = t => l \in {"receive", "scanning"}
    PROVE  IInv'
<1>1. live' = live
  BY DEF IInv, ThreadsTyped, live
<1>2. ThreadsTyped'
  BY DEF IInv, ThreadsTyped
<1>3. Grounded'
  BY ListenerAssumption DEF IInv, ThreadsTyped, Grounded, live
<1>4. Truthful'
  BY <1>1 DEF IInv, Truthful, FlagsTrue
<1> QED
  BY <1>2, <1>3, <1>4 DEF IInv

\* A thread that ends and clears its flag.
LEMMA ExitLoop ==
    ASSUME IInv, NEW t \in Threads, exitLoop(t)
    PROVE  IInv'
<1> USE DEF hostVars, queueVars, radioVars, histVars, goto
<1>1. /\ pc' = [pc EXCEPT ![t] = "gone"] /\ flag' = [flag EXCEPT ![t[1]] = FALSE]
      /\ pc[t] = "loop"
      /\ UNCHANGED <<config, host, session, tainted, stopRequest, mLGW>>
  BY DEF exitLoop
<1>2. t[1] \in Kinds
  BY ThreadIs
<1>3. live' = live \ {t} /\ t \in live
  BY <1>1 DEF IInv, ThreadsTyped, live
<1>4. ThreadsTyped'
  BY <1>1, <1>2 DEF IInv, ThreadsTyped, Labels, Rest
<1>5. Grounded'
  BY <1>1, <1>2 DEF IInv, ThreadsTyped, Grounded, Kinds
<1>6. ASSUME ~tainted PROVE FlagsTrue'
  <2>1. FlagsTrue
    BY <1>6 DEF IInv, Truthful
  <2>2. \A s \in live' : s[1] # t[1] /\ s[1] \in Kinds
    BY <1>3, <2>1, ThreadIs DEF FlagsTrue, live
  <2>3. \A k \in Kinds : flag'[k] <=> flag[k] /\ k # t[1]
    BY <1>1, <1>2 DEF IInv, ThreadsTyped
  <2> QED
    BY <1>3, <2>1, <2>2, <2>3 DEF FlagsTrue
<1> QED
  BY <1>1, <1>4, <1>5, <1>6 DEF IInv, Truthful

\* stop() on the upstream thread itself: a fetch has failed before.
LEMMA SelfStop ==
    ASSUME IInv, NEW t \in Threads, selfStop(t) \/ selfStopSet(t) \/ selfStopEnd(t)
    PROVE  IInv'
<1> USE DEF hostVars, queueVars, radioVars, histVars, goto
<1>1. pc[t] \in {"fail", "stopEnter", "stopWait"}
  BY DEF selfStop, selfStopSet, selfStopEnd
<1>2. tainted = TRUE /\ tainted' = tainted
  BY <1>1 DEF selfStop, selfStopSet, selfStopEnd, IInv, Grounded, ThreadsTyped
<1>3. ThreadsTyped'
  BY DEF selfStop, selfStopSet, selfStopEnd, forceClose, silence, IInv, ThreadsTyped, Labels,
         Rest
<1>4. Grounded'
  <2>1. CASE selfStop(t)
    BY <1>1, <1>2, <2>1 DEF selfStop, IInv, ThreadsTyped, Grounded
  <2>2. CASE selfStopSet(t)
    BY <1>1, <1>2, <2>2 DEF selfStopSet, IInv, ThreadsTyped, Grounded
  <2>3. CASE selfStopEnd(t)
    BY <1>1, <1>2, <2>3 DEF selfStopEnd, forceClose, silence, IInv, ThreadsTyped, Grounded
  <2> QED
    BY <2>1, <2>2, <2>3
<1> QED
  BY <1>2, <1>3, <1>4 DEF IInv, Truthful

\* The other steps of the threads.
LEMMA ThreadStep ==
    ASSUME IInv, NEW t \in Threads, threadStep(t)
    PROVE  IInv'
<1> USE DEF hostVars, queueVars, radioVars, histVars, goto, IInv, ThreadsTyped,
            Labels, Rest, live
<1>0. mLGW # t \/ pc[t] \in {"receive", "scanning"}
  BY DEF Grounded
<1>1. CASE exitLoop(t)
  BY <1>1, ExitLoop
<1>2. CASE fetch(t)
  BY <1>0, <1>2, Moves, ListenerAssumption DEF fetch, lgwFree
<1>3. CASE fetchNothing(t)
  BY <1>0, <1>3, Moves, ListenerAssumption DEF fetchNothing
<1>4. CASE fetchFails(t)
  BY <1>0, <1>4, Moves, ListenerAssumption DEF fetchFails
<1>5. CASE fetchFrames(t)
  BY <1>0, <1>5, Moves, ListenerAssumption DEF fetchFrames
<1>6. CASE selfStop(t)
  BY <1>6, SelfStop
<1>7. CASE selfStopSet(t)
  BY <1>7, SelfStop
<1>8. CASE selfStopEnd(t)
  BY <1>8, SelfStop
<1>9. CASE scan(t)
  <2>1. UNCHANGED <<config, host, session, flag, stopRequest, tainted>>
    BY <1>9 DEF scan
  <2>2. CASE pc[t] = "loop"
    BY <1>0, <1>9, <2>1, <2>2, Moves DEF scan
  <2>3. CASE pc[t] = "lock"
    BY <1>0, <1>9, <2>1, <2>3, Moves, ListenerAssumption DEF scan, lgwFree
  <2>4. CASE pc[t] = "scanning"
    BY <1>0, <1>9, <2>1, <2>4, Moves, ListenerAssumption DEF scan
  <2> QED
    BY <1>9, <2>2, <2>3, <2>4 DEF scan
<1>10. CASE jitSleep(t)
  BY <1>0, <1>10, Moves, ListenerAssumption DEF jitSleep
<1>11. CASE jitTime(t)
  <2>1. /\ pc' = [pc EXCEPT ![t] = "peek"] /\ pc[t] = "time"
        /\ UNCHANGED <<config, host, session, flag, stopRequest, mLGW, tainted>>
    BY <1>11 DEF jitTime
  <2> QED
    BY <1>0, <2>1, Moves
<1>12. CASE jitPeek(t)
  <2>1. PICK l \in {"loop", "dequeue"} :
            /\ pc' = [pc EXCEPT ![t] = l]
            /\ pc[t] = "peek"
            /\ UNCHANGED <<config, host, session, flag, stopRequest, mLGW, tainted>>
    BY <1>12 DEF jitPeek
  <2> QED
    BY <1>0, <2>1, Moves
<1>13. CASE jitDequeue(t)
  <2>1. PICK l \in {"loop", "transmit"} :
            /\ pc' = [pc EXCEPT ![t] = l]
            /\ pc[t] = "dequeue"
            /\ UNCHANGED <<config, host, session, flag, stopRequest, mLGW, tainted>>
    BY <1>13 DEF jitDequeue
  <2> QED
    BY <1>0, <2>1, Moves
<1>14. CASE jitTransmit(t)
  <2>1. PICK l \in {"loop", "send"} :
            /\ pc' = [pc EXCEPT ![t] = l]
            /\ pc[t] \in {"transmit", "send"}
            /\ UNCHANGED <<config, host, session, flag, stopRequest, mLGW, tainted>>
    BY <1>14 DEF jitTransmit, jitStatus, jitSend
  <2> QED
    BY <1>0, <2>1, Moves
<1> QED
  BY <1>1, <1>2, <1>3, <1>4, <1>5, <1>6, <1>7, <1>8, <1>9, <1>10, <1>11,
     <1>12, <1>13, <1>14 DEF threadStep

----------------------------------------------------------------------------
(* The host and the clock                                                   *)

\* A step of the host that leaves the threads and their flags alone.
LEMMA HostMoves ==
    ASSUME IInv, host' \in {"closed", "starting", "open", "broken", "enqueue",
                            "stopEnter", "stopWait"},
           UNCHANGED <<config, session, flag, pc, mLGW, tainted>>,
           host # "starting" => host' # "starting",
           (stopRequest' = stopRequest /\ host' # "stopWait") \/ stopRequest' = TRUE
    PROVE  IInv'
<1>1. ThreadsTyped'
  BY DEF IInv, ThreadsTyped
<1>2. Grounded'
  BY DEF IInv, ThreadsTyped, Grounded
<1>3. Truthful'
  BY DEF IInv, Truthful, FlagsTrue, live
<1> QED
  BY <1>1, <1>2, <1>3 DEF IInv

\* start() numbers its threads anew.
LEMMA Start == IInv /\ start => IInv'
<1> SUFFICES ASSUME IInv, start PROVE IInv'
  OBVIOUS
<1> USE ListenerAssumption DEF start, radioVars, queueVars, histVars
<1>1. config.starts \in 1..MaxStarts /\ session \in Nat
  BY DEF IInv, ThreadsTyped, Settings
<1>2. ThreadsTyped'
  <2>1. session' \in 0..MaxStarts
    BY <1>1
  <2>2. /\ UNCHANGED <<config, flag, pc, mLGW, tainted>>
        /\ host' = "starting" /\ stopRequest' = FALSE
    OBVIOUS
  <2> QED
    BY <2>1, <2>2 DEF IInv, ThreadsTyped
<1>3. Grounded'
  BY <1>1, ThreadIs DEF IInv, ThreadsTyped, Grounded
<1>4. Truthful'
  BY DEF IInv, Truthful, FlagsTrue, live
<1> QED
  BY <1>2, <1>3, <1>4 DEF IInv

\* The threads that start() creates, and the flags it leaves.
LEMMA StartThreads == IInv /\ startThreads => IInv'
<1> SUFFICES ASSUME IInv, startThreads PROVE IInv'
  OBVIOUS
<1> USE DEF radioVars, queueVars, histVars
<1> DEFINE wanted == {"upstream"} \cup (IF config.noSend THEN {} ELSE {"jit"})
                                 \cup (IF config.scan THEN {"scan"} ELSE {})
           new == {t \in Threads : t[1] \in wanted /\ t[2] = session /\ ~flag[t[1]]}
<1>1. /\ host = "starting" /\ host' = "open"
      /\ pc' = [t \in Threads |-> IF t \in new THEN "loop" ELSE pc[t]]
      /\ flag' = [k \in Kinds \cup {"beacon"} |->
                        CASE k = "beacon" -> ~config.noBeacon
                          [] k = "scan" -> config.scan \/ flag[k]
                          [] OTHER -> k \in wanted]
      /\ UNCHANGED <<config, session, stopRequest, mLGW, tainted>>
  BY DEF startThreads, IInv, ThreadsTyped
<1>2. \A t \in new : pc[t] = "none" /\ t[1] \in wanted
  BY <1>1 DEF IInv, Grounded
<1>3. /\ \A k \in Kinds \cup {"beacon"} : flag'[k] \in BOOLEAN
      /\ config.noSend \in BOOLEAN /\ config.noBeacon \in BOOLEAN
      /\ config.scan \in BOOLEAN
      /\ flag'["beacon"] <=> ~config.noBeacon
      /\ flag'["upstream"]
      /\ flag'["jit"] <=> ~config.noSend
      /\ flag'["scan"] <=> config.scan \/ flag["scan"]
  <2>1. /\ config.noSend \in BOOLEAN /\ config.noBeacon \in BOOLEAN
        /\ config.scan \in BOOLEAN /\ flag["scan"] \in BOOLEAN
    BY DEF IInv, ThreadsTyped, Settings, Kinds
  <2>2. flag'["beacon"] = ~config.noBeacon
    BY <1>1
  <2>3. flag'["upstream"] = ("upstream" \in wanted) /\ flag'["jit"] = ("jit" \in wanted)
    <3> HIDE DEF wanted
    <3> QED
      BY <1>1 DEF Kinds
  <2>4. flag'["scan"] = (config.scan \/ flag["scan"])
    BY <1>1 DEF Kinds
  <2>5. ("upstream" \in wanted) = TRUE /\ ("jit" \in wanted) = ~config.noSend
    BY <2>1
  <2>6. \A k \in Kinds \cup {"beacon"} : flag'[k] \in BOOLEAN
    BY <2>1, <2>2, <2>3, <2>4, <2>5 DEF Kinds
  <2> QED
    BY <2>1, <2>2, <2>3, <2>4, <2>5, <2>6
<1>4. ThreadsTyped'
  BY <1>1, <1>3 DEF IInv, ThreadsTyped, Labels
<1>5. Grounded'
  <2>1. \A t \in new : t[1] = "jit" => ~config.noSend
    OBVIOUS
  <2>2. \A t \in new : mLGW # t
    BY <1>2 DEF IInv, Grounded
  <2> HIDE DEF wanted
  <2>3. \A t \in new : t[2] <= session
    BY DEF IInv, ThreadsTyped
  <2> HIDE DEF new
  <2>4. session \in Nat
    BY DEF IInv, ThreadsTyped
  <2> QED
    BY <1>1, <1>3, <2>1, <2>2, <2>3, <2>4 DEF IInv, Grounded
<1>6. live' = live \cup new
  BY <1>1 DEF live
<1>7. ASSUME ~tainted PROVE FlagsTrue'
  <2>1. FlagsTrue
    BY <1>7 DEF IInv, Truthful
  <2>2. \A t \in live : flag'[t[1]]
    <3> SUFFICES ASSUME NEW t \in live PROVE flag'[t[1]]
      OBVIOUS
    <3>1. t[1] \in Kinds /\ flag[t[1]] /\ (t[1] = "jit" => ~config.noSend)
      BY <2>1, ThreadIs DEF FlagsTrue, live, IInv, Grounded
    <3> QED
      BY <1>3, <3>1 DEF Kinds
  <2>3. \A t \in new : flag'[t[1]]
    BY <1>3 DEF Kinds
  <2>4. \A t \in new : ~flag[t[1]] /\ t[2] = session
    OBVIOUS
  <2>5. ASSUME NEW s \in live', NEW t \in live', s[1] = t[1] PROVE s = t
    <3>1. s \in Threads /\ t \in Threads
      BY <1>6 DEF live
    <3>2. CASE s \in live /\ t \in live
      BY <2>1, <2>5, <3>2 DEF FlagsTrue
    <3>3. CASE s \in new /\ t \in new
      <4>1. s = <<s[1], s[2]>> /\ t = <<t[1], t[2]>>
        BY <3>1, ThreadIs
      <4>2. s[2] = t[2]
        BY <2>4, <3>3
      <4> QED
        BY <2>5, <4>1, <4>2
    <3>4. CASE (s \in live /\ t \in new) \/ (s \in new /\ t \in live)
      BY <2>1, <2>4, <2>5, <3>4 DEF FlagsTrue
    <3>5. \/ s \in live /\ t \in live
          \/ s \in new /\ t \in new
          \/ s \in live /\ t \in new
          \/ s \in new /\ t \in live
      <4> HIDE DEF new
      <4> QED
        BY <1>6
    <3> QED
      BY <3>2, <3>3, <3>4, <3>5
  <2>6. ASSUME NEW k \in Kinds, flag'[k] PROVE \E t \in live' : t[1] = k
    <3>1. CASE flag[k]
      BY <1>6, <2>1, <3>1 DEF FlagsTrue
    <3>2. CASE ~flag[k]
      <4>1. k \in wanted
        BY <1>3, <2>6, <3>2 DEF Kinds
      <4>2. session \in 1..MaxStarts
        BY <1>1 DEF IInv, ThreadsTyped, Grounded
      <4>3. <<k, session>> \in new
        BY <3>2, <4>1, <4>2 DEF Threads
      <4> QED
        BY <1>6, <4>3
    <3> QED
      BY <3>1, <3>2
  <2> QED
    BY <1>6, <2>2, <2>3, <2>5, <2>6 DEF FlagsTrue
<1> QED
  BY <1>1, <1>4, <1>5, <1>7 DEF IInv, Truthful

\* The end of the host's stop().
LEMMA StopEnd == IInv /\ stopEnd => IInv'
<1> SUFFICES ASSUME IInv, stopEnd PROVE IInv'
  OBVIOUS
<1> USE DEF queueVars
<1>1. PICK success, closed \in BOOLEAN :
        /\ stopPolled(success)
        /\ forceClose(closed)
        /\ tainted' = (tainted \/ (~success /\ live # {}))
  BY DEF stopEnd
<1>2. /\ flag' = [k \in DOMAIN flag |-> FALSE] /\ host' = "closed"
      /\ UNCHANGED <<config, session, stopRequest, pc, mLGW>>
  BY <1>1 DEF stopEnd, forceClose
<1>3. ThreadsTyped'
  BY <1>1, <1>2 DEF IInv, ThreadsTyped
<1>4. Grounded'
  BY <1>1, <1>2 DEF IInv, ThreadsTyped, Grounded
<1>5. ASSUME ~tainted' PROVE FlagsTrue'
  <2>1. ~tainted /\ FlagsTrue
    BY <1>1, <1>5 DEF IInv, ThreadsTyped, Truthful
  <2>2. live = {}
    <3>1. CASE success
      <4>1. \A k \in Kinds : ~flag[k]
        BY <1>1, <3>1 DEF stopPolled, isStopped, IInv, ThreadsTyped
      <4> QED
        BY <2>1, <4>1, ThreadIs DEF FlagsTrue, live
    <3>2. CASE ~success
      BY <1>1, <1>5, <3>2 DEF IInv, ThreadsTyped
    <3> QED
      BY <3>1, <3>2
  <2>3. live' = {}
    BY <1>2, <2>2 DEF live
  <2>4. \A k \in Kinds : ~flag'[k]
    BY <1>2 DEF IInv, ThreadsTyped
  <2> QED
    BY <2>3, <2>4 DEF FlagsTrue
<1> QED
  BY <1>3, <1>4, <1>5 DEF IInv, Truthful

\* Threads wake up.
LEMMA Tick == IInv /\ tick => IInv'
<1> SUFFICES ASSUME IInv, tick PROVE IInv'
  OBVIOUS
<1> USE DEF hostVars, queueVars, histVars
<1>1. /\ UNCHANGED <<config, host, session, stopRequest, flag, mLGW, tainted>>
      /\ pc' = [t \in Threads |->
                    IF pc[t] # "sleep" THEN pc[t]
                    ELSE CASE t[1] = "upstream" -> "loop"
                           [] t[1] = "jit" -> "time"
                           [] t[1] = "scan" -> "lock"]
  BY DEF tick
<1>2. \A t \in Threads :
        \/ pc'[t] = pc[t]
        \/ pc[t] = "sleep" /\ pc'[t] \in {"loop", "time", "lock"}
  BY <1>1, ThreadIs DEF Kinds
<1>3. ThreadsTyped'
  <2>1. \A t \in Threads : pc'[t] \in Labels
    BY <1>2 DEF IInv, ThreadsTyped, Labels
  <2>2. pc' \in [Threads -> Labels]
    BY <1>1, <2>1
  <2> QED
    BY <1>1, <2>2 DEF IInv, ThreadsTyped
<1>4. Grounded'
  BY <1>1, <1>2 DEF IInv, ThreadsTyped, Grounded
<1>5. live' = live
  BY <1>2 DEF live
<1>6. Truthful'
  BY <1>1, <1>5 DEF IInv, Truthful, FlagsTrue
<1> QED
  BY <1>3, <1>4, <1>6 DEF IInv

----------------------------------------------------------------------------

\* No thread is there at first.
LEMMA InitIInv == Init => IInv
<1> SUFFICES ASSUME Init PROVE IInv
  OBVIOUS
<1>1. live = {}
  BY DEF Init, live
<1>2. ThreadsTyped
  <2>1. config \in Settings /\ session \in 0..MaxStarts
    BY ListenerAssumption DEF Init
  <2>2. pc \in [Threads -> Labels] /\ flag \in [Kinds \cup {"beacon"} -> BOOLEAN]
    BY DEF Init, Labels, Rest
  <2> QED
    BY <2>1, <2>2 DEF Init, ThreadsTyped
<1>3. Grounded
  BY ListenerAssumption DEF Init, Grounded
<1>4. FlagsTrue
  BY <1>1 DEF Init, FlagsTrue, Kinds
<1> QED
  BY <1>2, <1>3, <1>4 DEF IInv, Truthful

\* Every step keeps the invariant.
LEMMA NextIInv == IInv /\ [Next]_vars => IInv'
<1> SUFFICES ASSUME IInv, [Next]_vars PROVE IInv'
  OBVIOUS
<1> USE DEF hostVars, queueVars, threadVars, radioVars, histVars
<1>1. CASE UNCHANGED vars
  BY <1>1 DEF vars, IInv, ThreadsTyped, Grounded, Truthful, FlagsTrue, live
<1>2. ASSUME startFails \/ stop \/ stopSet \/ enqueue PROVE IInv'
  BY <1>2, HostMoves DEF startFails, stop, stopSet, enqueue
<1>3. ASSUME NEW p \in Packets, refuse(p) \/ enqueueTxPacket(p) PROVE IInv'
  <2>1. /\ UNCHANGED <<config, session, flag, pc, mLGW, tainted, stopRequest>>
        /\ host' \in {"open", "enqueue"}
    BY <1>3 DEF refuse, enqueueTxPacket
  <2> QED
    BY <2>1, HostMoves
<1> QED
  BY <1>1, <1>2, <1>3, Start, StartThreads, StopEnd, ThreadStep, Tick
     DEF Next, hostStep

----------------------------------------------------------------------------

\* One thread of a kind fetches, sends or scans, for any starts, stops and speeds,
\* as long as no stop() gave up on one and no fetch failed (start(), stop(),
\* upstreamRunner, jitRunner).
THEOREM OneThreadAlways == Spec => []OneThreadPerKind
<1>1. IInv => OneThreadPerKind
  BY DEF IInv, Truthful, FlagsTrue, OneThreadPerKind
<1> QED
  BY InitIInv, NextIInv, <1>1, PTL DEF Spec

\* The step in which the host's stop() ends.
LEMMA StopTruthfulStep ==
    ASSUME IInv, [Next]_vars, host = "stopWait", host' # host
    PROVE  /\ outcome' \in {"ok", "unstopped"} /\ ~tainted => live = {} /\ lgwFree
           /\ outcome' = "timeout" =>
                   config.slow \/ ~config.noBeacon \/ tainted
<1>1. stopEnd
  <2>1. ASSUME NEW t \in Threads, threadStep(t) PROVE host' = host
    BY <2>1
       DEF threadStep, exitLoop, fetch, fetchNothing, fetchFails, fetchFrames,
           selfStop, selfStopSet, selfStopEnd, scan, jitSleep, jitTime, jitPeek,
           jitDequeue, jitTransmit, jitStatus, jitSend, hostVars
  <2>2. ~(\E p \in Packets : refuse(p) \/ enqueueTxPacket(p))
    BY DEF refuse, enqueueTxPacket
  <2>3. ~tick /\ ~UNCHANGED vars
    BY DEF tick, vars, hostVars
  <2> QED
    BY <2>1, <2>2, <2>3
       DEF Next, hostStep, start, stop, startFails, startThreads, stopSet, enqueue
<1>2. PICK success, closed \in BOOLEAN :
        /\ stopPolled(success)
        /\ outcome' = IF ~success THEN "timeout"
                      ELSE IF closed THEN "ok" ELSE "unstopped"
  BY <1>1 DEF stopEnd
<1>3. CASE success /\ ~tainted
  <2>1. \A k \in Kinds : ~flag[k]
    BY <1>2, <1>3 DEF stopPolled, isStopped, IInv, ThreadsTyped
  <2>2. live = {}
    BY <1>3, <2>1, ThreadIs DEF IInv, Truthful, FlagsTrue, live
  <2>3. lgwFree
    BY <2>2 DEF IInv, ThreadsTyped, Grounded, live, lgwFree
  <2> QED
    BY <1>2, <1>3, <2>2, <2>3
<1>4. CASE ~success /\ ~tainted /\ ~config.slow /\ config.noBeacon
  <2>1. PICK k \in Kinds \cup {"beacon"} : flag[k]
    BY <1>2, <1>4 DEF stopPolled, isStopped, IInv, ThreadsTyped
  <2>2. k \in Kinds
    BY <1>4, <2>1 DEF IInv, Grounded
  <2>3. PICK t \in live : t[1] = k
    BY <1>4, <2>1, <2>2 DEF IInv, Truthful, FlagsTrue
  <2>4. pc[t] = "stopWait"
    BY <1>2, <1>4, <2>3 DEF stopPolled, IInv, Grounded
  <2> QED
    BY <1>4, <2>3, <2>4 DEF IInv, Grounded, live
<1> QED
  BY <1>2, <1>3, <1>4

\* What stop() answers is true, for any settings and speeds (stop(), isStopped()).
THEOREM StopAlwaysTruthful == Spec => StopIsTruthful
<1>1. IInv /\ [Next]_vars =>
        [host = "stopWait" /\ host' # host =>
            /\ outcome' \in {"ok", "unstopped"} /\ ~tainted => live = {} /\ lgwFree
            /\ outcome' = "timeout" =>
                    config.slow \/ ~config.noBeacon \/ tainted]_vars
  BY StopTruthfulStep
<1> QED
  BY InitIInv, NextIInv, <1>1, PTL DEF Spec, StopIsTruthful

----------------------------------------------------------------------------
(* The just-in-time queue: what its operators return.                       *)

\* A queue of the code's size.
QueueTyped(Q) == Q \in SUBSET Nodes /\ IsFiniteSet(Q) /\ Cardinality(Q) <= QueueMax

\* uint32_t arithmetic stays in the range of the counter.
LEMMA CountTyped ==
    ASSUME NEW a \in Int, NEW b \in Int
    PROVE  Sub(a, b) \in Count /\ Add(a, b) \in Count
<1>1. Modulus \in Nat \ {0}
  BY JitAssumption
<1>2. \A x \in Int : x % Modulus \in 0..(Modulus - 1)
  BY <1>1
<1>3. a - b \in Int /\ a + b \in Int
  OBVIOUS
<1> QED
  BY <1>2, <1>3 DEF Sub, Add, Count

\* A nonempty set of natural numbers has a least one.
LEMMA LeastNat ==
    ASSUME NEW S \in SUBSET Nat, S # {}
    PROVE  \E m \in S : \A n \in S : m <= n
<1> DEFINE R == OpToRel(<, Nat)
<1>1. \A m, n \in Nat : n < m => <<n, m>> \in R
  BY DEF OpToRel
<1>2. IsWellFoundedOn(R, Nat)
  BY NatLessThanWellFounded
<1> HIDE DEF R
<1>3. PICK m \in S : \A n \in S : ~(<<n, m>> \in R)
  BY <1>2, WFMin
<1>4. \A n \in S : ~(n < m)
  BY <1>1, <1>3
<1> QED
  BY <1>3, <1>4

\* Some node is the first, and some node is the last.
LEMMA FirstAndLast ==
    ASSUME NEW Q \in SUBSET Nodes, Q # {}
    PROVE  earliest(Q) # {} /\ \E q \in Q : \A r \in Q : r.at <= q.at
<1>1. Modulus \in Nat \ {0}
  BY JitAssumption
<1>2. \A q \in Q : q.at \in Nat /\ Modulus - q.at \in Nat
  BY <1>1 DEF Nodes, Count
<1>3. PICK q \in Q : \A r \in Q : q.at <= r.at
  <2> DEFINE S == {q.at : q \in Q}
  <2>1. S \in SUBSET Nat /\ S # {}
    BY <1>2
  <2>2. PICK m \in S : \A n \in S : m <= n
    <3> HIDE DEF S
    <3> QED
      BY <2>1, LeastNat
  <2> QED
    BY <2>2
<1>4. PICK q1 \in Q : \A r \in Q : Modulus - q1.at <= Modulus - r.at
  <2> DEFINE S == {Modulus - q2.at : q2 \in Q}
  <2>1. S \in SUBSET Nat /\ S # {}
    BY <1>2
  <2>2. PICK m \in S : \A n \in S : m <= n
    <3> HIDE DEF S
    <3> QED
      BY <2>1, LeastNat
  <2> QED
    BY <2>2
<1>5. \A r \in Q : r.at <= q1.at
  BY <1>1, <1>2, <1>4
<1> QED
  BY <1>3, <1>5 DEF earliest

\* An immediate downlink always finds an instant: behind the last one there is
\* room.
LEMMA AsapTyped ==
    ASSUME NEW Q \in SUBSET Nodes, NEW time \in Count, NEW pkt, NEW post \in Nat
    PROVE  asapCount(Q, time, pkt, post) \in Count
<1> DEFINE node(t) == [pkt |-> pkt, at |-> t, post |-> post]
           asap == Add(time, 2 * JitDelay)
           after(q) == Add(q.at, q.post + PreDelay + JitDelay + MarginDelay)
           next(q) == earliest({r \in Q : r.at > q.at})
           roomAfter == {q \in Q : \A r \in next(q) :
                                       ~jit_collision_test(node(after(q)), r)}
<1>1. /\ StartDelay \in Nat /\ MarginDelay \in Nat /\ JitDelay \in Nat
      /\ PreDelay \in Nat
  BY JitAssumption DEF PreDelay
<1>2. time \in Int /\ 2 * JitDelay \in Int
  BY <1>1, JitAssumption DEF Count
<1>3. asap \in Count
  BY <1>2, CountTyped
<1>4. ASSUME NEW q \in Q PROVE after(q) \in Count
  <2>1. q.at \in Int /\ q.post \in Nat
    BY JitAssumption DEF Nodes, Count
  <2>2. q.post + PreDelay + JitDelay + MarginDelay \in Int
    BY <1>1, <2>1
  <2> QED
    BY <2>1, <2>2, CountTyped
<1>5. ASSUME Q # {} PROVE (CHOOSE q \in earliest(roomAfter) : TRUE) \in Q
  <2>1. PICK q \in Q : \A r \in Q : r.at <= q.at
    BY <1>5, FirstAndLast
  <2>2. \A r \in Q : r.at \in Int
    BY JitAssumption DEF Nodes, Count
  <2>3. {r \in Q : r.at > q.at} = {}
    BY <2>1, <2>2
  <2>4. next(q) = {}
    BY <2>3 DEF earliest
  <2>5. q \in roomAfter
    BY <2>4
  <2>6. roomAfter \in SUBSET Nodes /\ roomAfter \subseteq Q /\ roomAfter # {}
    BY <2>5
  <2> HIDE DEF roomAfter
  <2>7. earliest(roomAfter) # {}
    BY <2>6, FirstAndLast
  <2>8. (CHOOSE x \in earliest(roomAfter) : TRUE) \in earliest(roomAfter)
    BY <2>7
  <2> QED
    BY <2>6, <2>8 DEF earliest
<1>6. asapCount(Q, time, pkt, post) =
        IF \A q \in Q : ~jit_collision_test(node(asap), q) THEN asap
        ELSE after(CHOOSE q \in earliest(roomAfter) : TRUE)
  BY DEF asapCount
<1>7. CASE \A q \in Q : ~jit_collision_test(node(asap), q)
  BY <1>3, <1>6, <1>7
<1>8. CASE ~(\A q \in Q : ~jit_collision_test(node(asap), q))
  <2>1. Q # {}
    BY <1>8
  <2> DEFINE q == CHOOSE x \in earliest(roomAfter) : TRUE
  <2>2. q \in Q
    BY <1>5, <2>1
  <2> HIDE DEF q
  <2>3. after(q) \in Count
    BY <1>4, <2>2
  <2> QED
    BY <1>6, <1>8, <2>3 DEF q
<1> QED
  BY <1>7, <1>8

\* jit_enqueue() adds one node to a queue that is not full, or none.
LEMMA EnqueueTyped ==
    ASSUME NEW Q, QueueTyped(Q), Cardinality(Q) # QueueMax,
           NEW time \in Count, NEW pkt \in Packets, NEW class, NEW at \in Count,
           NEW post \in Nat \ {0}
    PROVE  QueueTyped(jit_enqueue(Q, time, pkt, class, at, post))
<1> DEFINE n == [pkt |-> pkt, post |-> post,
                 at |-> IF class = "C" THEN asapCount(Q, time, pkt, post) ELSE at]
           R == jit_enqueue(Q, time, pkt, class, at, post)
<1>1. R = Q \/ R = Q \cup {n}
  BY DEF jit_enqueue
<1>2. n \in Nodes
  BY AsapTyped DEF Nodes, QueueTyped
<1> HIDE DEF n, R
<1>3. Cardinality(Q) + 1 <= QueueMax
  BY FS_CardinalityType, JitAssumption DEF QueueTyped
<1>4. /\ IsFiniteSet(Q \cup {n})
      /\ Cardinality(Q \cup {n}) \in {Cardinality(Q), Cardinality(Q) + 1}
  BY FS_AddElement DEF QueueTyped
<1>5. QueueTyped(Q \cup {n})
  BY <1>2, <1>3, <1>4 DEF QueueTyped
<1> QED
  BY <1>1, <1>5 DEF R

\* What is left of a queue is a queue.
LEMMA PartTyped ==
    ASSUME NEW Q, QueueTyped(Q), NEW R \in SUBSET Q
    PROVE  QueueTyped(R)
<1>1. IsFiniteSet(R) /\ Cardinality(R) <= Cardinality(Q)
  BY FS_Subset DEF QueueTyped
<1>2. Cardinality(R) \in Nat /\ Cardinality(Q) \in Nat /\ QueueMax \in Nat
  BY <1>1, FS_CardinalityType, JitAssumption DEF QueueTyped
<1> QED
  BY <1>1, <1>2 DEF QueueTyped

\* The index of a node.
LEMMA IndexTyped ==
    ASSUME NEW Q, QueueTyped(Q), NEW q
    PROVE  indexOf(Q, q) \in 0..QueueMax
<1>1. QueueTyped({r \in Q : r.at < q.at})
  BY PartTyped
<1> QED
  BY <1>1, FS_CardinalityType, JitAssumption DEF indexOf, QueueTyped

\* jit_peek() only drops nodes, and the index it returns is that of a node.
LEMMA PeekTyped ==
    ASSUME NEW Q, QueueTyped(Q), NEW time
    PROVE  LET p == jit_peek(Q, time)
           IN  /\ p.queue \in SUBSET Q /\ p.passed \in SUBSET Q
               /\ p.index \in -1..QueueMax
               /\ p.index # -1 => nodeAt(p.queue, p.index) # {}
<1> DEFINE gone == {q \in earliest(Q) : outdated(time, q)}
           skipped == IF gone = {} THEN {} ELSE earliest(Q \ gone)
           kept == skipped \cup {q \in Q : ~outdated(time, q)}
           due == {q \in kept \ skipped :
                       /\ Sub(q.at, time) < JitDelay
                       /\ \A r \in kept \ skipped :
                               Sub(q.at, time) <= Sub(r.at, time)}
           index == IF due = {} THEN -1 ELSE indexOf(kept, CHOOSE q \in due : TRUE)
           p == jit_peek(Q, time)
<1>1. p = [queue |-> kept,
           passed |-> {q \in skipped : Sub(q.at, time) < JitDelay},
           index |-> index]
  BY DEF jit_peek
<1>2. skipped \in SUBSET Q /\ kept \in SUBSET Q
  BY DEF earliest
<1>3. due \in SUBSET kept
  OBVIOUS
<1> HIDE DEF due, kept, skipped
<1>4. due # {} => (CHOOSE q \in due : TRUE) \in kept
  BY <1>3
<1>5. index \in -1..QueueMax
  <2>1. QueueTyped(kept)
    BY <1>2, PartTyped
  <2>2. indexOf(kept, CHOOSE q \in due : TRUE) \in 0..QueueMax
    BY <2>1, IndexTyped
  <2> QED
    BY <2>2, JitAssumption
<1>6. index # -1 => nodeAt(kept, index) # {}
  BY <1>4 DEF nodeAt
<1> HIDE DEF index, p
<1>7. p.queue = kept /\ p.index = index /\ p.passed \in SUBSET skipped
  BY <1>1
<1> QED
  BY <1>2, <1>5, <1>6, <1>7 DEF p

\* jit_dequeue() only takes nodes out.
LEMMA DequeueTyped ==
    ASSUME NEW Q, NEW i
    PROVE  LET d == jit_dequeue(Q, i)
           IN  d.taken \in SUBSET Q /\ d.queue \in SUBSET Q
BY DEF jit_dequeue, nodeAt

\* Colliding is mutual.
LEMMA CollisionIsMutual ==
    ASSUME NEW p, NEW q
    PROVE  jit_collision_test(p, q) <=> jit_collision_test(q, p)
BY DEF jit_collision_test

\* No two nodes of a queue collide.
Spaced(Q) == \A p, q \in Q : p # q => ~jit_collision_test(p, q)

\* jit_enqueue() keeps the nodes apart.
LEMMA EnqueueSpaced ==
    ASSUME NEW Q, Spaced(Q), NEW time, NEW pkt, NEW class, NEW at, NEW post
    PROVE  Spaced(jit_enqueue(Q, time, pkt, class, at, post))
<1> DEFINE n == [pkt |-> pkt, post |-> post,
                 at |-> IF class = "C" THEN asapCount(Q, time, pkt, post) ELSE at]
           R == jit_enqueue(Q, time, pkt, class, at, post)
<1>1. \/ R = Q
      \/ R = Q \cup {n} /\ \A q \in Q : ~jit_collision_test(n, q)
  BY DEF jit_enqueue
<1> HIDE DEF n, R
<1> QED
  BY <1>1, CollisionIsMutual DEF Spaced, R

\* Nodes that are apart have different instants, so an index names one node.
LEMMA IndexNamesOne ==
    ASSUME NEW Q, QueueTyped(Q), Spaced(Q), NEW p \in Q, NEW q \in Q,
           indexOf(Q, p) = indexOf(Q, q)
    PROVE  p = q
<1>1. /\ p.at \in Nat /\ q.at \in Nat /\ p.post \in Nat /\ q.post \in Nat
      /\ \A r \in Q : r.at \in Nat
  BY JitAssumption DEF QueueTyped, Nodes, Count
<1>2. ASSUME NEW a \in Q, NEW b \in Q, a.at < b.at
      PROVE  indexOf(Q, a) # indexOf(Q, b)
  <2> DEFINE A == {r \in Q : r.at < a.at}
             B == {r \in Q : r.at < b.at}
  <2>1. a.at \in Nat /\ b.at \in Nat
    BY <1>1
  <2>2. A \in SUBSET B /\ a \in B /\ a \notin A
    BY <1>1, <1>2, <2>1
  <2>3. IsFiniteSet(B)
    BY FS_Subset DEF QueueTyped
  <2> HIDE DEF A, B
  <2>4. Cardinality(A) # Cardinality(B)
    BY <2>2, <2>3, FS_Subset
  <2> QED
    BY <2>4 DEF A, B, indexOf
<1>3. p.at = q.at
  BY <1>1, <1>2
<1>4. Sub(p.at, q.at) = 0
  <2>1. Modulus \in Nat \ {0} /\ p.at - q.at = 0
    BY <1>1, <1>3, JitAssumption
  <2> QED
    BY <2>1 DEF Sub
<1>5. PreDelay + q.post + MarginDelay >= 0
  BY <1>1, JitAssumption DEF PreDelay
<1>6. jit_collision_test(p, q)
  BY <1>4, <1>5 DEF jit_collision_test
<1> QED
  BY <1>6 DEF Spaced

----------------------------------------------------------------------------
(* The types of the rest: the queue, what the jit threads have read of it,   *)
(* the radio and what became of the packets.                                *)

Fates == {"none", "refused", "queued", "taken", "scheduled", "aired", "outdated",
          "busy", "failed", "overwritten", "reset"}

Sights == [time : Count, index : -1..QueueMax, node : Nodes \cup {NoNode}]

DataTyped ==
    /\ config \in Configs
    /\ asked \in {NoNode} \cup [node : Nodes, time : Count]
    /\ host = "enqueue" => asked \in [node : Nodes, time : Count]
    /\ outcome \in {"none", "ok", "timeout", "unstopped", "refused"}
    /\ on \in BOOLEAN
    /\ now \in Count
    /\ QueueTyped(jit) /\ Spaced(jit)
    /\ sight \in [Threads -> Sights]
    /\ tx \in Nodes \cup {NoNode}
    /\ fate \in [Packets -> Fates]
    /\ fetches \in 0..MaxFetches
    /\ raced \in BOOLEAN
    /\ passed \in SUBSET Packets /\ misfit \in SUBSET Packets

\* A step of the threads and the host that does not concern downlinks.
LEMMA DataStays ==
    ASSUME DataTyped, UNCHANGED <<config, asked, now, jit, sight, raced, passed, misfit>>,
           outcome' \in {"none", "ok", "timeout", "refused"}, on' \in BOOLEAN,
           tx' \in {tx, NoNode}, fate' \in [Packets -> Fates],
           fetches' \in 0..MaxFetches,
           host' = "enqueue" => host = "enqueue"
    PROVE  DataTyped'
BY DEF DataTyped, QueueTyped, Spaced

\* stop() and start() silence the radio.
LEMMA CloseTyped ==
    ASSUME DataTyped, silence
    PROVE  tx' = NoNode /\ fate' \in [Packets -> Fates]
<1>1. \A p \in Packets : (IF fate[p] = "scheduled" THEN "reset" ELSE fate[p]) \in Fates
  BY DEF DataTyped, Fates
<1> QED
  BY <1>1 DEF silence

\* The host, but for its downlinks.
LEMMA HostData ==
    ASSUME DataTyped,
           start \/ startFails \/ startThreads \/ stop \/ stopSet \/ stopEnd
    PROVE  DataTyped'
<1> USE DEF hostVars, queueVars, threadVars, radioVars, histVars
<1>1. CASE start
  BY <1>1, DataStays DEF start, DataTyped
<1>2. CASE startFails
  BY <1>2, DataStays DEF startFails, DataTyped
<1>3. CASE startThreads
  <2>1. now' \in Count /\ on' = TRUE /\ host' = "open"
    BY <1>3, ListenerAssumption DEF startThreads
  <2>2. /\ silence
        /\ UNCHANGED <<config, asked, outcome, jit, sight, fetches, raced, passed, misfit>>
    BY <1>3 DEF startThreads
  <2> QED
    BY <2>1, <2>2, CloseTyped DEF DataTyped, QueueTyped, Spaced
<1>4. CASE stop
  BY <1>4, DataStays DEF stop, DataTyped
<1>5. CASE stopSet
  BY <1>5, DataStays DEF stopSet, DataTyped
<1>6. CASE stopEnd
  <2>1. /\ silence /\ on' = FALSE /\ host' = "closed"
        /\ outcome' \in {"ok", "timeout", "unstopped"}
        /\ UNCHANGED <<config, asked, now, jit, sight, fetches, raced, passed, misfit>>
    BY <1>6 DEF stopEnd, forceClose
  <2> QED
    BY <2>1, CloseTyped, DataStays DEF DataTyped
<1> QED
  BY <1>1, <1>2, <1>3, <1>4, <1>5, <1>6

\* The upstream and the scanning thread.
LEMMA UpstreamData ==
    ASSUME DataTyped, NEW t \in Threads,
           \/ exitLoop(t) \/ fetch(t) \/ fetchNothing(t) \/ fetchFails(t)
           \/ fetchFrames(t) \/ selfStop(t) \/ selfStopSet(t) \/ selfStopEnd(t)
           \/ scan(t) \/ jitSleep(t)
    PROVE  DataTyped'
<1> USE DEF hostVars, queueVars, radioVars, histVars
<1>1. CASE fetchFrames(t)
  <2>1. fetches' \in 0..MaxFetches
    BY <1>1, ListenerAssumption DEF fetchFrames, DataTyped
  <2> QED
    BY <1>1, <2>1, DataStays DEF fetchFrames, DataTyped
<1>2. CASE selfStopEnd(t)
  <2>1. /\ silence /\ on' = FALSE
        /\ UNCHANGED <<config, host, asked, outcome, now, jit, sight, fetches, raced,
                       passed, misfit>>
    BY <1>2 DEF selfStopEnd, forceClose
  <2> QED
    BY <2>1, CloseTyped, DataStays DEF DataTyped
<1>3. ASSUME \/ exitLoop(t) \/ fetch(t) \/ fetchNothing(t) \/ fetchFails(t)
             \/ selfStop(t) \/ selfStopSet(t) \/ scan(t) \/ jitSleep(t)
      PROVE  DataTyped'
  <2>1. UNCHANGED <<hostVars, queueVars, radioVars, fate, fetches, raced, passed, misfit>>
    BY <1>3 DEF exitLoop, fetch, fetchNothing, fetchFails, selfStop, selfStopSet,
                scan, jitSleep
  <2> QED
    BY <2>1, DataStays DEF DataTyped
<1> QED
  BY <1>1, <1>2, <1>3

\* The jit thread.
LEMMA JitData ==
    ASSUME DataTyped, NEW t \in Threads,
           jitTime(t) \/ jitPeek(t) \/ jitDequeue(t) \/ jitTransmit(t)
    PROVE  DataTyped'
<1> USE DEF hostVars, queueVars, radioVars, histVars
<1>1. CASE jitTime(t)
  <2>1. PICK c \in Count : sight' = [sight EXCEPT ![t] = [NoSight EXCEPT !.time = c]]
    BY <1>1 DEF jitTime
  <2>2. [NoSight EXCEPT !.time = c] \in Sights
    BY JitAssumption DEF NoSight, Sights
  <2>3. sight' \in [Threads -> Sights]
    BY <2>1, <2>2 DEF DataTyped
  <2>4. UNCHANGED <<hostVars, asked, jit, radioVars, fate, fetches, raced, passed, misfit>>
    BY <1>1 DEF jitTime
  <2> QED
    BY <2>3, <2>4 DEF DataTyped, QueueTyped, Spaced
<1>2. CASE jitPeek(t)
  <2> DEFINE p == jit_peek(jit, sight[t].time)
             n == IF p.index = -1 THEN NoNode ELSE
                     CHOOSE x \in nodeAt(p.queue, p.index) : TRUE
  <2>1. /\ p.queue \in SUBSET jit /\ p.passed \in SUBSET jit
        /\ p.index \in -1..QueueMax
        /\ p.index # -1 => nodeAt(p.queue, p.index) # {}
    BY PeekTyped DEF DataTyped
  <2>2. n \in Nodes \cup {NoNode}
    <3>1. CASE p.index = -1
      BY <3>1
    <3>2. CASE p.index # -1
      <4>1. n \in nodeAt(p.queue, p.index)
        BY <2>1, <3>2
      <4> QED
        BY <2>1, <4>1 DEF nodeAt, DataTyped, QueueTyped
    <3> QED
      BY <3>1, <3>2
  <2>3. /\ jit' = p.queue
        /\ fate' = [k \in Packets |->
                        IF \E x \in jit \ p.queue : x.pkt = k THEN "outdated"
                        ELSE fate[k]]
        /\ sight' = [sight EXCEPT ![t].index = p.index, ![t].node = n]
        /\ passed' = passed \cup {x.pkt : x \in p.passed}
        /\ UNCHANGED <<hostVars, asked, radioVars, fetches, raced, misfit>>
    BY <1>2 DEF jitPeek
  <2> HIDE DEF p, n
  <2>4. QueueTyped(jit') /\ Spaced(jit')
    BY <2>1, <2>3, PartTyped DEF DataTyped, Spaced
  <2>5. fate' \in [Packets -> Fates]
    BY <2>3 DEF DataTyped, Fates
  <2>6. sight' \in [Threads -> Sights]
    BY <2>1, <2>2, <2>3 DEF DataTyped, Sights
  <2>7. passed' \in SUBSET Packets
    BY <2>1, <2>3 DEF DataTyped, QueueTyped, Nodes
  <2> QED
    BY <2>3, <2>4, <2>5, <2>6, <2>7 DEF DataTyped, QueueTyped, Spaced
<1>3. CASE jitDequeue(t)
  <2> DEFINE d == jit_dequeue(jit, sight[t].index)
             n == IF d.taken = {} THEN NoNode ELSE CHOOSE x \in d.taken : TRUE
  <2>1. d.taken \in SUBSET jit /\ d.queue \in SUBSET jit
    BY DequeueTyped
  <2>2. n \in Nodes \cup {NoNode}
    BY <2>1 DEF DataTyped, QueueTyped
  <2>3. /\ jit' = d.queue
        /\ fate' = [k \in Packets |->
                        IF \E x \in d.taken : x.pkt = k THEN "taken"
                        ELSE IF \E x \in jit \ d.queue : x.pkt = k THEN "outdated"
                        ELSE fate[k]]
        /\ raced' = (raced \/ d.taken # {sight[t].node})
        /\ sight' = [sight EXCEPT ![t].node = n]
        /\ UNCHANGED <<hostVars, asked, radioVars, fetches, passed, misfit>>
    BY <1>3 DEF jitDequeue
  <2> HIDE DEF d, n
  <2>4. QueueTyped(jit') /\ Spaced(jit')
    BY <2>1, <2>3, PartTyped DEF DataTyped, Spaced
  <2>5. fate' \in [Packets -> Fates]
    BY <2>3 DEF DataTyped, Fates
  <2>6. sight' \in [Threads -> Sights]
    BY <2>2, <2>3 DEF DataTyped, Sights
  <2>7. raced' \in BOOLEAN
    BY <2>3
  <2> QED
    BY <2>3, <2>4, <2>5, <2>6, <2>7 DEF DataTyped, QueueTyped, Spaced
<1>4. CASE jitTransmit(t)
  <2>1. sight[t].node \in Nodes \cup {NoNode}
    BY DEF DataTyped, Sights
  <2>2. tx' \in Nodes \cup {NoNode}
    BY <1>4, <2>1 DEF jitTransmit, jitStatus, jitSend, DataTyped
  <2>3. fate' \in [Packets -> Fates]
    <3>1. CASE fate' = [k \in Packets |->
                          CASE k = sight[t].node.pkt -> "scheduled"
                            [] tx # NoNode /\ k = tx.pkt -> "overwritten"
                            [] OTHER -> fate[k]]
      BY <3>1 DEF DataTyped, Fates
    <3>2. CASE \E f \in {"busy", "failed"} : becomes(sight[t].node.pkt, f)
      BY <3>2 DEF becomes, DataTyped, Fates
    <3>3. CASE UNCHANGED fate
      BY <3>3 DEF DataTyped
    <3> QED
      BY <1>4, <3>1, <3>2, <3>3 DEF jitTransmit, jitStatus, jitSend
  <2>4. UNCHANGED <<hostVars, queueVars, on, now, fetches, raced, passed, misfit>>
    BY <1>4 DEF jitTransmit, jitStatus, jitSend
  <2> QED
    BY <2>2, <2>3, <2>4 DEF DataTyped, QueueTyped, Spaced
<1> QED
  BY <1>1, <1>2, <1>3, <1>4

\* A downlink of the host.
LEMMA DownlinkData ==
    ASSUME DataTyped,
           enqueue \/ \E p \in Packets : refuse(p) \/ enqueueTxPacket(p)
    PROVE  DataTyped'
<1> USE DEF hostVars, queueVars, threadVars, radioVars, histVars
<1>1. CASE enqueue
  <2> DEFINE n == asked.node
             Q == IF Cardinality(jit) = QueueMax THEN jit
                  ELSE jit_enqueue(jit, asked.time, n.pkt, n.pkt.class, n.at, n.post)
  <2>1. asked \in [node : Nodes, time : Count]
    BY <1>1 DEF enqueue, DataTyped
  <2>2. n.pkt \in Packets /\ n.at \in Count /\ n.post \in Nat \ {0} /\ asked.time \in Count
    BY <2>1 DEF Nodes
  <2>3. /\ jit' = Q
        /\ fate' = [fate EXCEPT ![n.pkt] = IF Q = jit THEN "refused" ELSE "queued"]
        /\ asked' = NoNode /\ host' = "open"
        /\ misfit' = misfit \cup UNION {misfits(q, asked.time) : q \in Q \ jit}
        /\ UNCHANGED <<config, outcome, sight, radioVars, fetches, raced, passed>>
    BY <1>1 DEF enqueue, becomes
  <2>4. QueueTyped(Q) /\ Spaced(Q)
    <3>1. CASE Cardinality(jit) = QueueMax
      BY <3>1 DEF DataTyped
    <3>2. CASE Cardinality(jit) # QueueMax
      BY <2>2, <3>2, EnqueueTyped, EnqueueSpaced DEF DataTyped
    <3> QED
      BY <3>1, <3>2
  <2> HIDE DEF n, Q
  <2>5. fate' \in [Packets -> Fates]
    BY <2>2, <2>3 DEF DataTyped, Fates
  <2>6. misfit' \in SUBSET Packets
    <3>1. inFlight \subseteq Nodes
      BY DEF inFlight, DataTyped, Sights
    <3>2. \A q \in Q \ jit : misfits(q, asked.time) \subseteq Packets
      BY <2>4, <3>1 DEF misfits, QueueTyped, Nodes
    <3> QED
      BY <2>3, <3>2 DEF DataTyped
  <2> QED
    BY <2>3, <2>4, <2>5, <2>6 DEF DataTyped, QueueTyped, Spaced
<1>2. ASSUME NEW p \in Packets, refuse(p) PROVE DataTyped'
  <2>1. fate' \in [Packets -> Fates]
    BY <1>2 DEF refuse, becomes, DataTyped, Fates
  <2>2. UNCHANGED <<hostVars, queueVars, radioVars, fetches, raced, passed, misfit>>
    BY <1>2 DEF refuse
  <2> QED
    BY <2>1, <2>2, DataStays DEF DataTyped
<1>3. ASSUME NEW p \in Packets, enqueueTxPacket(p) PROVE DataTyped'
  <2>1. PICK c \in Count, a \in config.advances :
            asked' = [time |-> c,
                      node |-> [pkt |-> p, at |-> Add(now, a), post |-> p.post]]
    BY <1>3 DEF enqueueTxPacket
  <2>2. p.post \in Nat \ {0}
    BY ListenerAssumption
  <2>3. a \in Int
    BY ListenerAssumption DEF DataTyped, Settings
  <2>4. Add(now, a) \in Count
    <3>1. now \in Int
      BY DEF DataTyped, Count
    <3> QED
      BY <2>3, <3>1, CountTyped
  <2>5. [time |-> c, node |-> [pkt |-> p, at |-> Add(now, a), post |-> p.post]]
            \in [node : Nodes, time : Count]
    BY <2>2, <2>4 DEF Nodes
  <2>6. UNCHANGED <<config, outcome, jit, sight, radioVars, fate, fetches, raced, passed, misfit>>
    BY <1>3 DEF enqueueTxPacket
  <2>7. asked' \in [node : Nodes, time : Count]
    BY <2>1, <2>5
  <2> QED
    BY <2>6, <2>7 DEF DataTyped, QueueTyped, Spaced, radioVars
<1> QED
  BY <1>1, <1>2, <1>3

\* Time passes.
LEMMA TickData ==
    ASSUME DataTyped, tick
    PROVE  DataTyped'
<1> USE DEF hostVars, queueVars, histVars
<1>1. now' \in Count
  <2>1. now \in Int
    BY DEF DataTyped, Count
  <2>2. Add(now, 1) \in Count
    BY <2>1, CountTyped
  <2> QED
    BY <2>2 DEF tick, DataTyped
<1>2. tx' \in {tx, NoNode}
  BY DEF tick
<1>3. fate' = fate \/ fate' = [fate EXCEPT ![tx.pkt] = "aired"]
  BY DEF tick, becomes
<1>4. fate' \in [Packets -> Fates]
  BY <1>3 DEF DataTyped, Fates
<1>5. UNCHANGED <<hostVars, queueVars, on, fetches, raced, passed, misfit>>
  BY DEF tick
<1> QED
  BY <1>1, <1>2, <1>4, <1>5 DEF DataTyped, QueueTyped, Spaced

LEMMA InitData == Init => DataTyped
<1> SUFFICES ASSUME Init PROVE DataTyped
  OBVIOUS
<1>1. QueueTyped({}) /\ Spaced({})
  BY FS_EmptySet, JitAssumption DEF QueueTyped, Spaced
<1>2. 0 \in Count
  BY JitAssumption DEF Count
<1>3. NoSight \in Sights
  BY <1>2, JitAssumption DEF NoSight, Sights
<1>4. 0 \in 0..MaxFetches
  BY ListenerAssumption
<1> QED
  BY <1>1, <1>2, <1>3, <1>4 DEF Init, DataTyped, Fates

LEMMA NextData == DataTyped /\ [Next]_vars => DataTyped'
<1> SUFFICES ASSUME DataTyped, [Next]_vars PROVE DataTyped'
  OBVIOUS
<1>1. CASE UNCHANGED vars
  BY <1>1 DEF vars, hostVars, queueVars, threadVars, radioVars, histVars, DataTyped,
     QueueTyped, Spaced
<1>2. ASSUME NEW t \in Threads, threadStep(t) PROVE DataTyped'
  BY <1>2, UpstreamData, JitData DEF threadStep
<1> QED
  BY <1>1, <1>2, HostData, DownlinkData, TickData DEF Next, hostStep

\* Every variable keeps its type; the queue is never larger than its array.
THEOREM TypeCorrect == Spec => []TypeOK
<1>1. IInv /\ DataTyped => TypeOK
  BY DEF IInv, ThreadsTyped, Labels, DataTyped, QueueTyped, Fates, Sights, TypeOK
<1> QED
  BY InitIInv, NextIInv, InitData, NextData, <1>1, PTL DEF Spec

\* No two downlinks of the queue want the radio at the same time, whatever was
\* asked for, when it was asked and what the counter read (jit_enqueue() and
\* jit_collision_test(): what jit_enqueue() accepts collides with nothing queued,
\* and jit_peek() and jit_dequeue() only take downlinks out).
THEOREM QueueAlwaysSpaced == Spec => []Spaced(jit)
<1>1. DataTyped => Spaced(jit)
  BY DEF DataTyped
<1> QED
  BY InitData, NextData, <1>1, PTL DEF Spec

----------------------------------------------------------------------------
(* Between a peek and its dequeue                                           *)

\* u - v does not wrap, or wraps once.
LEMMA SubIs ==
    ASSUME NEW a \in Count, NEW b \in Count
    PROVE  Sub(a, b) = IF a >= b THEN a - b ELSE a - b + Modulus
<1>1. Modulus \in Nat \ {0}
  BY JitAssumption
<1>2. \A m \in Nat \ {0} : \A x \in 0..(m - 1) : x % m = x
  OBVIOUS
<1>3. \A m \in Nat \ {0} : \A x \in (-m)..(-1) : x % m = x + m
  OBVIOUS
<1>4. CASE a >= b
  <2>1. a - b \in 0..(Modulus - 1)
    BY <1>1, <1>4 DEF Count
  <2> QED
    BY <1>1, <1>2, <1>4, <2>1 DEF Sub
<1>5. CASE a < b
  <2>1. a - b \in (-Modulus)..(-1) /\ ~(a >= b)
    BY <1>1, <1>5 DEF Count
  <2> QED
    BY <1>1, <1>3, <2>1 DEF Sub
<1> QED
  BY <1>4, <1>5 DEF Count

\* Of two instants ahead of a third, the nearer one is the difference ahead.
LEMMA SubSplits ==
    ASSUME NEW a \in Count, NEW b \in Count, NEW time \in Count,
           Sub(a, time) <= Sub(b, time)
    PROVE  Sub(b, a) = Sub(b, time) - Sub(a, time)
<1> DEFINE u == Sub(a, time)
           v == Sub(b, time)
           w == Sub(b, a)
<1>1. /\ u = IF a >= time THEN a - time ELSE a - time + Modulus
      /\ v = IF b >= time THEN b - time ELSE b - time + Modulus
      /\ w = IF b >= a THEN b - a ELSE b - a + Modulus
  BY SubIs
<1>2. Modulus \in Nat \ {0}
  BY JitAssumption
<1>3. a \in 0..(Modulus - 1) /\ b \in 0..(Modulus - 1) /\ time \in 0..(Modulus - 1)
  BY DEF Count
<1>4. u <= v
  OBVIOUS
<1>5. w = v - u
  <2> HIDE DEF u, v, w
  <2> QED
    BY <1>1, <1>2, <1>3, <1>4
<1> QED
  BY <1>5

\* A way round over a third instant is no shorter.
LEMMA Triangle ==
    ASSUME NEW a \in Count, NEW b \in Count, NEW c \in Count
    PROVE  Sub(a, c) <= Sub(a, b) + Sub(b, c)
<1> DEFINE u == Sub(a, c)
           v == Sub(a, b)
           w == Sub(b, c)
<1>1. /\ u = IF a >= c THEN a - c ELSE a - c + Modulus
      /\ v = IF a >= b THEN a - b ELSE a - b + Modulus
      /\ w = IF b >= c THEN b - c ELSE b - c + Modulus
  BY SubIs
<1>2. Modulus \in Nat \ {0}
  BY JitAssumption
<1>3. a \in 0..(Modulus - 1) /\ b \in 0..(Modulus - 1) /\ c \in 0..(Modulus - 1)
  BY DEF Count
<1>4. u <= v + w
  <2> HIDE DEF u, v, w
  <2> QED
    BY <1>1, <1>2, <1>3
<1> QED
  BY <1>4

\* What the next instant of the counter does to distances.
LEMMA NextInstant ==
    ASSUME NEW a \in Count, NEW b \in Count
    PROVE  /\ Sub(a, b) # 0 => Sub(a, Add(b, 1)) = Sub(a, b) - 1
           /\ Sub(Add(b, 1), a) \in {0, Sub(b, a) + 1}
           /\ Sub(a, b) = 0 => Sub(b, a) = 0
<1> DEFINE c == Add(b, 1)
           u == Sub(a, b)
           v == Sub(b, a)
           w == Sub(a, c)
           x == Sub(c, a)
<1>1. Modulus \in Nat \ {0}
  BY JitAssumption
<1>2. a \in 0..(Modulus - 1) /\ b \in 0..(Modulus - 1)
  BY DEF Count
<1>3. c = IF b = Modulus - 1 THEN 0 ELSE b + 1
  <2>1. \A m \in Nat \ {0} : \A y \in 0..(m - 1) : y % m = y
    OBVIOUS
  <2>2. \A m \in Nat \ {0} : m % m = 0
    OBVIOUS
  <2>3. CASE b = Modulus - 1
    <3>1. b + 1 = Modulus
      BY <1>1, <2>3
    <3> QED
      BY <1>1, <2>2, <2>3, <3>1 DEF Add
  <2>4. CASE b # Modulus - 1
    <3>1. b + 1 \in 0..(Modulus - 1)
      BY <1>1, <1>2, <2>4
    <3> QED
      BY <1>1, <2>1, <2>4, <3>1 DEF Add
  <2> QED
    BY <2>3, <2>4
<1>4. c \in Count
  BY <1>1, <1>2, <1>3 DEF Count
<1> HIDE DEF c
<1>5. /\ u = IF a >= b THEN a - b ELSE a - b + Modulus
      /\ v = IF b >= a THEN b - a ELSE b - a + Modulus
      /\ w = IF a >= c THEN a - c ELSE a - c + Modulus
      /\ x = IF c >= a THEN c - a ELSE c - a + Modulus
  BY <1>4, SubIs
<1>6. (u # 0 => w = u - 1) /\ x \in {0, v + 1} /\ (u = 0 => v = 0)
  <2> HIDE DEF u, v, w, x
  <2> QED
    BY <1>1, <1>2, <1>3, <1>5
<1> QED
  BY <1>6 DEF c

\* Distances are natural numbers.
LEMMA SubNat ==
    ASSUME NEW a \in Count, NEW b \in Count
    PROVE  Sub(a, b) \in Nat
<1>1. a \in Int /\ b \in Int
  BY DEF Count
<1>2. Sub(a, b) \in Count
  BY <1>1, CountTyped
<1> QED
  BY <1>2 DEF Count

\* Two packets that are due at once want the radio at the same time.
LEMMA DueCollide ==
    ASSUME NEW p \in Nodes, NEW q \in Nodes, NEW time \in Count,
           Sub(q.at, time) < JitDelay, Sub(p.at, time) <= Sub(q.at, time)
    PROVE  jit_collision_test(p, q)
<1>1. p.at \in Count /\ q.at \in Count /\ p.post \in Nat
  BY DEF Nodes
<1>2. Sub(q.at, p.at) = Sub(q.at, time) - Sub(p.at, time)
  BY <1>1, SubSplits
<1>3. Sub(p.at, time) \in Nat /\ Sub(q.at, time) \in Nat
  BY <1>1, SubNat
<1>4. JitDelay \in Nat /\ StartDelay \in Nat /\ MarginDelay \in Nat
  BY JitAssumption
<1>5. Sub(q.at, p.at) <= PreDelay + p.post + MarginDelay
  BY <1>1, <1>2, <1>3, <1>4 DEF PreDelay
<1> QED
  BY <1>5 DEF jit_collision_test

\* So do one that is due and one that is on air.
LEMMA OnAirCollide ==
    ASSUME NEW p \in Nodes, NEW q \in Nodes, NEW time \in Count,
           Sub(q.at, time) < JitDelay, Sub(time, p.at) < p.post
    PROVE  jit_collision_test(p, q)
<1>1. p.at \in Count /\ q.at \in Count /\ p.post \in Nat
  BY DEF Nodes
<1>2. Sub(q.at, p.at) <= Sub(q.at, time) + Sub(time, p.at)
  BY <1>1, Triangle
<1>3. Sub(q.at, p.at) \in Nat /\ Sub(q.at, time) \in Nat /\ Sub(time, p.at) \in Nat
  BY <1>1, SubNat
<1>4. JitDelay \in Nat /\ StartDelay \in Nat /\ MarginDelay \in Nat
  BY JitAssumption
<1>5. Sub(q.at, p.at) <= PreDelay + p.post + MarginDelay
  BY <1>1, <1>2, <1>3, <1>4 DEF PreDelay
<1> QED
  BY <1>5 DEF jit_collision_test

\* Two nodes of a queue are not due at once.
LEMMA OneIsDue ==
    ASSUME NEW Q, QueueTyped(Q), Spaced(Q), NEW p \in Q, NEW q \in Q, NEW time \in Count,
           Sub(q.at, time) < JitDelay, Sub(p.at, time) <= Sub(q.at, time)
    PROVE  p = q
BY DueCollide DEF QueueTyped, Spaced

\* Of what jit_peek() leaves in the queue, only the packet it peeked is due, or
\* it was passed over.
LEMMA PeekedIsDue ==
    ASSUME NEW Q, QueueTyped(Q), Spaced(Q), NEW time \in Count,
           jit_peek(Q, time).index # -1
    PROVE  LET p == jit_peek(Q, time)
               q == CHOOSE n \in nodeAt(p.queue, p.index) : TRUE
           IN  /\ q \in p.queue /\ indexOf(p.queue, q) = p.index
               /\ Sub(q.at, time) < JitDelay
               /\ \A x \in p.queue \ {q} :
                      Sub(x.at, time) >= JitDelay \/ x \in p.passed
<1> DEFINE gone == {q \in earliest(Q) : outdated(time, q)}
           skipped == IF gone = {} THEN {} ELSE earliest(Q \ gone)
           kept == skipped \cup {q \in Q : ~outdated(time, q)}
           due == {q \in kept \ skipped :
                       /\ Sub(q.at, time) < JitDelay
                       /\ \A r \in kept \ skipped :
                               Sub(q.at, time) <= Sub(r.at, time)}
           first == CHOOSE q \in due : TRUE
           index == IF due = {} THEN -1 ELSE indexOf(kept, first)
           passing == {q \in skipped : Sub(q.at, time) < JitDelay}
           p == jit_peek(Q, time)
           n == CHOOSE x \in nodeAt(kept, index) : TRUE
<1>1. p = [queue |-> kept, passed |-> passing, index |-> index]
  BY DEF jit_peek
<1>2. skipped \in SUBSET Q /\ kept \in SUBSET Q
  BY DEF earliest
<1>3. /\ due \in SUBSET kept
      /\ \A x \in due : /\ Sub(x.at, time) < JitDelay
                        /\ \A r \in kept \ skipped : Sub(x.at, time) <= Sub(r.at, time)
  OBVIOUS
<1>4. \A x \in skipped : Sub(x.at, time) < JitDelay => x \in passing
  OBVIOUS
<1> HIDE DEF due, kept, skipped, passing
<1>5. p.queue = kept /\ p.passed = passing /\ p.index = index
  <2> HIDE DEF index, p
  <2> QED
    BY <1>1
<1>6. due # {} /\ first \in due /\ index = indexOf(kept, first)
  BY <1>5
<1>7. QueueTyped(kept) /\ Spaced(kept)
  BY <1>2, PartTyped DEF Spaced
<1>8. n = first
  <2>1. first \in nodeAt(kept, index)
    BY <1>3, <1>6 DEF nodeAt
  <2>2. n \in kept /\ indexOf(kept, n) = index
    BY <2>1 DEF nodeAt
  <2> HIDE DEF n, first, index
  <2> QED
    BY <1>3, <1>6, <1>7, <2>2, IndexNamesOne
<1> HIDE DEF n, first, index, p
<1>9. ASSUME NEW x \in kept \ {first}, ~(Sub(x.at, time) >= JitDelay)
      PROVE  x \in passing
  <2>1. Sub(x.at, time) < JitDelay
    <3>1. x.at \in Int /\ time \in Int /\ JitDelay \in Int /\ Modulus \in Nat \ {0}
      BY <1>7, JitAssumption DEF QueueTyped, Nodes, Count
    <3>2. Sub(x.at, time) \in Count
      BY <3>1, CountTyped
    <3>3. Sub(x.at, time) \in Int
      BY <3>2 DEF Count
    <3> QED
      BY <1>9, <3>1, <3>3
  <2>2. x \in skipped
    BY <1>3, <1>6, <1>7, <2>1, OneIsDue
  <2> QED
    BY <1>4, <2>1, <2>2
<1>10. /\ n \in p.queue /\ indexOf(p.queue, n) = p.index
       /\ n = CHOOSE x \in nodeAt(p.queue, p.index) : TRUE
       /\ Sub(n.at, time) < JitDelay
       /\ \A x \in p.queue \ {n} : Sub(x.at, time) >= JitDelay \/ x \in p.passed
  BY <1>3, <1>5, <1>6, <1>8, <1>9 DEF n
<1> QED
  BY <1>10 DEF p

\* What jit_enqueue() adds is not due yet.
LEMMA EnqueuedLater ==
    ASSUME NEW Q, QueueTyped(Q), NEW time \in Count, NEW pkt, NEW class,
           NEW at \in Count, NEW post \in Nat
    PROVE  LET R == jit_enqueue(Q, time, pkt, class, at, post)
           IN  /\ Q \subseteq R
               /\ \A x \in R \ Q : Sub(x.at, time) >= JitDelay
<1> DEFINE n == [pkt |-> pkt, post |-> post,
                 at |-> IF class = "C" THEN asapCount(Q, time, pkt, post) ELSE at]
           R == jit_enqueue(Q, time, pkt, class, at, post)
<1>1. R = Q \/ (R = Q \cup {n} /\ ~tooLate(time, n.at))
  BY DEF jit_enqueue
<1>2. n.at \in Count
  BY AsapTyped DEF QueueTyped
<1> HIDE DEF n, R
<1>3. ASSUME ~tooLate(time, n.at) PROVE Sub(n.at, time) >= JitDelay
  <2>1. n.at \in Int /\ time \in Int
    BY <1>2 DEF Count
  <2>2. Sub(n.at, time) \in Count
    BY <2>1, CountTyped
  <2>3. Sub(n.at, time) \in Int
    BY <2>2 DEF Count
  <2>4. StartDelay \in Nat /\ MarginDelay \in Nat /\ JitDelay \in Nat
    BY JitAssumption
  <2>5. ~(Sub(n.at, time) <= StartDelay + MarginDelay + JitDelay)
    BY <1>3 DEF tooLate
  <2> QED
    BY <2>3, <2>4, <2>5
<1>4. Q \subseteq R /\ \A x \in R \ Q : Sub(x.at, time) >= JitDelay
  BY <1>1, <1>3
<1> QED
  BY <1>4 DEF R

\* The index of a node only grows when nodes are queued.
LEMMA IndexGrows ==
    ASSUME NEW R, QueueTyped(R), NEW Q \in SUBSET R, NEW p
    PROVE  indexOf(Q, p) <= indexOf(R, p)
<1> DEFINE A == {r \in Q : r.at < p.at}
           B == {r \in R : r.at < p.at}
<1>1. A \in SUBSET B /\ B \in SUBSET R
  OBVIOUS
<1> HIDE DEF A, B
<1>2. IsFiniteSet(B)
  BY <1>1, FS_Subset DEF QueueTyped
<1>3. Cardinality(A) <= Cardinality(B)
  BY <1>1, <1>2, FS_Subset
<1> QED
  BY <1>3 DEF A, B, indexOf

\* Every index up to that of a node is the index of a node.
LEMMA IndexReached ==
    ASSUME NEW Q, QueueTyped(Q), Spaced(Q), NEW p \in Q,
           NEW i \in Nat, i <= indexOf(Q, p)
    PROVE  \E m \in Q : indexOf(Q, m) = i /\ m.at <= p.at
<1> DEFINE A == {q \in Q : indexOf(Q, q) >= i}
<1>1. Q \in SUBSET Nodes /\ \A q \in Q : q.at \in Nat /\ indexOf(Q, q) \in Nat
  <2>1. \A q \in Q : indexOf(Q, q) \in 0..QueueMax
    BY IndexTyped
  <2> QED
    BY <2>1, JitAssumption DEF QueueTyped, Nodes, Count
<1>2. A \in SUBSET Nodes /\ p \in A
  BY <1>1
<1>3. PICK m \in A : \A r \in A : m.at <= r.at
  <2> HIDE DEF A
  <2> QED
    BY <1>2, FirstAndLast DEF earliest
<1>4. indexOf(Q, m) = i
  <2> DEFINE L == {r \in Q : r.at < m.at}
  <2>1. SUFFICES ASSUME indexOf(Q, m) > i PROVE FALSE
    BY <1>1
  <2>2. QueueTyped(L)
    BY PartTyped
  <2>3. \A r \in L : indexOf(Q, r) < i
    BY <1>1, <1>3
  <2>4. L # {}
    <3>1. indexOf(Q, m) = Cardinality(L)
      BY DEF indexOf
    <3>2. L = {} => Cardinality(L) = 0
      BY FS_EmptySet
    <3> QED
      BY <2>1, <3>1, <3>2
  <2>5. PICK x \in L : \A r \in L : r.at <= x.at
    <3> HIDE DEF L
    <3> QED
      BY <2>2, <2>4, FirstAndLast DEF QueueTyped
  <2>6. {r \in Q : r.at < x.at} = L \ {x}
    <3>1. \A r \in L : r # x => r.at # x.at
      <4>1. ASSUME NEW r \in L, r.at = x.at PROVE r = x
        <5>1. {q \in Q : q.at < r.at} = {q \in Q : q.at < x.at}
          BY <4>1
        <5>2. indexOf(Q, r) = indexOf(Q, x)
          BY <5>1 DEF indexOf
        <5> QED
          BY <5>2, IndexNamesOne
      <4> QED
        BY <4>1
    <3>2. \A r \in Q : r.at < x.at => r.at < m.at
      BY <1>1, <1>3
    <3>3. \A r \in L : r # x => r.at < x.at
      BY <1>1, <2>5, <3>1
    <3> QED
      BY <1>1, <3>2, <3>3
  <2>7. Cardinality(L \ {x}) = Cardinality(L) - 1
    <3> HIDE DEF L
    <3> QED
      BY <2>2, FS_RemoveElement DEF QueueTyped
  <2>8. indexOf(Q, x) = indexOf(Q, m) - 1
    BY <2>6, <2>7 DEF indexOf
  <2> QED
    BY <1>1, <2>1, <2>3, <2>8
<1> QED
  BY <1>2, <1>3, <1>4

\* jit_dequeue() of an index that a node has, or had before others were queued,
\* takes that node or one that stands before it.
LEMMA DequeuedBefore ==
    ASSUME NEW Q, QueueTyped(Q), Spaced(Q), NEW p \in Q,
           NEW i \in Nat, i <= indexOf(Q, p)
    PROVE  LET d == jit_dequeue(Q, i)
               n == CHOOSE x \in d.taken : TRUE
           IN  d.taken # {} /\ n \in Q /\ (n = p \/ n.at < p.at)
<1> DEFINE d == jit_dequeue(Q, i)
           n == CHOOSE x \in d.taken : TRUE
<1>1. d.taken = nodeAt(Q, i)
  BY DEF jit_dequeue
<1>2. PICK m \in Q : indexOf(Q, m) = i /\ m.at <= p.at
  BY IndexReached
<1>3. d.taken # {} /\ n \in Q /\ indexOf(Q, n) = i
  BY <1>1, <1>2 DEF nodeAt
<1> HIDE DEF d, n
<1>4. n = m
  BY <1>2, <1>3, IndexNamesOne
<1>5. n = p \/ n.at < p.at
  <2>1. n.at = p.at => {q \in Q : q.at < n.at} = {q \in Q : q.at < p.at}
    OBVIOUS
  <2>2. n.at = p.at => n = p
    BY <1>3, <2>1, IndexNamesOne DEF indexOf
  <2>3. n.at \in Int /\ p.at \in Int
    BY <1>3 DEF QueueTyped, Nodes, Count
  <2> QED
    BY <1>2, <1>4, <2>2, <2>3
<1> QED
  BY <1>3, <1>5 DEF d, n

\* Who may be where, while no stop() gave up on a thread and no fetch failed: the
\* threads are gone before start() is called again, and the concentrator is on
\* for whoever reads its counter.
Steady ==
    /\ \A t \in Threads : pc[t] \in {"time", "peek", "dequeue", "transmit", "send"} => t[1] = "jit"
    /\ ~tainted =>
        /\ host \in {"closed", "starting", "broken"} => live = {}
        /\ host \in {"starting", "broken", "open", "enqueue", "stopEnter"} => ~stopRequest
        /\ live # {} \/ host \in {"open", "enqueue"} => on

\* What a jit thread that has peeked may rely on: its packet is in the queue, at
\* its index or behind, and no other one is due but for those passed over.
Peeked(t) ==
    LET p == sight[t].node
        i == sight[t].index
    IN  /\ p \in jit /\ i \in Nat /\ i <= indexOf(jit, p)
        /\ \A q \in jit \ {p} : Sub(q.at, now) >= JitDelay \/ q.pkt \in passed

\* Threads that keep the pace act on the instant they have read.
Watchful ==
    ~tainted /\ ~config.slow =>
        /\ host = "enqueue" => asked.time = now
        /\ \A t \in Threads :
            /\ pc[t] \in {"peek", "dequeue"} => sight[t].time = now
            /\ pc[t] = "dequeue" => Peeked(t)

LEMMA InitPeeking == Init => Steady /\ Watchful
BY DEF Init, Steady, Watchful, live

\* A living thread goes somewhere.
LEMMA ThreadSteady ==
    ASSUME IInv, Steady, NEW t \in Threads, threadStep(t)
    PROVE  Steady'
<1> USE DEF hostVars, queueVars, radioVars, histVars, goto
<1>1. ASSUME NEW l, t \in live, pc' = [pc EXCEPT ![t] = l],
             l \in {"time", "peek", "dequeue", "transmit", "send"} => t[1] = "jit",
             UNCHANGED host, tainted \in BOOLEAN, tainted => tainted',
             UNCHANGED <<stopRequest, on>> \/ tainted
      PROVE  Steady'
  <2>1. live' \subseteq live
    BY <1>1 DEF live, IInv, ThreadsTyped
  <2>2. \A s \in Threads : pc'[s] = IF s = t THEN l ELSE pc[s]
    BY <1>1 DEF IInv, ThreadsTyped
  <2> QED
    BY <1>1, <2>1, <2>2 DEF Steady
<1>2. tainted \in BOOLEAN
  BY DEF IInv, ThreadsTyped
<1>3. pc[t] \in {"fail", "stopEnter", "stopWait"} => tainted
  BY DEF IInv, Grounded
<1>4. CASE exitLoop(t) \/ fetch(t) \/ fetchNothing(t) \/ fetchFails(t) \/ fetchFrames(t)
  <2>1. \E l \in {"gone", "receive", "sleep", "fail", "loop"} :
            pc' = [pc EXCEPT ![t] = l]
    BY <1>4 DEF exitLoop, fetch, fetchNothing, fetchFails, fetchFrames
  <2>2. /\ UNCHANGED <<host, stopRequest, on>> /\ t \in live
        /\ tainted => tainted'
    BY <1>2, <1>4 DEF exitLoop, fetch, fetchNothing, fetchFails, fetchFrames, live
  <2> QED
    BY <1>1, <1>2, <2>1, <2>2
<1>5. CASE selfStop(t) \/ selfStopSet(t) \/ selfStopEnd(t)
  <2>1. \E l \in {"gone", "stopEnter", "stopWait"} : pc' = [pc EXCEPT ![t] = l]
    BY <1>5 DEF selfStop, selfStopSet, selfStopEnd
  <2>2. /\ UNCHANGED <<host, tainted>> /\ t \in live
        /\ pc[t] \in {"fail", "stopEnter", "stopWait"}
    BY <1>5 DEF selfStop, selfStopSet, selfStopEnd, live
  <2> QED
    BY <1>1, <1>2, <1>3, <2>1, <2>2
<1>6. CASE scan(t)
  <2>1. \E l \in {"sleep", "scanning", "loop"} : pc' = [pc EXCEPT ![t] = l]
    BY <1>6 DEF scan
  <2>2. UNCHANGED <<host, stopRequest, on, tainted>> /\ t \in live
    BY <1>6 DEF scan, live
  <2> QED
    BY <1>1, <1>2, <2>1, <2>2
<1>7. CASE jitSleep(t) \/ jitTime(t) \/ jitPeek(t) \/ jitDequeue(t) \/ jitTransmit(t)
  <2>1. t[1] = "jit"
    BY <1>7 DEF jitSleep, jitTime, jitPeek, jitDequeue, jitTransmit, jitStatus, jitSend, Steady
  <2>2. UNCHANGED <<host, stopRequest, on, tainted>> /\ t \in live
    BY <1>7 DEF jitSleep, jitTime, jitPeek, jitDequeue, jitTransmit, jitStatus, jitSend, live
  <2>3. \E l : pc' = [pc EXCEPT ![t] = l]
    <3>1. ASSUME jitPeek(t) PROVE \E l \in {"loop", "dequeue"} : pc' = [pc EXCEPT ![t] = l]
      BY <3>1 DEF jitPeek
    <3>2. ASSUME jitDequeue(t)
          PROVE  \E l \in {"loop", "transmit", "send"} : pc' = [pc EXCEPT ![t] = l]
      BY <3>2 DEF jitDequeue
    <3> QED
      BY <1>7, <3>1, <3>2 DEF jitSleep, jitTime, jitTransmit, jitStatus, jitSend
  <2> QED
    BY <1>1, <1>2, <2>1, <2>2, <2>3
<1> QED
  BY <1>4, <1>5, <1>6, <1>7 DEF threadStep

\* The host starts, stops and writes.
LEMMA HostSteady ==
    ASSUME IInv, IInv', Steady,
           \/ start \/ stop \/ hostStep
           \/ \E p \in Packets : refuse(p) \/ enqueueTxPacket(p)
    PROVE  Steady'
<1> USE DEF hostVars, queueVars, threadVars, radioVars, histVars
<1>1. CASE start
  <2>1. /\ host = "closed" /\ host' = "starting" /\ stopRequest' = FALSE
        /\ UNCHANGED <<pc, on, tainted>>
    BY <1>1 DEF start
  <2> QED
    BY <2>1 DEF Steady, live
<1>2. CASE startFails
  <2>1. /\ host = "starting" /\ host' = "broken" /\ UNCHANGED <<pc, stopRequest, tainted>>
    BY <1>2 DEF startFails
  <2> QED
    BY <2>1 DEF Steady, live
<1>3. CASE startThreads
  <2>1. /\ host = "starting" /\ host' = "open" /\ on' = TRUE
        /\ UNCHANGED <<stopRequest, tainted>>
        /\ \A t \in Threads : pc'[t] \in {pc[t], "loop"}
    BY <1>3 DEF startThreads
  <2> QED
    BY <2>1 DEF Steady, live
<1>4. CASE stop
  <2>1. /\ host \in {"open", "broken"} /\ UNCHANGED <<pc, on, stopRequest, tainted>>
        /\ host' = IF stopRequest THEN "closed" ELSE "stopEnter"
    BY <1>4 DEF stop
  <2> QED
    BY <2>1 DEF Steady, live
<1>5. CASE stopSet
  <2>1. host' = "stopWait" /\ UNCHANGED <<pc, on, tainted>>
    BY <1>5 DEF stopSet
  <2> QED
    BY <2>1 DEF Steady, live
<1>6. CASE stopEnd
  <2>1. /\ host' = "closed" /\ UNCHANGED pc
        /\ flag' = [k \in DOMAIN flag |-> FALSE]
    BY <1>6 DEF stopEnd, forceClose
  <2>2. \A k \in Kinds : ~flag'[k]
    BY <2>1 DEF IInv, ThreadsTyped
  <2>3. ~tainted' => live' = {}
    BY <2>2, ThreadIs DEF IInv, Truthful, FlagsTrue, live
  <2> QED
    BY <2>1, <2>3 DEF Steady
<1>7. CASE enqueue
  <2>1. /\ host = "enqueue" /\ host' = "open"
        /\ UNCHANGED <<pc, on, stopRequest, tainted>>
    BY <1>7 DEF enqueue
  <2> QED
    BY <2>1 DEF Steady, live
<1>8. ASSUME NEW p \in Packets, refuse(p) \/ enqueueTxPacket(p) PROVE Steady'
  <2>1. /\ host = "open" /\ host' \in {"open", "enqueue"}
        /\ UNCHANGED <<pc, on, stopRequest, tainted>>
    BY <1>8 DEF refuse, enqueueTxPacket
  <2> QED
    BY <2>1 DEF Steady, live
<1> QED
  BY <1>1, <1>2, <1>3, <1>4, <1>5, <1>6, <1>7, <1>8 DEF hostStep

\* Where a tick leaves the threads.
LEMMA TickMoves ==
    ASSUME IInv, tick
    PROVE  \A t \in Threads :
            /\ pc'[t] = pc[t] \/ (pc[t] = "sleep" /\ pc'[t] \in {"loop", "time", "lock"})
            /\ pc'[t] = "time" /\ pc[t] = "sleep" => t[1] = "jit"
<1>1. pc' = [t \in Threads |->
                    IF pc[t] # "sleep" THEN pc[t]
                    ELSE CASE t[1] = "upstream" -> "loop"
                           [] t[1] = "jit" -> "time"
                           [] t[1] = "scan" -> "lock"]
  BY DEF tick
<1>2. \A t \in Threads : t[1] \in {"upstream", "jit", "scan"}
  BY ThreadIs DEF Kinds
<1> QED
  BY <1>1, <1>2

\* Every step keeps Steady.
LEMMA NextSteady ==
    ASSUME IInv, IInv', Steady, [Next]_vars
    PROVE  Steady'
<1>1. CASE UNCHANGED vars
  BY <1>1 DEF vars, hostVars, threadVars, radioVars, histVars, Steady, live
<1>2. CASE tick
  <2>1. UNCHANGED <<host, stopRequest, on, tainted>>
    BY <1>2 DEF tick, hostVars, histVars
  <2>2. live' = live
    BY <1>2, TickMoves DEF live
  <2> QED
    BY <1>2, <2>1, <2>2, TickMoves DEF Steady
<1> QED
  BY <1>1, <1>2, ThreadSteady, HostSteady DEF Next

\* What the jit threads that have peeked rely on stays when nothing of it changes.
LEMMA WatchKept ==
    ASSUME Watchful,
           \A t \in Threads :
               pc'[t] \in {"peek", "dequeue"} => pc'[t] = pc[t] /\ sight'[t] = sight[t],
           UNCHANGED <<config, now, jit>>, passed \subseteq passed',
           host' = "enqueue" => host = "enqueue" /\ asked' = asked,
           tainted => tainted'
    PROVE  Watchful'
<1>1. SUFFICES ASSUME ~tainted', ~config.slow
               PROVE  /\ host' = "enqueue" => asked'.time = now'
                      /\ \A t \in Threads :
                            /\ pc'[t] \in {"peek", "dequeue"} => sight'[t].time = now'
                            /\ pc'[t] = "dequeue" => Peeked(t)'
  BY DEF Watchful
<1>2. /\ host = "enqueue" => asked.time = now
      /\ \A t \in Threads : /\ pc[t] \in {"peek", "dequeue"} => sight[t].time = now
                            /\ pc[t] = "dequeue" => Peeked(t)
  BY <1>1 DEF Watchful
<1>3. ASSUME NEW t \in Threads, pc'[t] = "dequeue" PROVE Peeked(t)'
  <2>1. Peeked(t) /\ sight'[t] = sight[t]
    BY <1>2, <1>3
  <2> QED
    BY <2>1 DEF Peeked
<1> QED
  BY <1>2, <1>3

\* The upstream and the scan threads, and a jit thread that is elsewhere.
LEMMA ThreadWatch ==
    ASSUME IInv, Watchful, NEW t \in Threads, threadStep(t),
           ~jitTime(t), ~jitPeek(t), ~jitDequeue(t)
    PROVE  Watchful'
<1> USE DEF hostVars, queueVars, radioVars, histVars, goto
<1>1. tainted \in BOOLEAN
  BY DEF IInv, ThreadsTyped
<1>2. CASE selfStop(t) \/ selfStopSet(t) \/ selfStopEnd(t)
  <2>1. pc[t] \in {"fail", "stopEnter", "stopWait"} /\ UNCHANGED tainted
    BY <1>2 DEF selfStop, selfStopSet, selfStopEnd
  <2>2. tainted'
    BY <2>1 DEF IInv, Grounded
  <2> QED
    BY <2>2 DEF Watchful
<1>3. CASE ~(selfStop(t) \/ selfStopSet(t) \/ selfStopEnd(t))
  <2>1. \E l \in {"gone", "receive", "sleep", "fail", "loop", "scanning", "send"} :
            pc' = [pc EXCEPT ![t] = l]
    BY <1>3 DEF threadStep, exitLoop, fetch, fetchNothing, fetchFails, fetchFrames,
       scan, jitSleep, jitTransmit, jitStatus, jitSend
  <2>2. /\ UNCHANGED <<config, host, asked, jit, sight, now, passed>>
        /\ tainted => tainted'
    BY <1>1, <1>3 DEF threadStep, exitLoop, fetch, fetchNothing, fetchFails, fetchFrames,
       scan, jitSleep, jitTransmit, jitStatus, jitSend
  <2>3. \A s \in Threads : pc'[s] \in {"peek", "dequeue"} => pc'[s] = pc[s]
    BY <2>1 DEF IInv, ThreadsTyped
  <2> QED
    BY <2>2, <2>3, WatchKept
<1> QED
  BY <1>2, <1>3

\* As long as the flags are true, there is one jit thread.
LEMMA OneJit ==
    ASSUME IInv, Steady, ~tainted, NEW s \in Threads, NEW t \in Threads,
           {pc[s], pc[t]} \subseteq {"time", "peek", "dequeue", "transmit", "send"}
    PROVE  s = t
<1>1. s \in live /\ t \in live
  BY DEF live
<1>2. s[1] = "jit" /\ t[1] = "jit"
  BY DEF Steady
<1> QED
  BY <1>1, <1>2 DEF IInv, Truthful, FlagsTrue

\* A jit thread reads the counter, looks at the queue, and takes a packet.
LEMMA JitWatch ==
    ASSUME IInv, DataTyped, DataTyped', Steady, Watchful, NEW t \in Threads,
           jitTime(t) \/ jitPeek(t) \/ jitDequeue(t)
    PROVE  Watchful'
<1> USE DEF hostVars, histVars, goto
<1>1. SUFFICES ASSUME ~tainted', ~config'.slow
               PROVE  /\ host' = "enqueue" => asked'.time = now'
                      /\ \A s \in Threads :
                            /\ pc'[s] \in {"peek", "dequeue"} => sight'[s].time = now'
                            /\ pc'[s] = "dequeue" => Peeked(s)'
  BY DEF Watchful
<1>2. /\ UNCHANGED <<config, host, asked, on, now, tainted>>
      /\ pc[t] \in {"time", "peek", "dequeue"}
  BY DEF jitTime, jitPeek, jitDequeue, radioVars
<1>3. ~tainted /\ ~config.slow
  BY <1>1, <1>2
<1>4. host' = "enqueue" => asked'.time = now'
  BY <1>2, <1>3 DEF Watchful
<1>5. ASSUME NEW s \in Threads, s # t PROVE pc'[s] \notin {"peek", "dequeue"}
  <2>1. pc'[s] = pc[s]
    BY <1>5 DEF jitTime, jitPeek, jitDequeue, IInv, ThreadsTyped
  <2> QED
    BY <1>2, <1>3, <1>5, <2>1, OneJit
<1>6. /\ pc'[t] \in {"peek", "dequeue"} => sight'[t].time = now'
      /\ pc'[t] = "dequeue" => Peeked(t)'
  <2>1. CASE jitTime(t)
    <3>1. on
      BY <1>2, <1>3, <2>1 DEF Steady, live, jitTime
    <3>2. pc'[t] = "peek"
      BY <2>1 DEF jitTime, IInv, ThreadsTyped
    <3>3. PICK c \in Count :
              counterRead(c) /\ sight' = [sight EXCEPT ![t] = [NoSight EXCEPT !.time = c]]
      BY <2>1 DEF jitTime
    <3>4. c = now
      BY <3>1, <3>3 DEF counterRead
    <3>5. sight'[t] = [NoSight EXCEPT !.time = c]
      BY <3>3 DEF DataTyped
    <3>6. sight'[t].time = now
      BY <3>4, <3>5 DEF NoSight
    <3> QED
      BY <1>2, <3>2, <3>6
  <2>2. CASE jitPeek(t)
    <3> DEFINE p == jit_peek(jit, now)
               q == CHOOSE n \in nodeAt(p.queue, p.index) : TRUE
    <3>1. sight[t].time = now /\ pc[t] = "peek"
      BY <1>3, <2>2 DEF Watchful, jitPeek
    <3>2. /\ jit' = p.queue
          /\ sight' = [sight EXCEPT ![t].index = p.index,
                                    ![t].node = IF p.index = -1 THEN NoNode ELSE q]
          /\ passed' = passed \cup {n.pkt : n \in p.passed}
          /\ pc' = [pc EXCEPT ![t] = IF p.index = -1 THEN "loop" ELSE "dequeue"]
      BY <2>2, <3>1 DEF jitPeek
    <3>3. sight[t] \in Sights /\ sight \in [Threads -> Sights]
      BY DEF DataTyped
    <3> HIDE DEF p, q
    <3>4. /\ sight'[t].time = now /\ sight'[t].index = p.index
          /\ p.index # -1 => sight'[t].node = q
      BY <3>1, <3>2, <3>3 DEF Sights
    <3>5. pc'[t] = IF p.index = -1 THEN "loop" ELSE "dequeue"
      BY <3>2 DEF IInv, ThreadsTyped
    <3>6. ASSUME p.index # -1 PROVE Peeked(t)'
      <4>1. /\ q \in p.queue /\ indexOf(p.queue, q) = p.index
            /\ \A x \in p.queue \ {q} : Sub(x.at, now) >= JitDelay \/ x \in p.passed
        BY <3>6, PeekedIsDue DEF DataTyped, p, q
      <4>2. p.index \in Nat
        <5>1. indexOf(p.queue, q) \in 0..QueueMax
          BY <3>2, IndexTyped DEF DataTyped
        <5> QED
          BY <4>1, <5>1, JitAssumption
      <4>3. \A x \in p.passed : x.pkt \in passed'
        BY <3>2
      <4>4. /\ sight'[t].node \in jit' /\ sight'[t].index \in Nat
            /\ sight'[t].index <= indexOf(jit', sight'[t].node)
        BY <3>2, <3>4, <3>6, <4>1, <4>2
      <4>5. \A x \in jit' \ {sight'[t].node} : Sub(x.at, now') >= JitDelay \/ x.pkt \in passed'
        BY <1>2, <3>2, <3>4, <3>6, <4>1, <4>3
      <4> QED
        BY <4>4, <4>5 DEF Peeked
    <3> QED
      BY <1>2, <3>4, <3>5, <3>6
  <2>3. CASE jitDequeue(t)
    <3>1. pc' = [pc EXCEPT ![t] = IF jit_dequeue(jit, sight[t].index).taken = {}
                                  THEN "loop" ELSE "transmit"]
      BY <2>3 DEF jitDequeue
    <3>2. pc'[t] \in {"loop", "transmit"}
      BY <3>1 DEF IInv, ThreadsTyped
    <3> QED
      BY <3>2
  <2> QED
    BY <2>1, <2>2, <2>3
<1> QED
  BY <1>4, <1>5, <1>6

\* A downlink is queued behind the packet that was peeked, or before it and not due.
LEMMA EnqueueWatch ==
    ASSUME IInv, DataTyped, DataTyped', Watchful, enqueue
    PROVE  Watchful'
<1> USE DEF threadVars, radioVars
<1> DEFINE n == asked.node
<1>1. /\ UNCHANGED <<config, tainted, pc, sight, now, passed>>
      /\ host = "enqueue" /\ host' = "open"
      /\ \/ jit' = jit
         \/ jit' = jit_enqueue(jit, asked.time, n.pkt, n.pkt.class, n.at, n.post)
  BY DEF enqueue
<1>2. SUFFICES ASSUME ~tainted, ~config.slow, NEW t \in Threads, pc[t] = "dequeue"
               PROVE  Peeked(t)'
  <2>1. ASSUME NEW t \in Threads, ~tainted', ~config'.slow, pc'[t] \in {"peek", "dequeue"}
        PROVE  sight'[t].time = now'
    BY <1>1, <2>1 DEF Watchful
  <2> QED
    BY <1>1, <2>1 DEF Watchful
<1>3. asked.time = now /\ Peeked(t)
  BY <1>1, <1>2 DEF Watchful
<1>4. /\ now \in Count /\ n.at \in Count /\ n.post \in Nat
      /\ QueueTyped(jit) /\ QueueTyped(jit')
  BY <1>1 DEF DataTyped, Nodes
<1>5. jit \subseteq jit' /\ \A x \in jit' \ jit : Sub(x.at, now) >= JitDelay
  <2> HIDE DEF n
  <2> QED
    BY <1>1, <1>3, <1>4, EnqueuedLater
<1>6. \A p : indexOf(jit, p) <= indexOf(jit', p)
  BY <1>4, <1>5, IndexGrows
<1> DEFINE p == sight[t].node
           i == sight[t].index
<1>7. /\ p \in jit /\ i \in Nat /\ i <= indexOf(jit, p)
      /\ \A q \in jit \ {p} : Sub(q.at, now) >= JitDelay \/ q.pkt \in passed
  BY <1>3 DEF Peeked
<1>8. i <= indexOf(jit', p)
  <2>1. indexOf(jit, p) \in Nat /\ indexOf(jit', p) \in Nat
    BY <1>4, IndexTyped
  <2> HIDE DEF p, i
  <2> QED
    BY <1>6, <1>7, <2>1
<1>9. /\ p \in jit' /\ i \in Nat /\ i <= indexOf(jit', p)
      /\ \A q \in jit' \ {p} : Sub(q.at, now) >= JitDelay \/ q.pkt \in passed
  BY <1>5, <1>7, <1>8
<1> QED
  BY <1>1, <1>9 DEF Peeked

\* Every step keeps Watchful.
LEMMA NextWatchful ==
    ASSUME IInv, DataTyped, DataTyped', Steady, Watchful, [Next]_vars
    PROVE  Watchful'
<1> USE DEF hostVars, queueVars, threadVars, radioVars, histVars
<1>1. CASE UNCHANGED vars
  BY <1>1, WatchKept DEF vars
<1>2. ASSUME NEW t \in Threads, threadStep(t) PROVE Watchful'
  BY <1>2, ThreadWatch, JitWatch
<1>3. CASE tick
  <2>1. UNCHANGED <<config, host>>
    BY <1>3 DEF tick
  <2>2. SUFFICES ASSUME ~config.slow PROVE Watchful'
    BY <2>1 DEF Watchful
  <2>3. /\ host # "enqueue"
        /\ \A t \in Threads : pc[t] \in Rest
    BY <1>3, <2>2 DEF tick
  <2>4. \A t \in Threads : pc'[t] \notin {"peek", "dequeue"}
    BY <1>3, <2>3, TickMoves DEF Rest
  <2> QED
    BY <2>1, <2>3, <2>4 DEF Watchful
<1>4. CASE startThreads
  <2>1. /\ host = "starting" /\ host' = "open" /\ UNCHANGED tainted
        /\ \A t \in Threads : pc'[t] \in {"loop", pc[t]}
    BY <1>4 DEF startThreads
  <2>2. ~tainted => \A t \in Threads : pc'[t] \notin {"peek", "dequeue"}
    BY <2>1 DEF Steady, live
  <2> QED
    BY <2>1, <2>2 DEF Watchful
<1>5. CASE start \/ stop \/ startFails \/ stopSet
  <2>1. /\ UNCHANGED <<config, now, jit, pc, sight, passed, tainted>>
        /\ host' # "enqueue"
    BY <1>5 DEF start, stop, startFails, stopSet
  <2> QED
    BY <2>1, WatchKept
<1>6. CASE stopEnd
  <2>1. /\ UNCHANGED <<config, now, jit, pc, sight, passed>>
        /\ host' = "closed" /\ (tainted => tainted')
    BY <1>6 DEF stopEnd
  <2> QED
    BY <2>1, WatchKept
<1>7. ASSUME NEW p \in Packets, refuse(p) PROVE Watchful'
  BY <1>7, WatchKept DEF refuse
<1>8. ASSUME NEW p \in Packets, enqueueTxPacket(p) PROVE Watchful'
  <2>1. /\ UNCHANGED <<config, now, jit, pc, sight, passed, tainted>> /\ host = "open"
    BY <1>8 DEF enqueueTxPacket
  <2>2. ~tainted => asked'.time = now
    <3>1. PICK c \in Count : counterRead(c) /\ asked'.time = c
      BY <1>8 DEF enqueueTxPacket
    <3>2. ~tainted => on
      BY <2>1 DEF Steady
    <3> QED
      BY <3>1, <3>2 DEF counterRead
  <2>3. \A t \in Threads : Peeked(t) => Peeked(t)'
    BY <2>1 DEF Peeked
  <2> QED
    BY <2>1, <2>2, <2>3 DEF Watchful
<1> QED
  BY <1>1, <1>2, <1>3, <1>4, <1>5, <1>6, <1>7, <1>8, EnqueueWatch DEF Next, hostStep

\* Nobody but the jit thread itself leaves the place between peek and dequeue.
LEMMA DequeueStep ==
    ASSUME IInv, DataTyped, Steady, Watchful, Next, NEW t \in Threads,
           pc[t] = "dequeue", pc'[t] # pc[t], ~config.slow, ~tainted
    PROVE  jitDequeue(t)
<1> USE DEF hostVars, queueVars, threadVars, radioVars, histVars
<1>1. ~(start \/ stop \/ startFails \/ stopSet \/ stopEnd \/ enqueue)
  BY DEF start, stop, startFails, stopSet, stopEnd, enqueue
<1>2. ~(\E p \in Packets : refuse(p) \/ enqueueTxPacket(p))
  BY DEF refuse, enqueueTxPacket
<1>3. ~startThreads
  BY DEF startThreads, Steady, live
<1>4. ~tick
  BY DEF tick, Rest
<1>5. PICK s \in Threads : threadStep(s)
  BY <1>1, <1>2, <1>3, <1>4 DEF Next, hostStep
<1>6. s = t
  <2>1. \E l : pc' = [pc EXCEPT ![s] = l]
    BY <1>5 DEF threadStep, exitLoop, fetch, fetchNothing, fetchFails, fetchFrames,
       selfStop, selfStopSet, selfStopEnd, scan, jitSleep, jitTime, jitPeek, jitDequeue,
       jitTransmit, jitStatus, jitSend, goto
  <2> QED
    BY <2>1 DEF IInv, ThreadsTyped
<1>7. t[1] = "jit"
  BY DEF Steady
<1> QED
  BY <1>5, <1>6, <1>7 DEF threadStep, exitLoop, fetch, fetchNothing, fetchFails,
     fetchFrames, selfStop, selfStopSet, selfStopEnd, scan, jitSleep, jitTime, jitPeek,
     jitTransmit, jitStatus, jitSend

\* jit_dequeue() takes what was peeked, whatever happened between the two, or a
\* packet that stands before it and is not due, or was passed over.
LEMMA PeekedStep ==
    ASSUME IInv, DataTyped, Steady, Watchful, Next, NEW t \in Threads,
           pc[t] = "dequeue", pc'[t] # pc[t], ~config.slow, ~tainted
    PROVE  LET peeked == sight[t].node
               taken == sight'[t].node
           IN  \/ taken = peeked
               \/ /\ taken # NoNode /\ taken.at < peeked.at
                  /\ Sub(taken.at, now) >= JitDelay \/ taken.pkt \in passed
<1> DEFINE p == sight[t].node
           i == sight[t].index
           d == jit_dequeue(jit, i)
           n == CHOOSE x \in d.taken : TRUE
<1>1. jitDequeue(t)
  BY DequeueStep
<1>2. /\ p \in jit /\ i \in Nat /\ i <= indexOf(jit, p)
      /\ \A q \in jit \ {p} : Sub(q.at, now) >= JitDelay \/ q.pkt \in passed
  BY DEF Watchful, Peeked
<1>3. QueueTyped(jit) /\ Spaced(jit) /\ sight \in [Threads -> Sights]
  BY DEF DataTyped
<1>4. sight' = [sight EXCEPT ![t].node = IF d.taken = {} THEN NoNode ELSE n]
  BY <1>1 DEF jitDequeue
<1> HIDE DEF p, i, d, n
<1>5. d.taken # {} /\ n \in jit /\ (n = p \/ n.at < p.at)
  BY <1>2, <1>3, DequeuedBefore DEF d, n
<1>6. sight'[t].node = n
  BY <1>3, <1>4, <1>5 DEF Sights
<1>7. n # NoNode
  BY <1>3, <1>5, ListenerAssumption DEF QueueTyped
<1>8. n # p => Sub(n.at, now) >= JitDelay \/ n.pkt \in passed
  BY <1>2, <1>5
<1> QED
  BY <1>5, <1>6, <1>7, <1>8 DEF p

\* What jitRunner() dequeues is what it peeked, or what the documented race puts
\* in its place, for any number of downlinks, any delays and any counter.
THEOREM PeekedAlwaysDequeued == Spec => PeekedIsDequeued
<1> DEFINE Inv == IInv /\ DataTyped /\ Steady /\ Watchful
<1>1. Init => Inv
  BY InitIInv, InitData, InitPeeking
<1>2. Inv /\ [Next]_vars => Inv'
  BY NextIInv, NextData, NextSteady, NextWatchful
<1>3. Inv /\ [Next]_vars =>
        [\A t \in Threads :
            LET peeked == sight[t].node
                taken == sight'[t].node
            IN  pc[t] = "dequeue" /\ pc'[t] # pc[t] /\ ~config.slow /\ ~tainted =>
                    \/ taken = peeked
                    \/ /\ taken # NoNode /\ taken.at < peeked.at
                       /\ Sub(taken.at, now) >= JitDelay \/ taken.pkt \in passed]_vars
  BY PeekedStep
<1> QED
  BY <1>1, <1>2, <1>3, PTL DEF Spec, PeekedIsDequeued

----------------------------------------------------------------------------
(* From the queue to the radio                                              *)

Jitting == {"loop", "sleep", "time", "peek", "dequeue", "transmit", "send"}

\* The places of jitRunner().
JitPlaces ==
    \A t \in Threads : t[1] = "jit" => pc[t] \in {"none", "gone"} \cup Jitting

\* Nothing is queued or sent before the first start() has ended.
Unused ==
    /\ session = 0 => host = "closed"
    /\ session = 0 \/ (session = 1 /\ host = "starting") => jit = {} /\ tx = NoNode

\* A step of a thread moves no other thread.
LEMMA OthersStay ==
    ASSUME IInv, NEW t \in Threads, threadStep(t)
    PROVE  \A s \in Threads \ {t} : pc'[s] = pc[s]
<1>1. \E l : pc' = [pc EXCEPT ![t] = l]
  BY DEF threadStep, exitLoop, fetch, fetchNothing, fetchFails, fetchFrames,
     selfStop, selfStopSet, selfStopEnd, scan, jitSleep, jitTime, jitPeek, jitDequeue,
     jitTransmit, jitStatus, jitSend, goto
<1> QED
  BY <1>1 DEF IInv, ThreadsTyped

\* The steps of a jit thread are those of jitRunner().
LEMMA JitSteps ==
    ASSUME JitPlaces, NEW t \in Threads, t[1] = "jit", threadStep(t)
    PROVE  exitLoop(t) \/ jitSleep(t) \/ jitTime(t) \/ jitPeek(t) \/ jitDequeue(t)
           \/ jitTransmit(t)
<1>1. pc[t] \notin {"receive", "fail", "stopEnter", "stopWait"}
  BY DEF JitPlaces, Jitting
<1> QED
  BY <1>1 DEF threadStep, fetch, fetchNothing, fetchFails, fetchFrames, selfStop,
     selfStopSet, selfStopEnd, scan

\* What the host does to threads: start() makes new ones.
LEMMA HostLeaves ==
    ASSUME IInv,
           \/ start \/ stop \/ hostStep
           \/ \E p \in Packets : refuse(p) \/ enqueueTxPacket(p)
    PROVE  /\ \A t \in Threads : pc'[t] = pc[t] \/ pc'[t] = "loop"
           /\ ~startThreads => pc' = pc
           /\ tainted => tainted'
           /\ UNCHANGED <<sight, raced, passed>> /\ misfit \subseteq misfit'
<1> USE DEF hostVars, queueVars, threadVars, histVars
<1>1. CASE start \/ stop \/ startFails \/ stopSet
  <2>1. UNCHANGED <<pc, tainted, sight, raced, passed, misfit>>
    BY <1>1 DEF start, stop, startFails, stopSet
  <2> QED
    BY <2>1
<1>2. CASE startThreads
  BY <1>2 DEF startThreads
<1>3. CASE stopEnd
  BY <1>3 DEF stopEnd
<1>4. CASE enqueue
  BY <1>4 DEF enqueue
<1>5. CASE \E p \in Packets : refuse(p) \/ enqueueTxPacket(p)
  BY <1>5 DEF refuse, enqueueTxPacket
<1> QED
  BY <1>1, <1>2, <1>3, <1>4, <1>5 DEF hostStep

LEMMA InitUnused == Init => JitPlaces /\ Unused
BY DEF Init, JitPlaces, Unused

LEMMA NextPlaces ==
    ASSUME IInv, JitPlaces, [Next]_vars
    PROVE  JitPlaces'
<1>1. CASE UNCHANGED vars
  BY <1>1 DEF vars, threadVars, JitPlaces
<1>2. ASSUME NEW t \in Threads, threadStep(t) PROVE JitPlaces'
  <2>1. ASSUME t[1] = "jit" PROVE pc'[t] \in {"none", "gone"} \cup Jitting
    <3>1. exitLoop(t) \/ jitSleep(t) \/ jitTime(t) \/ jitPeek(t) \/ jitDequeue(t)
          \/ jitTransmit(t)
      BY <1>2, <2>1, JitSteps
    <3>2. \E l \in {"gone", "sleep", "peek", "loop", "dequeue", "transmit", "send"} :
              pc' = [pc EXCEPT ![t] = l]
      BY <3>1 DEF exitLoop, jitSleep, jitTime, jitPeek, jitDequeue, jitTransmit, jitStatus, jitSend, goto
    <3> QED
      BY <3>2 DEF IInv, ThreadsTyped, Jitting
  <2> QED
    BY <1>2, <2>1, OthersStay DEF JitPlaces
<1>3. CASE tick
  BY <1>3, TickMoves DEF JitPlaces, tick, Jitting
<1>4. CASE \/ start \/ stop \/ hostStep
           \/ \E p \in Packets : refuse(p) \/ enqueueTxPacket(p)
  BY <1>4, HostLeaves DEF JitPlaces, Jitting
<1> QED
  BY <1>1, <1>2, <1>3, <1>4 DEF Next

LEMMA NextUnused ==
    ASSUME IInv, DataTyped, Unused, [Next]_vars
    PROVE  Unused'
<1> USE DEF hostVars, queueVars, threadVars, radioVars, histVars
<1>1. CASE UNCHANGED vars
  BY <1>1 DEF vars, Unused
<1>2. ASSUME NEW t \in Threads, threadStep(t) PROVE Unused'
  <2>1. UNCHANGED <<host, session>>
    BY <1>2 DEF threadStep, exitLoop, fetch, fetchNothing, fetchFails, fetchFrames,
       selfStop, selfStopSet, selfStopEnd, scan, jitSleep, jitTime, jitPeek, jitDequeue,
       jitTransmit, jitStatus, jitSend
  <2>2. pc[t] # "none"
    BY <1>2 DEF threadStep, exitLoop, fetch, fetchNothing, fetchFails, fetchFrames,
       selfStop, selfStopSet, selfStopEnd, scan, jitSleep, jitTime, jitPeek, jitDequeue,
       jitTransmit, jitStatus, jitSend
  <2>3. t[2] <= session /\ (host = "starting" => t[2] # session) /\ t[2] \in Nat \ {0}
        /\ session \in Nat
    BY <2>2, ThreadIs, ListenerAssumption DEF IInv, Grounded, ThreadsTyped
  <2>4. ~(session = 0 \/ (session = 1 /\ host = "starting"))
    BY <2>3
  <2> QED
    BY <2>1, <2>4 DEF Unused
<1>3. CASE tick
  <2>1. UNCHANGED <<host, session, jit>> /\ tx' \in {tx, NoNode}
    BY <1>3 DEF tick
  <2> QED
    BY <2>1 DEF Unused
<1>4. CASE start
  <2>1. session \in Nat /\ session' = session + 1 /\ host' = "starting"
        /\ UNCHANGED <<jit, tx>>
    BY <1>4, ListenerAssumption DEF start, IInv, ThreadsTyped
  <2> QED
    BY <2>1 DEF Unused
<1>5. CASE startFails \/ startThreads \/ stop \/ stopSet \/ stopEnd
  <2>1. UNCHANGED <<session, jit>> /\ host # "closed" /\ host' # "starting"
    BY <1>5 DEF startFails, startThreads, stop, stopSet, stopEnd
  <2> QED
    BY <2>1 DEF Unused
<1>6. CASE enqueue
  <2>1. UNCHANGED session /\ host = "enqueue" /\ host' = "open"
    BY <1>6 DEF enqueue
  <2> QED
    BY <2>1 DEF Unused
<1>7. ASSUME NEW p \in Packets, refuse(p) \/ enqueueTxPacket(p) PROVE Unused'
  <2>1. UNCHANGED session /\ host = "open" /\ host' \in {"open", "enqueue"}
    BY <1>7 DEF refuse, enqueueTxPacket
  <2> QED
    BY <2>1 DEF Unused
<1> QED
  BY <1>1, <1>2, <1>3, <1>4, <1>5, <1>6, <1>7 DEF Next, hostStep

\* Two packets that want the radio at the same time are both known misfits.
Clear(a, b) == jit_collision_test(a, b) => {a.pkt, b.pkt} \subseteq misfit

\* What waits, what a jit thread carries to the radio, and what the radio is
\* programmed with, are clear of each other.
Apart ==
    /\ \A t \in Threads : pc[t] \in {"transmit", "send"} => sight[t].node \in Nodes
    /\ \A q \in jit :
        /\ tx # NoNode => Clear(q, tx)
        /\ \A t \in Threads : pc[t] \in {"transmit", "send"} => Clear(q, sight[t].node)
    /\ \A t \in Threads : pc[t] \in {"transmit", "send"} =>
        /\ tx # NoNode => Clear(sight[t].node, tx)
        /\ \A s \in Threads \ {t} :
            pc[s] \in {"transmit", "send"} => Clear(sight[s].node, sight[t].node)

LEMMA InitApart == Init => Apart
BY DEF Init, Apart

\* It stays so when nothing is queued, taken or sent.
LEMMA ApartKept ==
    ASSUME Apart, jit' \subseteq jit, misfit \subseteq misfit', tx' \in {tx, NoNode},
           \A t \in Threads :
               pc'[t] \in {"transmit", "send"} => pc[t] \in {"transmit", "send"} /\ sight'[t] = sight[t]
    PROVE  Apart'
BY DEF Apart, Clear

\* What jit_dequeue() takes was apart from what stays.
LEMMA DequeueApart ==
    ASSUME IInv, DataTyped, Apart, NEW t \in Threads, jitDequeue(t)
    PROVE  Apart'
<1> DEFINE i == sight[t].index
           d == jit_dequeue(jit, i)
           n == CHOOSE x \in d.taken : TRUE
<1>1. /\ jit' = d.queue
      /\ sight' = [sight EXCEPT ![t].node = IF d.taken = {} THEN NoNode ELSE n]
      /\ pc' = [pc EXCEPT ![t] = IF d.taken = {} THEN "loop" ELSE "transmit"]
      /\ UNCHANGED <<tx, misfit>> /\ pc[t] = "dequeue"
  BY DEF jitDequeue, goto, radioVars
<1>2. d.taken = nodeAt(jit, i) /\ d.queue \subseteq jit
      /\ (d.taken # {} => d.queue = jit \ d.taken)
  BY DEF jit_dequeue, nodeAt
<1> HIDE DEF d
<1>3. \A s \in Threads : s # t => sight'[s] = sight[s] /\ pc'[s] = pc[s]
  BY <1>1 DEF DataTyped, IInv, ThreadsTyped
<1>4. CASE d.taken = {}
  <2>1. pc'[t] = "loop"
    BY <1>1, <1>4 DEF IInv, ThreadsTyped
  <2> QED
    BY <1>1, <1>2, <1>3, <2>1, ApartKept
<1>5. CASE d.taken # {}
  <2>1. n \in d.taken
    BY <1>5
  <2> HIDE DEF n
  <2>2. n \in jit /\ n \in Nodes /\ n \notin jit'
    BY <1>1, <1>2, <1>5, <2>1 DEF DataTyped, QueueTyped, nodeAt
  <2>3. sight'[t].node = n
    BY <1>1, <1>5 DEF DataTyped, Sights
  <2>4. \A q \in jit' : ~jit_collision_test(q, n)
    BY <1>1, <1>2, <2>2 DEF DataTyped, Spaced
  <2>5. /\ tx # NoNode => Clear(n, tx)
        /\ \A s \in Threads : s # t /\ pc'[s] \in {"transmit", "send"} => Clear(n, sight'[s].node)
    BY <1>3, <2>2 DEF Apart
  <2>6. \A s \in Threads : s # t /\ pc'[s] \in {"transmit", "send"} => Clear(sight'[s].node, n)
    BY <2>5, CollisionIsMutual DEF Clear
  <2>7. \A a, b : Clear(a, b)' <=> (jit_collision_test(a, b) => {a.pkt, b.pkt} \subseteq misfit)
    BY <1>1 DEF Clear
  <2>8. \A s \in Threads : pc'[s] \in {"transmit", "send"} => sight'[s].node \in Nodes
    BY <1>3, <2>2, <2>3 DEF Apart
  <2>9. ASSUME NEW q \in jit'
        PROVE  /\ tx' # NoNode => Clear(q, tx)'
               /\ \A s \in Threads : pc'[s] \in {"transmit", "send"} => Clear(q, sight[s].node)'
    BY <1>1, <1>2, <1>3, <2>3, <2>4 DEF Apart, Clear
  <2>10. ASSUME NEW s \in Threads, pc'[s] \in {"transmit", "send"}
         PROVE  /\ tx' # NoNode => Clear(sight[s].node, tx)'
                /\ \A r \in Threads \ {s} :
                     pc'[r] \in {"transmit", "send"} => Clear(sight[r].node, sight[s].node)'
    BY <1>1, <1>3, <2>3, <2>5, <2>6, <2>10 DEF Apart, Clear
  <2> QED
    BY <2>8, <2>9, <2>10 DEF Apart
<1> QED
  BY <1>4, <1>5

\* The radio is programmed with what the thread carried.
LEMMA TransmitApart ==
    ASSUME IInv, Apart, NEW t \in Threads, jitTransmit(t)
    PROVE  Apart'
<1>1. /\ \/ pc' = [pc EXCEPT ![t] = "loop"] /\ tx' \in {tx, sight[t].node}
         \/ pc' = [pc EXCEPT ![t] = "send"] /\ tx' = tx
      /\ pc[t] \in {"transmit", "send"}
      /\ UNCHANGED <<jit, sight, misfit>>
  BY DEF jitTransmit, jitStatus, jitSend, goto, queueVars, radioVars, histVars
<1>2. CASE pc' = [pc EXCEPT ![t] = "loop"] /\ tx' \in {tx, sight[t].node}
  <2>1. \A s \in Threads : pc'[s] = IF s = t THEN "loop" ELSE pc[s]
    BY <1>2 DEF IInv, ThreadsTyped
  <2> QED
    BY <1>1, <1>2, <2>1 DEF Apart, Clear
<1>3. CASE pc' = [pc EXCEPT ![t] = "send"] /\ tx' = tx
  <2>1. \A s \in Threads : pc'[s] \in {"transmit", "send"} => pc[s] \in {"transmit", "send"}
    BY <1>1, <1>3 DEF IInv, ThreadsTyped
  <2> QED
    BY <1>1, <1>3, <2>1 DEF Apart, Clear
<1> QED
  BY <1>1, <1>2, <1>3

\* Whatever is queued over packets in flight is a misfit, and so are they.
LEMMA EnqueueApart ==
    ASSUME DataTyped, Apart, enqueue
    PROVE  Apart'
<1> DEFINE n == asked.node
           Q == IF Cardinality(jit) = QueueMax THEN jit
                ELSE jit_enqueue(jit, asked.time, n.pkt, n.pkt.class, n.at, n.post)
<1>1. /\ jit' = Q
      /\ misfit' = misfit \cup UNION {misfits(q, asked.time) : q \in Q \ jit}
      /\ UNCHANGED <<pc, sight, tx>>
  BY DEF enqueue, threadVars, radioVars
<1> HIDE DEF n, Q
<1>2. ASSUME NEW q \in jit' \ jit, NEW x \in inFlight
      PROVE  jit_collision_test(q, x) => {q.pkt, x.pkt} \subseteq misfit'
  <2>1. misfits(q, asked.time) \subseteq misfit'
    BY <1>1, <1>2
  <2>2. jit_collision_test(q, x) => {q.pkt, x.pkt} \subseteq misfits(q, asked.time)
    BY <1>2 DEF misfits
  <2> QED
    BY <2>1, <2>2
<1>3. /\ tx # NoNode => tx \in inFlight
      /\ \A t \in Threads : pc[t] \in {"transmit", "send"} => sight[t].node \in inFlight
  BY ListenerAssumption DEF inFlight, Apart
<1>4. misfit \subseteq misfit'
  BY <1>1
<1>5. ASSUME NEW q \in jit'
      PROVE  /\ tx' # NoNode => Clear(q, tx)'
             /\ \A s \in Threads : pc'[s] \in {"transmit", "send"} => Clear(q, sight[s].node)'
  BY <1>1, <1>2, <1>3, <1>4 DEF Apart, Clear
<1>6. ASSUME NEW s \in Threads, pc'[s] \in {"transmit", "send"}
      PROVE  /\ sight'[s].node \in Nodes
             /\ tx' # NoNode => Clear(sight[s].node, tx)'
             /\ \A r \in Threads \ {s} :
                   pc'[r] \in {"transmit", "send"} => Clear(sight[r].node, sight[s].node)'
  BY <1>1, <1>4, <1>6 DEF Apart, Clear
<1> QED
  BY <1>5, <1>6 DEF Apart

LEMMA NextApart ==
    ASSUME IInv, DataTyped, Apart, [Next]_vars
    PROVE  Apart'
<1> USE DEF hostVars, queueVars, threadVars, radioVars, histVars
<1>1. CASE UNCHANGED vars
  BY <1>1, ApartKept DEF vars
<1>2. ASSUME NEW t \in Threads, threadStep(t), ~jitDequeue(t), ~jitTransmit(t)
      PROVE  Apart'
  <2>1. \E l \in {"gone", "receive", "sleep", "fail", "loop", "stopEnter", "stopWait",
                  "scanning", "peek", "dequeue"} : pc' = [pc EXCEPT ![t] = l]
    <3>1. jitPeek(t) => \E l \in {"loop", "dequeue"} : pc' = [pc EXCEPT ![t] = l]
      BY DEF jitPeek, goto
    <3>2. selfStop(t) => \E l \in {"gone", "stopEnter"} : pc' = [pc EXCEPT ![t] = l]
      BY DEF selfStop, goto
    <3> QED
      BY <1>2, <3>1, <3>2 DEF threadStep, exitLoop, fetch, fetchNothing, fetchFails,
         fetchFrames, selfStopSet, selfStopEnd, scan, jitSleep, jitTime, goto
  <2>2. \A s \in Threads : pc'[s] \in {"transmit", "send"} => s # t /\ pc[s] \in {"transmit", "send"}
    BY <2>1 DEF IInv, ThreadsTyped
  <2>3. \A s \in Threads \ {t} : sight'[s] = sight[s]
    BY <1>2 DEF threadStep, exitLoop, fetch, fetchNothing, fetchFails, fetchFrames,
       selfStop, selfStopSet, selfStopEnd, scan, jitSleep, jitTime, jitPeek, DataTyped
  <2>4. jit' \subseteq jit
    <3>1. jitPeek(t) => jit' \subseteq jit
      BY PeekTyped DEF jitPeek, DataTyped
    <3> QED
      BY <1>2, <3>1 DEF threadStep, exitLoop, fetch, fetchNothing, fetchFails, fetchFrames,
         selfStop, selfStopSet, selfStopEnd, scan, jitSleep, jitTime
  <2>5. misfit' = misfit /\ tx' \in {tx, NoNode}
    BY <1>2 DEF threadStep, exitLoop, fetch, fetchNothing, fetchFails, fetchFrames,
       selfStop, selfStopSet, selfStopEnd, forceClose, silence, scan, jitSleep, jitTime, jitPeek
  <2> QED
    BY <2>2, <2>3, <2>4, <2>5, ApartKept
<1>3. CASE tick
  <2>1. UNCHANGED <<jit, sight, misfit>> /\ tx' \in {tx, NoNode}
    BY <1>3 DEF tick
  <2> QED
    BY <1>3, <2>1, TickMoves, ApartKept
<1>4. CASE (start \/ stop \/ hostStep \/ \E p \in Packets : refuse(p) \/ enqueueTxPacket(p))
           /\ ~enqueue
  <2>1. UNCHANGED jit /\ tx' \in {tx, NoNode}
    BY <1>4 DEF start, stop, hostStep, startFails, startThreads, stopSet, stopEnd,
       forceClose, silence, refuse, enqueueTxPacket
  <2> QED
    BY <1>4, <2>1, HostLeaves, ApartKept
<1> QED
  BY <1>1, <1>2, <1>3, <1>4, DequeueApart, TransmitApart, EnqueueApart DEF Next, hostStep

\* No excuse yet: the threads keep the pace, during the first start().
Calm == ~raced /\ ~tainted /\ ~config.slow /\ session = 1

\* The radio is about to send a packet, or sends it.
near(n) == Sub(n.at, now) < JitDelay \/ Sub(now, n.at) < n.post

\* jitRunner() keeps its dates: a packet in the queue is neither missed nor, once
\* the thread has looked at it, due; the packet it carries is.
OnTime ==
    Calm =>
        /\ tx # NoNode => near(tx)
        /\ \A t \in Threads : t[1] = "jit" =>
            /\ pc[t] \in Jitting =>
                \A q \in jit : q.pkt \notin passed \cup misfit =>
                    /\ Sub(q.at, now) < MaxAdvance
                    /\ pc[t] \in {"loop", "sleep", "transmit", "send"} => Sub(q.at, now) >= JitDelay
            /\ pc[t] \in {"dequeue", "transmit", "send"} => Sub(sight[t].node.at, now) < JitDelay

\* A jit thread that goes to sleep, ends, or reads the counter.
LEMMA OnTimeKept ==
    ASSUME OnTime, Calm' => Calm, UNCHANGED now, jit' \subseteq jit,
           tx' \in {tx, NoNode}, passed \subseteq passed', misfit \subseteq misfit',
           \A t \in Threads : t[1] = "jit" =>
               \/ pc'[t] = pc[t] /\ sight'[t] = sight[t]
               \/ pc'[t] \notin Jitting
               \/ pc[t] \in {"loop", "sleep", "transmit", "send"} /\ pc'[t] \in {"loop", "sleep"}
               \/ pc[t] = "time" /\ pc'[t] = "peek"
    PROVE  OnTime'
<1> SUFFICES ASSUME Calm' PROVE OnTime'
  BY DEF OnTime
<1>1. tx' # NoNode => near(tx)'
  BY DEF OnTime, near
<1>2. ASSUME NEW t \in Threads, t[1] = "jit", pc'[t] \in Jitting, NEW q \in jit',
             q.pkt \notin passed' \cup misfit'
      PROVE  /\ Sub(q.at, now') < MaxAdvance
             /\ pc'[t] \in {"loop", "sleep", "transmit", "send"} => Sub(q.at, now') >= JitDelay
  <2>1. pc[t] \in Jitting /\ q \in jit /\ q.pkt \notin passed \cup misfit
    BY <1>2 DEF Jitting
  <2>2. /\ Sub(q.at, now) < MaxAdvance
        /\ pc[t] \in {"loop", "sleep", "transmit", "send"} => Sub(q.at, now) >= JitDelay
    BY <1>2, <2>1 DEF OnTime
  <2>3. pc'[t] \in {"loop", "sleep", "transmit", "send"} => pc[t] \in {"loop", "sleep", "transmit", "send"}
    BY <1>2
  <2> QED
    BY <2>2, <2>3
<1>3. ASSUME NEW t \in Threads, t[1] = "jit", pc'[t] \in {"dequeue", "transmit", "send"}
      PROVE  Sub(sight'[t].node.at, now') < JitDelay
  BY <1>3 DEF OnTime, Jitting
<1> QED
  BY <1>1, <1>2, <1>3 DEF OnTime

\* When jit_peek() finds nothing due, only what it did not look at is due.
LEMMA NothingIsDue ==
    ASSUME NEW Q, QueueTyped(Q), NEW time \in Count, jit_peek(Q, time).index = -1
    PROVE  LET p == jit_peek(Q, time)
           IN  \A x \in p.queue : Sub(x.at, time) >= JitDelay \/ x \in p.passed
<1> DEFINE gone == {q \in earliest(Q) : outdated(time, q)}
           skipped == IF gone = {} THEN {} ELSE earliest(Q \ gone)
           kept == skipped \cup {q \in Q : ~outdated(time, q)}
           due == {q \in kept \ skipped :
                       /\ Sub(q.at, time) < JitDelay
                       /\ \A r \in kept \ skipped :
                               Sub(q.at, time) <= Sub(r.at, time)}
           first == CHOOSE q \in due : TRUE
           index == IF due = {} THEN -1 ELSE indexOf(kept, first)
           passing == {q \in skipped : Sub(q.at, time) < JitDelay}
           p == jit_peek(Q, time)
<1>1. p = [queue |-> kept, passed |-> passing, index |-> index]
  BY DEF jit_peek
<1>2. skipped \in SUBSET Q /\ kept \in SUBSET Q
  BY DEF earliest
<1>3. \A x \in kept \ skipped :
        /\ Sub(x.at, time) < JitDelay
        /\ \A r \in kept \ skipped : Sub(x.at, time) <= Sub(r.at, time)
        => x \in due
  OBVIOUS
<1>4. \A x \in skipped : Sub(x.at, time) < JitDelay => x \in passing
  OBVIOUS
<1> HIDE DEF due, kept, skipped, passing
<1>5. p.queue = kept /\ p.passed = passing /\ p.index = index
  <2> HIDE DEF index, p
  <2> QED
    BY <1>1
<1>6. due = {}
  <2>1. indexOf(kept, first) \in 0..QueueMax
    BY <1>2, PartTyped, IndexTyped
  <2> QED
    BY <1>5, <2>1, JitAssumption
<1>7. \A x \in kept : Sub(x.at, time) \in Nat
  <2>1. \A x \in kept : x.at \in Count
    BY <1>2 DEF QueueTyped, Nodes
  <2> QED
    BY <2>1, SubNat
<1>8. ASSUME NEW x \in kept, ~(Sub(x.at, time) >= JitDelay)
      PROVE  x \in passing
  <2>1. Sub(x.at, time) < JitDelay
    BY <1>7, <1>8, JitAssumption
  <2>2. SUFFICES ASSUME x \notin skipped PROVE FALSE
    BY <1>4, <2>1
  <2> DEFINE S == {Sub(y.at, time) : y \in kept \ skipped}
  <2>3. S \in SUBSET Nat /\ S # {}
    BY <1>7, <2>2
  <2>4. PICK m \in S : \A i \in S : m <= i
    <3> HIDE DEF S
    <3> QED
      BY <2>3, LeastNat
  <2>5. PICK y \in kept \ skipped : m = Sub(y.at, time)
    BY <2>4
  <2>6. \A r \in kept \ skipped : Sub(y.at, time) <= Sub(r.at, time)
    BY <2>4, <2>5
  <2>7. Sub(y.at, time) < JitDelay
    BY <1>7, <2>1, <2>2, <2>5, <2>6, JitAssumption
  <2> QED
    BY <1>3, <1>6, <2>6, <2>7
<1>9. \A x \in p.queue : Sub(x.at, time) >= JitDelay \/ x \in p.passed
  BY <1>5, <1>8
<1> QED
  BY <1>9

\* jitPeek: what is due is taken next, or there is nothing due.
LEMMA PeekOnTime ==
    ASSUME IInv, DataTyped, DataTyped', Steady, Watchful, OnTime,
           NEW t \in Threads, jitPeek(t)
    PROVE  OnTime'
<1> USE DEF hostVars, histVars, goto
<1>1. SUFFICES ASSUME Calm' PROVE OnTime'
  BY DEF OnTime
<1>2. Calm /\ UNCHANGED <<now, tx, misfit>> /\ pc[t] = "peek" /\ t[1] = "jit"
  BY <1>1 DEF Calm, jitPeek, radioVars, Steady
<1> DEFINE p == jit_peek(jit, now)
           n == CHOOSE x \in nodeAt(p.queue, p.index) : TRUE
<1>3. sight[t].time = now
  BY <1>2 DEF Watchful, Calm
<1>4. /\ jit' = p.queue
      /\ sight' = [sight EXCEPT ![t].index = p.index,
                                ![t].node = IF p.index = -1 THEN NoNode ELSE n]
      /\ passed' = passed \cup {x.pkt : x \in p.passed}
      /\ pc' = [pc EXCEPT ![t] = IF p.index = -1 THEN "loop" ELSE "dequeue"]
  BY <1>3 DEF jitPeek
<1>5. p.queue \in SUBSET jit
  BY PeekTyped DEF DataTyped
<1>6. p.index = -1 =>
        \A x \in p.queue : Sub(x.at, now) >= JitDelay \/ x \in p.passed
  BY NothingIsDue DEF DataTyped
<1>7. p.index # -1 => Sub(n.at, now) < JitDelay
  BY PeekedIsDue DEF DataTyped
<1> HIDE DEF p, n
<1>8. pc'[t] = IF p.index = -1 THEN "loop" ELSE "dequeue"
  BY <1>4 DEF IInv, ThreadsTyped
<1>9. p.index # -1 => sight'[t].node = n
  BY <1>4 DEF DataTyped, Sights
<1>10. \A s \in Threads : s # t => pc'[s] = pc[s] /\ sight'[s] = sight[s]
  BY <1>4 DEF IInv, ThreadsTyped, DataTyped
<1>11. tx' # NoNode => near(tx)'
  BY <1>2 DEF OnTime, near
<1>12. ASSUME NEW s \in Threads, s[1] = "jit", pc'[s] \in Jitting, NEW q \in jit',
              q.pkt \notin passed' \cup misfit'
       PROVE  /\ Sub(q.at, now') < MaxAdvance
              /\ pc'[s] \in {"loop", "sleep", "transmit", "send"} => Sub(q.at, now') >= JitDelay
  <2>1. pc[s] \in Jitting /\ q \in jit /\ q.pkt \notin passed \cup misfit
    BY <1>2, <1>4, <1>5, <1>10, <1>12 DEF Jitting
  <2>2. /\ Sub(q.at, now) < MaxAdvance
        /\ pc[s] \in {"loop", "sleep", "transmit", "send"} => Sub(q.at, now) >= JitDelay
    BY <1>2, <1>12, <2>1 DEF OnTime
  <2>3. q \notin p.passed
    BY <1>4, <1>12
  <2>4. s = t /\ pc'[s] \in {"loop", "sleep", "transmit", "send"} => Sub(q.at, now) >= JitDelay
    BY <1>4, <1>6, <1>8, <1>12, <2>3
  <2> QED
    BY <1>2, <1>10, <2>2, <2>4
<1>13. ASSUME NEW s \in Threads, s[1] = "jit", pc'[s] \in {"dequeue", "transmit", "send"}
       PROVE  Sub(sight'[s].node.at, now') < JitDelay
  <2>1. CASE s = t
    BY <1>2, <1>7, <1>8, <1>9, <1>13, <2>1
  <2>2. CASE s # t
    BY <1>2, <1>10, <1>13, <2>2 DEF OnTime
  <2> QED
    BY <2>1, <2>2
<1> QED
  BY <1>11, <1>12, <1>13 DEF OnTime

\* jitDequeue: unless it raced, the thread has the packet it peeked, and nothing
\* else is due.
LEMMA DequeueOnTime ==
    ASSUME IInv, DataTyped, DataTyped', Steady, Watchful, OnTime,
           NEW t \in Threads, jitDequeue(t)
    PROVE  OnTime'
<1> USE DEF hostVars, histVars, goto
<1>1. SUFFICES ASSUME Calm' PROVE OnTime'
  BY DEF OnTime
<1> DEFINE d == jit_dequeue(jit, sight[t].index)
           n == CHOOSE x \in d.taken : TRUE
           p == sight[t].node
<1>2. /\ UNCHANGED <<now, tx, misfit, passed, tainted, config, session>>
      /\ pc[t] = "dequeue" /\ t[1] = "jit"
      /\ raced' = (raced \/ d.taken # {p})
      /\ jit' = d.queue
      /\ sight' = [sight EXCEPT ![t].node = IF d.taken = {} THEN NoNode ELSE n]
      /\ pc' = [pc EXCEPT ![t] = IF d.taken = {} THEN "loop" ELSE "transmit"]
  BY DEF jitDequeue, radioVars, Steady
<1> HIDE DEF d, n, p
<1>3. Calm /\ d.taken = {p}
  BY <1>1, <1>2 DEF Calm, DataTyped
<1>4. n = p
  BY <1>3 DEF n
<1>5. d.queue = jit \ {p}
  BY <1>3 DEF d, jit_dequeue
<1>6. /\ pc'[t] = "transmit" /\ sight'[t].node = p
      /\ \A s \in Threads : s # t => pc'[s] = pc[s] /\ sight'[s] = sight[s]
  BY <1>2, <1>3, <1>4 DEF IInv, ThreadsTyped, DataTyped, Sights
<1>7. Sub(p.at, now) < JitDelay
  BY <1>2, <1>3 DEF OnTime, p
<1>8. \A q \in jit \ {p} : Sub(q.at, now) >= JitDelay \/ q.pkt \in passed
  BY <1>2, <1>3 DEF Watchful, Peeked, Calm, p
<1>9. tx' # NoNode => near(tx)'
  BY <1>2, <1>3 DEF OnTime, near
<1>10. ASSUME NEW s \in Threads, s[1] = "jit", pc'[s] \in Jitting, NEW q \in jit',
              q.pkt \notin passed' \cup misfit'
       PROVE  /\ Sub(q.at, now') < MaxAdvance
              /\ pc'[s] \in {"loop", "sleep", "transmit", "send"} => Sub(q.at, now') >= JitDelay
  <2>1. pc[s] \in Jitting /\ q \in jit \ {p} /\ q.pkt \notin passed \cup misfit
    BY <1>2, <1>5, <1>6, <1>10 DEF Jitting
  <2>2. Sub(q.at, now) < MaxAdvance
    BY <1>3, <1>10, <2>1 DEF OnTime
  <2>3. Sub(q.at, now) >= JitDelay
    BY <1>8, <2>1
  <2> QED
    BY <1>2, <2>2, <2>3
<1>11. ASSUME NEW s \in Threads, s[1] = "jit", pc'[s] \in {"dequeue", "transmit", "send"}
       PROVE  Sub(sight'[s].node.at, now') < JitDelay
  BY <1>2, <1>3, <1>6, <1>7, <1>11 DEF OnTime
<1> QED
  BY <1>9, <1>10, <1>11 DEF OnTime

\* jitTransmit: the radio is programmed with a packet that is due.
LEMMA TransmitOnTime ==
    ASSUME IInv, DataTyped, Steady, OnTime, NEW t \in Threads, jitTransmit(t)
    PROVE  OnTime'
<1> USE DEF hostVars, queueVars, histVars, goto
<1>1. /\ UNCHANGED <<jit, now, passed, misfit, sight, raced, tainted, config, session>>
      /\ pc[t] \in {"transmit", "send"} /\ t[1] = "jit"
      /\ \E l \in {"loop", "send"} : pc' = [pc EXCEPT ![t] = l]
      /\ tx' \in {tx, sight[t].node}
  BY DEF jitTransmit, jitStatus, jitSend, radioVars, Steady
<1>2. SUFFICES ASSUME Calm PROVE OnTime'
  BY <1>1 DEF OnTime, Calm
<1>3. \A s \in Threads : pc'[s] = pc[s] \/ (s = t /\ pc'[s] \in {"loop", "send"})
  BY <1>1 DEF IInv, ThreadsTyped
<1>4. tx' # NoNode => near(tx)'
  BY <1>1, <1>2 DEF OnTime, near
<1>5. ASSUME NEW s \in Threads, s[1] = "jit", pc'[s] \in Jitting, NEW q \in jit',
             q.pkt \notin passed' \cup misfit'
      PROVE  /\ Sub(q.at, now') < MaxAdvance
             /\ pc'[s] \in {"loop", "sleep", "transmit", "send"} => Sub(q.at, now') >= JitDelay
  <2>1. pc[s] \in Jitting /\ (pc'[s] = pc[s] \/ pc[s] \in {"transmit", "send"})
    BY <1>1, <1>3, <1>5 DEF Jitting
  <2> QED
    BY <1>1, <1>2, <1>5, <2>1 DEF OnTime
<1>6. ASSUME NEW s \in Threads, s[1] = "jit", pc'[s] \in {"dequeue", "transmit", "send"}
      PROVE  Sub(sight'[s].node.at, now') < JitDelay
  BY <1>1, <1>2, <1>3, <1>6 DEF OnTime
<1> QED
  BY <1>4, <1>5, <1>6 DEF OnTime

\* enqueue: what fits is neither due nor too far ahead.
LEMMA EnqueueOnTime ==
    ASSUME IInv, DataTyped, DataTyped', Watchful, OnTime, enqueue
    PROVE  OnTime'
<1> USE DEF threadVars, radioVars
<1> DEFINE n == asked.node
           Q == IF Cardinality(jit) = QueueMax THEN jit
                ELSE jit_enqueue(jit, asked.time, n.pkt, n.pkt.class, n.at, n.post)
<1>1. /\ UNCHANGED <<config, session, tainted, raced, pc, sight, now, tx, passed>>
      /\ host = "enqueue" /\ jit' = Q
      /\ misfit' = misfit \cup UNION {misfits(q, asked.time) : q \in Q \ jit}
  BY DEF enqueue
<1>2. SUFFICES ASSUME Calm PROVE OnTime'
  BY <1>1 DEF OnTime, Calm
<1>3. asked.time = now
  BY <1>1, <1>2 DEF Watchful, Calm
<1>4. /\ now \in Count /\ n.at \in Count /\ n.post \in Nat
      /\ QueueTyped(jit) /\ QueueTyped(jit')
  BY <1>1 DEF DataTyped, Nodes
<1> HIDE DEF n
<1>5. \A x \in Q \ jit : Sub(x.at, now) >= JitDelay
  BY <1>3, <1>4, EnqueuedLater
<1> HIDE DEF Q
<1>6. ASSUME NEW q \in jit' \ jit, q.pkt \notin misfit'
      PROVE  Sub(q.at, now) < MaxAdvance /\ Sub(q.at, now) >= JitDelay
  <2>1. misfits(q, asked.time) \subseteq misfit'
    BY <1>1, <1>6
  <2>2. ~outdated(now, q)
    BY <1>3, <1>6, <2>1 DEF misfits
  <2>3. Sub(q.at, now) \in Nat
    <3>1. q.at \in Count
      BY <1>4, <1>6 DEF QueueTyped, Nodes
    <3> QED
      BY <1>4, <3>1, SubNat
  <2> QED
    BY <1>1, <1>5, <1>6, <2>2, <2>3, JitAssumption DEF outdated
<1>7. tx' # NoNode => near(tx)'
  BY <1>1, <1>2 DEF OnTime, near
<1>8. ASSUME NEW s \in Threads, s[1] = "jit", pc'[s] \in Jitting, NEW q \in jit',
             q.pkt \notin passed' \cup misfit'
      PROVE  /\ Sub(q.at, now') < MaxAdvance
             /\ pc'[s] \in {"loop", "sleep", "transmit", "send"} => Sub(q.at, now') >= JitDelay
  <2>1. CASE q \in jit
    BY <1>1, <1>2, <1>8, <2>1 DEF OnTime
  <2>2. CASE q \notin jit
    BY <1>1, <1>6, <1>8, <2>2
  <2> QED
    BY <2>1, <2>2
<1>9. ASSUME NEW s \in Threads, s[1] = "jit", pc'[s] \in {"dequeue", "transmit", "send"}
      PROVE  Sub(sight'[s].node.at, now') < JitDelay
  BY <1>1, <1>2, <1>9 DEF OnTime
<1> QED
  BY <1>7, <1>8, <1>9 DEF OnTime

\* A tick: the jit thread sleeps, so nothing in the queue is due yet; the radio
\* begins, goes on, or ends.
LEMMA TickOnTime ==
    ASSUME IInv, DataTyped, JitPlaces, OnTime, tick
    PROVE  OnTime'
<1> USE DEF hostVars, queueVars, histVars
<1> DEFINE later == Add(now, 1)
<1>1. /\ UNCHANGED <<config, session, tainted, raced, jit, sight, passed, misfit>>
      /\ now' \in {now, later}
      /\ tx' = IF tx # NoNode /\ Sub(later, tx.at) = tx.post THEN NoNode ELSE tx
  BY DEF tick
<1>2. SUFFICES ASSUME Calm PROVE OnTime'
  BY <1>1 DEF OnTime, Calm
<1>3. now \in Count
  BY DEF DataTyped
<1>4. \A t \in Threads : pc[t] \in Rest
  BY <1>2 DEF tick, Calm
<1>5. \A t \in Threads : t[1] = "jit" /\ pc'[t] \in Jitting => pc[t] = "sleep" /\ pc'[t] = "time"
  <2>1. \A t \in Threads : t[1] = "jit" => pc[t] \in {"none", "gone", "sleep"}
    BY <1>4 DEF JitPlaces, Jitting, Rest
  <2>2. \A t \in Threads : t[1] = "jit" =>
            pc'[t] = IF pc[t] = "sleep" THEN "time" ELSE pc[t]
    BY DEF tick
  <2> QED
    BY <2>1, <2>2 DEF Jitting
<1>6. ASSUME tx' # NoNode PROVE near(tx)'
  <2>1. /\ tx # NoNode /\ tx' = tx /\ Sub(later, tx.at) # tx.post
        /\ tx.at \in Count /\ tx.post \in Nat \ {0}
    BY <1>1, <1>6 DEF DataTyped, Nodes
  <2>2. near(tx)
    BY <1>2, <2>1 DEF OnTime
  <2>3. /\ Sub(tx.at, now) # 0 => Sub(tx.at, later) = Sub(tx.at, now) - 1
        /\ Sub(later, tx.at) \in {0, Sub(now, tx.at) + 1}
        /\ Sub(tx.at, now) = 0 => Sub(now, tx.at) = 0
    BY <1>3, <2>1, NextInstant
  <2>4. Sub(tx.at, now) \in Nat /\ Sub(now, tx.at) \in Nat /\ JitDelay \in Nat
    BY <1>3, <2>1, SubNat, JitAssumption
  <2> HIDE DEF later
  <2>5. Sub(tx.at, later) < JitDelay \/ Sub(later, tx.at) < tx.post
    <3>1. CASE Sub(now, tx.at) < tx.post
      BY <2>1, <2>3, <2>4, <3>1
    <3>2. CASE Sub(tx.at, now) < JitDelay /\ ~(Sub(now, tx.at) < tx.post)
      <4>1. Sub(tx.at, now) # 0
        BY <2>1, <2>3, <3>2
      <4> QED
        BY <2>3, <2>4, <3>2, <4>1
    <3> QED
      BY <2>2, <3>1, <3>2 DEF near
  <2> QED
    BY <1>1, <2>1, <2>2, <2>5 DEF near
<1>7. ASSUME NEW t \in Threads, t[1] = "jit", pc'[t] \in Jitting, NEW q \in jit',
             q.pkt \notin passed' \cup misfit'
      PROVE  /\ Sub(q.at, now') < MaxAdvance
             /\ pc'[t] \in {"loop", "sleep", "transmit", "send"} => Sub(q.at, now') >= JitDelay
  <2>1. pc[t] = "sleep" /\ pc'[t] = "time"
    BY <1>5, <1>7
  <2>2. Sub(q.at, now) < MaxAdvance /\ Sub(q.at, now) >= JitDelay
    BY <1>1, <1>2, <1>7, <2>1 DEF OnTime, Jitting
  <2>3. q.at \in Count
    BY <1>1, <1>7 DEF DataTyped, QueueTyped, Nodes
  <2>4. Sub(q.at, now) \in Nat /\ JitDelay \in Nat \ {0} /\ MaxAdvance \in Nat
    BY <1>3, <2>3, SubNat, JitAssumption
  <2>5. Sub(q.at, later) = Sub(q.at, now) - 1
    BY <1>3, <2>2, <2>3, <2>4, NextInstant
  <2> HIDE DEF later
  <2>6. Sub(q.at, now') < MaxAdvance
    BY <1>1, <2>2, <2>4, <2>5
  <2> QED
    BY <2>1, <2>6
<1>8. ASSUME NEW t \in Threads, t[1] = "jit" PROVE pc'[t] \notin {"dequeue", "transmit", "send"}
  BY <1>5, <1>8 DEF Jitting
<1> QED
  BY <1>6, <1>7, <1>8 DEF OnTime

\* The first start() finds nothing and nobody.
LEMMA StartOnTime ==
    ASSUME IInv, IInv', Unused, Unused', start \/ startThreads
    PROVE  OnTime'
<1> USE DEF hostVars, queueVars, threadVars, radioVars, histVars
<1>1. SUFFICES ASSUME session' = 1 PROVE OnTime'
  BY DEF OnTime, Calm
<1>2. CASE start
  <2>1. host' = "starting" /\ pc' = pc
    BY <1>2 DEF start
  <2>2. \A t \in Threads : pc'[t] = "none"
    BY <1>1, <2>1, ThreadIs DEF IInv, Grounded
  <2> QED
    BY <1>1, <2>1, <2>2 DEF OnTime, Unused, Jitting
<1>3. CASE startThreads
  <2>1. /\ host = "starting" /\ session = 1 /\ UNCHANGED jit /\ tx' = NoNode
        /\ \A t \in Threads : pc'[t] \in {pc[t], "loop"}
    BY <1>1, <1>3 DEF startThreads, silence
  <2>2. \A t \in Threads : pc[t] = "none"
    BY <2>1, ThreadIs DEF IInv, Grounded
  <2> QED
    BY <2>1, <2>2 DEF OnTime, Unused, Jitting
<1> QED
  BY <1>2, <1>3

LEMMA NextOnTime ==
    ASSUME IInv, IInv', DataTyped, DataTyped', Steady, Watchful, JitPlaces,
           Unused, Unused', OnTime, [Next]_vars
    PROVE  OnTime'
<1> USE DEF hostVars, queueVars, threadVars, radioVars, histVars
<1>0. tainted \in BOOLEAN
  BY DEF IInv, ThreadsTyped
<1>1. CASE UNCHANGED vars
  <2>1. Calm' => Calm
    BY <1>1 DEF vars, Calm
  <2> QED
    BY <1>1, <2>1, OnTimeKept DEF vars
<1>2. ASSUME NEW t \in Threads, threadStep(t), ~jitPeek(t), ~jitDequeue(t), ~jitTransmit(t)
      PROVE  OnTime'
  <2>1. /\ UNCHANGED <<config, session, now, jit, raced, passed, misfit>>
        /\ tx' \in {tx, NoNode} /\ (tainted => tainted')
    BY <1>0, <1>2 DEF threadStep, exitLoop, fetch, fetchNothing, fetchFails, fetchFrames,
       selfStop, selfStopSet, selfStopEnd, forceClose, silence, scan, jitSleep, jitTime
  <2>2. Calm' => Calm
    BY <2>1 DEF Calm
  <2>3. \A s \in Threads \ {t} : pc'[s] = pc[s] /\ sight'[s] = sight[s]
    <3>1. \A s \in Threads \ {t} : sight'[s] = sight[s]
      BY <1>2 DEF threadStep, exitLoop, fetch, fetchNothing, fetchFails, fetchFrames,
         selfStop, selfStopSet, selfStopEnd, scan, jitSleep, jitTime, DataTyped
    <3> QED
      BY <1>2, <3>1, OthersStay
  <2>4. t[1] = "jit" =>
            \/ pc'[t] \notin Jitting
            \/ pc[t] \in {"loop", "sleep", "transmit", "send"} /\ pc'[t] \in {"loop", "sleep"}
            \/ pc[t] = "time" /\ pc'[t] = "peek"
    <3>1. t[1] = "jit" => exitLoop(t) \/ jitSleep(t) \/ jitTime(t)
      BY <1>2, JitSteps
    <3>2. exitLoop(t) => pc'[t] = "gone"
      BY DEF exitLoop, goto, IInv, ThreadsTyped
    <3>3. jitSleep(t) => pc[t] = "loop" /\ pc'[t] = "sleep"
      BY DEF jitSleep, goto, IInv, ThreadsTyped
    <3>4. jitTime(t) => pc[t] = "time" /\ pc'[t] = "peek"
      BY DEF jitTime, goto, IInv, ThreadsTyped
    <3> QED
      BY <3>1, <3>2, <3>3, <3>4 DEF Jitting
  <2> QED
    BY <2>1, <2>2, <2>3, <2>4, OnTimeKept
<1>3. CASE (start \/ stop \/ hostStep \/ \E p \in Packets : refuse(p) \/ enqueueTxPacket(p))
           /\ ~enqueue /\ ~start /\ ~startThreads
  <2>1. UNCHANGED <<config, session, now, jit>> /\ tx' \in {tx, NoNode}
    BY <1>3 DEF stop, hostStep, startFails, stopSet, stopEnd, forceClose, silence, refuse,
       enqueueTxPacket
  <2>2. /\ tainted => tainted'
        /\ UNCHANGED <<pc, sight, raced, passed>> /\ misfit \subseteq misfit'
    BY <1>3, HostLeaves
  <2>3. Calm' => Calm
    BY <2>1, <2>2 DEF Calm
  <2> QED
    BY <2>1, <2>2, <2>3, OnTimeKept
<1> QED
  BY <1>1, <1>2, <1>3, PeekOnTime, DequeueOnTime, TransmitOnTime, EnqueueOnTime,
     TickOnTime, StartOnTime DEF Next, hostStep

\* Most steps drop nothing.
LEMMA NothingDropped ==
    ASSUME DataTyped, [Next]_vars, NEW p \in Packets,
           \A t \in Threads : ~jitPeek(t) /\ ~jitDequeue(t) /\ ~jitTransmit(t),
           fate'[p] # fate[p]
    PROVE  fate'[p] \notin {"outdated", "busy", "overwritten"}
<1>1. fate \in [Packets -> Fates]
  BY DEF DataTyped
<1>2. ASSUME NEW k, NEW f \in {"refused", "queued", "aired"}, fate' = [fate EXCEPT ![k] = f]
      PROVE  fate'[p] = f
  BY <1>1, <1>2
<1>3. CASE enqueue
  <2>1. fate' = [fate EXCEPT ![asked.node.pkt] = "refused"]
        \/ fate' = [fate EXCEPT ![asked.node.pkt] = "queued"]
    <3> DEFINE n == asked.node
               Q == IF Cardinality(jit) = QueueMax THEN jit
                    ELSE jit_enqueue(jit, asked.time, n.pkt, n.pkt.class, n.at, n.post)
    <3>1. fate' = [fate EXCEPT ![asked.node.pkt] = IF Q = jit THEN "refused" ELSE "queued"]
      BY <1>3 DEF enqueue, becomes
    <3> HIDE DEF Q
    <3> QED
      BY <3>1
  <2> QED
    BY <1>2, <2>1
<1>4. CASE \E k \in Packets : refuse(k)
  BY <1>2, <1>4 DEF refuse, becomes
<1>5. CASE tick
  <2>1. UNCHANGED fate \/ fate' = [fate EXCEPT ![tx.pkt] = "aired"]
    BY <1>5 DEF tick, becomes
  <2> QED
    BY <1>2, <2>1
<1>6. CASE \/ \E t \in Threads : threadStep(t)
           \/ start \/ stop \/ startFails \/ startThreads \/ stopSet \/ stopEnd
           \/ (\E k \in Packets : enqueueTxPacket(k)) \/ UNCHANGED vars
  <2>1. UNCHANGED fate \/ silence
    BY <1>6 DEF threadStep, exitLoop, fetch, fetchNothing, fetchFails, fetchFrames,
       selfStop, selfStopSet, selfStopEnd, forceClose, scan, jitSleep, jitTime,
       start, stop, startFails, startThreads, stopSet, stopEnd, enqueueTxPacket, vars
  <2>2. silence => fate'[p] \in {"reset", fate[p]}
    BY DEF silence
  <2> QED
    BY <2>1, <2>2
<1> QED
  BY <1>3, <1>4, <1>5, <1>6 DEF Next, hostStep

\* jit_peek() misses only what was a misfit or passed over.
LEMMA PeekDrops ==
    ASSUME DataTyped, Steady, Watchful, OnTime, Calm, NEW t \in Threads, jitPeek(t),
           NEW p \in Packets, fate'[p] # fate[p]
    PROVE  p \in passed \cup misfit
<1> DEFINE q == jit_peek(jit, now)
<1>1. pc[t] = "peek" /\ t[1] = "jit" /\ sight[t].time = now
  BY DEF jitPeek, Steady, Watchful, Calm
<1>2. fate' = [k \in Packets |-> IF \E n \in jit \ q.queue : n.pkt = k THEN "outdated"
                                 ELSE fate[k]]
  BY <1>1 DEF jitPeek
<1>3. {n \in jit : ~outdated(now, n)} \subseteq q.queue
  BY DEF jit_peek
<1> HIDE DEF q
<1>4. PICK n \in jit : n.pkt = p /\ outdated(now, n)
  BY <1>2, <1>3
<1>5. ~(Sub(n.at, now) < MaxAdvance)
  <2>1. Sub(n.at, now) \in Nat
    BY SubNat DEF DataTyped, QueueTyped, Nodes
  <2> QED
    BY <1>4, <2>1, JitAssumption DEF outdated
<1> QED
  BY <1>1, <1>4, <1>5 DEF OnTime, Jitting

\* The radio refuses or forgets only misfits.
LEMMA TransmitDrops ==
    ASSUME DataTyped, Steady, Apart, OnTime, Calm, NEW t \in Threads, jitTransmit(t),
           NEW p \in Packets, fate'[p] # fate[p], fate'[p] \in {"busy", "overwritten"}
    PROVE  p \in misfit
<1> DEFINE n == sight[t].node
<1>1. pc[t] \in {"transmit", "send"} /\ t[1] = "jit"
  BY DEF jitTransmit, jitStatus, jitSend, Steady
<1>2. /\ n \in Nodes /\ now \in Count
      /\ tx # NoNode => tx \in Nodes /\ Clear(n, tx)
  BY <1>1 DEF Apart, DataTyped
<1>3. Sub(n.at, now) < JitDelay /\ (tx # NoNode => near(tx))
  BY <1>1 DEF OnTime
<1>4. ASSUME tx # NoNode, Sub(now, tx.at) < tx.post PROVE jit_collision_test(n, tx)
  BY <1>2, <1>3, <1>4, OnAirCollide, CollisionIsMutual
<1>5. ASSUME tx # NoNode, Sub(tx.at, now) < JitDelay PROVE jit_collision_test(n, tx)
  <2>1. Sub(tx.at, now) \in Nat /\ Sub(n.at, now) \in Nat
    BY <1>2, <1>5, SubNat DEF Nodes
  <2>2. Sub(tx.at, now) <= Sub(n.at, now) \/ Sub(n.at, now) <= Sub(tx.at, now)
    BY <2>1
  <2> QED
    BY <1>2, <1>3, <1>5, <2>2, DueCollide, CollisionIsMutual
<1>6. CASE jitSend(t)
  <2>1. \/ fate' = [k \in Packets |-> CASE k = n.pkt -> "scheduled"
                                        [] tx # NoNode /\ k = tx.pkt -> "overwritten"
                                        [] OTHER -> fate[k]]
        \/ fate' = [fate EXCEPT ![n.pkt] = "failed"]
    BY <1>6 DEF jitSend, becomes
  <2>2. tx # NoNode /\ p = tx.pkt
    BY <2>1 DEF DataTyped
  <2>3. jit_collision_test(n, tx)
    BY <1>3, <1>4, <1>5, <2>2 DEF near
  <2> QED
    BY <1>2, <2>2, <2>3 DEF Clear
<1>7. CASE jitStatus(t)
  <2>1. /\ emitting
        /\ fate' = [fate EXCEPT ![n.pkt] = "busy"]
    BY <1>7 DEF jitStatus, becomes
  <2>2. p = n.pkt
    BY <2>1 DEF DataTyped
  <2> QED
    BY <1>2, <1>4, <2>1, <2>2 DEF emitting, Clear
<1> QED
  BY <1>6, <1>7 DEF jitTransmit

\* What drops an accepted downlink.
LEMMA DroppedStep ==
    ASSUME DataTyped, DataTyped', Steady, Watchful, Apart, OnTime, [Next]_vars,
           NEW p \in Packets, ~config.slow, ~tainted, session = 1,
           fate'[p] # fate[p], fate'[p] \in {"outdated", "busy", "overwritten"}
    PROVE  raced' \/ p \in passed \cup misfit
<1>1. PICK t \in Threads : jitPeek(t) \/ jitDequeue(t) \/ jitTransmit(t)
  BY NothingDropped
<1>2. raced => raced'
  BY <1>1 DEF jitPeek, jitDequeue, jitTransmit, jitStatus, jitSend, histVars, DataTyped
<1>3. SUFFICES ASSUME ~raced' PROVE p \in passed \cup misfit
  OBVIOUS
<1>4. Calm
  BY <1>2, <1>3 DEF Calm, DataTyped
<1>5. CASE jitPeek(t)
  BY <1>4, <1>5, PeekDrops
<1>6. CASE jitTransmit(t)
  <2>1. fate'[p] # "outdated"
    BY <1>6 DEF jitTransmit, jitStatus, jitSend, becomes, DataTyped
  <2> QED
    BY <1>4, <1>6, <2>1, TransmitDrops
<1>7. CASE jitDequeue(t)
  <2> DEFINE d == jit_dequeue(jit, sight[t].index)
  <2>1. /\ raced' = (raced \/ d.taken # {sight[t].node})
        /\ fate' = [k \in Packets |->
                        IF \E n \in d.taken : n.pkt = k THEN "taken"
                        ELSE IF \E n \in jit \ d.queue : n.pkt = k THEN "outdated"
                        ELSE fate[k]]
    BY <1>7 DEF jitDequeue
  <2>2. d.taken # {} => jit \ d.queue \subseteq d.taken
    BY DEF jit_dequeue
  <2> HIDE DEF d
  <2>3. d.taken # {}
    BY <1>3, <2>1 DEF DataTyped
  <2> QED
    BY <2>1, <2>2, <2>3
<1> QED
  BY <1>1, <1>5, <1>6, <1>7

\* Until that race, a radio whose threads keep the pace loses no accepted downlink,
\* but for the misfits jit_enqueue() lets in and what jit_peek() passes over.
THEOREM NoDownlinkEverDropped == Spec => NoDownlinkDropped
<1> DEFINE Inv == /\ IInv /\ DataTyped /\ Steady /\ Watchful
                  /\ JitPlaces /\ Unused /\ Apart /\ OnTime
<1>1. Init => Inv
  <2>1. Init => OnTime
    BY DEF Init, OnTime, Calm
  <2> QED
    BY <2>1, InitIInv, InitData, InitPeeking, InitUnused, InitApart
<1>2. Inv /\ [Next]_vars => Inv'
  <2> SUFFICES ASSUME Inv, [Next]_vars PROVE Inv'
    OBVIOUS
  <2>1. IInv' /\ DataTyped'
    BY NextIInv, NextData
  <2>2. Steady' /\ Watchful' /\ JitPlaces' /\ Unused' /\ Apart'
    BY <2>1, NextSteady, NextWatchful, NextPlaces, NextUnused, NextApart
  <2>3. OnTime'
    BY <2>1, <2>2, NextOnTime
  <2> QED
    BY <2>1, <2>2, <2>3
<1>3. Inv /\ [Next]_vars =>
        [\A p \in Packets :
            /\ ~config.slow /\ ~tainted /\ session = 1
            /\ fate'[p] # fate[p]
            /\ fate'[p] \in {"outdated", "busy", "overwritten"}
            => raced' \/ p \in passed \cup misfit]_vars
  <2> SUFFICES ASSUME Inv, [Next]_vars, NEW p \in Packets, ~config.slow, ~tainted,
                      session = 1, fate'[p] # fate[p],
                      fate'[p] \in {"outdated", "busy", "overwritten"}
               PROVE  raced' \/ p \in passed \cup misfit
    OBVIOUS
  <2> QED
    BY NextData, DroppedStep
<1> QED
  BY <1>1, <1>2, <1>3, PTL DEF Spec, NoDownlinkDropped
=============================================================================
