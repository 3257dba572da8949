------------------------ MODULE LoraGatewayListener ------------------------
(***************************************************************************)
(* A LoRa concentrator on a USB port (gw-dev/usb/rak2287.cpp) and the        *)
(* gateway socket that owns it (task-usb-socket.cpp).                        *)
(*                                                                         *)
(* The host is the dispatcher's loop: it opens and closes the socket and     *)
(* writes downlinks to it.  start() creates one thread of each kind.  The    *)
(* kinds are "upstream" (fetches frames), "jit" (sends what is due) and      *)
(* "scan" (spectral scan); each says that it runs with a flag of its own.    *)
(* The beacon's thread returns at once, because nothing ever sets            *)
(* gpsEnabled, and leaves its flag set; the two GPS threads are never        *)
(* created, for the same reason.                                             *)
(*                                                                         *)
(* Threads are numbered by the start() that created them.  A tick is the     *)
(* period of the jit thread (JIT_DELAY), and the concentrator's counter      *)
(* counts ticks.                                                            *)
(***************************************************************************)
EXTENDS JitQueue, Sequences

CONSTANTS
    Packets,    \* downlinks: [id, class, post, valid]
    Advances,   \* how far in the future a class A downlink may be asked for
    StartCounts, \* bound: the counter when the first downlink may arrive
    Garbage,    \* bound: what an uninitialized counter may hold
    Configs,    \* Settings of a run, with some of its bounds
    MaxStarts,  \* bound: calls of start()
    MaxFetches, \* bound: fetches that return frames
    Nobody, NoNode

Kinds == {"upstream", "jit", "scan"}
Threads == Kinds \X (1..MaxStarts)
Nodes == [pkt : Packets, at : Count, post : Nat \ {0}]
Settings == [noSend : BOOLEAN, noBeacon : BOOLEAN, scan : BOOLEAN, slow : BOOLEAN,
             errors : BOOLEAN, starts : 1..MaxStarts, packets : SUBSET Packets,
             advances : SUBSET Advances]

ASSUME ListenerAssumption ==
    /\ Nobody \notin Threads /\ NoNode \notin Nodes
    /\ Packets \subseteq [id : STRING, class : {"A", "B", "C"}, post : Nat \ {0},
                          valid : BOOLEAN]
    /\ Advances \subseteq Int /\ StartCounts \cup Garbage \subseteq Count
    /\ MaxStarts \in Nat /\ MaxFetches \in Nat
    /\ Configs \subseteq Settings

VARIABLES
    config,     \* chosen once: settings of the gateway and of the instance
    host,       \* where the host is
    asked,      \* its downlink between the counter's reading and the queue
    session,    \* calls of start() so far
    stopRequest, flag, pc,
    mLGW,       \* who holds the mutex of the concentrator
    outcome,    \* what the last stop() returned; the code has one number for
                \* "timeout" and "unstopped"
    on,         \* the concentrator runs
    now,        \* its counter
    jit,        \* the just-in-time queue
    sight,      \* what a jit thread has read: time, index, node
    tx,         \* what the radio is programmed with
    fate,       \* history: what became of each packet
    fetches,    \* fetches that returned frames, so far
    tainted,    \* history: a stop() gave up on a running thread, or a fetch failed
    raced,      \* history: the queue was reordered between a peek and its dequeue
    passed,     \* history: packets that were due and not looked at
    misfit      \* history: packets accepted although they did not fit, and the
                \* ones they were accepted over

threadVars == <<stopRequest, flag, pc, mLGW>>
hostVars == <<config, host, session, outcome>>
queueVars == <<asked, jit, sight>>
radioVars == <<on, now, tx>>
histVars == <<tainted, raced, passed, misfit>>
vars == <<hostVars, queueVars, threadVars, radioVars, fate, fetches, histVars>>

NoSight == [time |-> 0, index |-> -1, node |-> NoNode]

\* A caller of stop() is between its parts "stopEnter" and "stopWait".
Rest == {"none", "gone", "sleep", "stopWait"}

TypeOK ==
    /\ config \in Configs
    /\ host \in {"closed", "starting", "open", "broken", "enqueue",
                 "stopEnter", "stopWait"}
    /\ asked \in {NoNode} \cup [node : Nodes, time : Count]
    /\ session \in 0..MaxStarts
    /\ stopRequest \in BOOLEAN
    /\ flag \in [Kinds \cup {"beacon"} -> BOOLEAN]
    /\ pc \in [Threads -> Rest \cup {"loop", "receive", "fail", "stopEnter",
                                     "time", "peek", "dequeue", "transmit",
                                     "send", "lock", "scanning"}]
    /\ mLGW \in Threads \cup {Nobody}
    /\ outcome \in {"none", "ok", "timeout", "unstopped", "refused"}
    /\ on \in BOOLEAN
    /\ now \in Count
    /\ jit \subseteq Nodes /\ Cardinality(jit) <= QueueMax
    /\ sight \in [Threads -> [time : Count, index : -1..QueueMax,
                              node : Nodes \cup {NoNode}]]
    /\ tx \in Nodes \cup {NoNode}
    /\ fate \in [Packets -> {"none", "refused", "queued", "taken", "scheduled",
                             "aired", "outdated", "busy", "failed",
                             "overwritten", "reset"}]
    /\ fetches \in 0..MaxFetches
    /\ tainted \in BOOLEAN /\ raced \in BOOLEAN
    /\ passed \subseteq Packets /\ misfit \subseteq Packets

Init ==
    /\ config \in Configs
    /\ host = "closed" /\ asked = NoNode /\ session = 0
    /\ stopRequest = FALSE
    /\ flag = [k \in Kinds \cup {"beacon"} |-> FALSE]
    /\ pc = [t \in Threads |-> "none"]
    /\ mLGW = Nobody
    /\ outcome = "none"
    /\ on = FALSE
    /\ now = 0
    /\ jit = {} /\ sight = [t \in Threads |-> NoSight]
    /\ tx = NoNode
    /\ fate = [p \in Packets |-> "none"]
    /\ fetches = 0
    /\ tainted = FALSE /\ raced = FALSE /\ passed = {} /\ misfit = {}

live == {t \in Threads : pc[t] \notin {"none", "gone"}}

isStopped == \A k \in DOMAIN flag : ~flag[k]

goto(t, label) == pc' = [pc EXCEPT ![t] = label]

\* std::lock_guard on mLGW for the length of a step
lgwFree == mLGW = Nobody

becomes(p, f) == fate' = [fate EXCEPT ![p] = f]

\* The radio forgets what it was programmed with.
silence ==
    /\ tx' = NoNode
    /\ fate' = [p \in Packets |-> IF fate[p] = "scheduled" THEN "reset"
                                  ELSE fate[p]]

----------------------------------------------------------------------------
(* start(), called by openSocket()                                          *)

start ==
    /\ host = "closed"
    /\ session < config.starts
    /\ host' = "starting"
    /\ session' = session + 1
    /\ stopRequest' = FALSE
    /\ UNCHANGED <<config, outcome, queueVars, flag, pc, mLGW, radioVars, fate,
                   fetches, histVars>>

\* setup(), lgw_start() or lgw_get_eui() fails; the last one leaves the
\* concentrator on.
startFails ==
    /\ host = "starting"
    /\ host' = "broken"
    /\ on' \in {on, TRUE}
    /\ UNCHANGED <<config, session, outcome, queueVars, threadVars, now, tx,
                   fate, fetches, histVars>>

\* A thread is created unless the flag of its kind is set already.  The flags of
\* the kinds that are switched off are cleared, but the one of the spectral scan.
startThreads ==
    LET wanted == {"upstream"} \cup (IF config.noSend THEN {} ELSE {"jit"})
                               \cup (IF config.scan THEN {"scan"} ELSE {})
    IN  /\ host = "starting"
        /\ host' = "open"
        /\ on' = TRUE
        /\ silence
        /\ now' \in StartCounts
        /\ pc' = [t \in Threads |->
                    IF t[1] \in wanted /\ t[2] = session /\ ~flag[t[1]]
                    THEN "loop" ELSE pc[t]]
        /\ flag' = [k \in DOMAIN flag |->
                        CASE k = "beacon" -> ~config.noBeacon
                          [] k = "scan" -> config.scan \/ flag[k]
                          [] OTHER -> k \in wanted]
        /\ UNCHANGED <<config, session, outcome, queueVars, stopRequest, mLGW,
                       fetches, histVars>>

----------------------------------------------------------------------------
(* stop(), called by closeSocket() on the host's thread and by the upstream  *)
(* thread when a fetch fails                                                *)

\* if (stopRequest) return
stop ==
    /\ host \in {"open", "broken"}
    /\ host' = IF stopRequest THEN "closed" ELSE "stopEnter"
    /\ outcome' = IF stopRequest THEN "refused" ELSE outcome
    /\ UNCHANGED <<config, session, queueVars, threadVars, radioVars, fate,
                   fetches, histVars>>

stopSet ==
    /\ host = "stopEnter"
    /\ host' = "stopWait"
    /\ stopRequest' = TRUE
    /\ UNCHANGED <<config, session, outcome, queueVars, flag, pc, mLGW,
                   radioVars, fate, fetches, histVars>>

\* isStopped() is polled once a second.  The poll ends without success when a
\* thread is slow, cannot finish, or need not because start() was called again.
stopPolled(success) ==
    IF success THEN isStopped
    ELSE /\ ~isStopped
         /\ config.slow \/ ~stopRequest \/ \A t \in live : pc[t] = "stopWait"

\* lgw_stop(), without mLGW, switches the concentrator off, also when it reports
\* an error; "force close": every flag is cleared.
forceClose(closed) ==
    /\ closed \/ config.errors
    /\ on' = FALSE
    /\ silence
    /\ flag' = [k \in DOMAIN flag |-> FALSE]

\* success &= lgw_stop() == 0
stopEnd ==
    \E success, closed \in BOOLEAN :
        /\ host = "stopWait"
        /\ stopPolled(success)
        /\ forceClose(closed)
        /\ host' = "closed"
        /\ outcome' = IF ~success THEN "timeout"
                      ELSE IF closed THEN "ok" ELSE "unstopped"
        /\ tainted' = (tainted \/ (~success /\ live # {}))
        /\ UNCHANGED <<config, session, queueVars, stopRequest, pc, mLGW, now,
                       fetches, raced, passed, misfit>>

----------------------------------------------------------------------------
(* upstreamRunner()                                                         *)

\* A thread that clears its flag but stays.
exitLoop_late(t) ==
    /\ pc[t] = "loop"
    /\ stopRequest
    /\ goto(t, IF flag[t[1]] THEN "loop" ELSE "gone")
    /\ flag' = [flag EXCEPT ![t[1]] = FALSE]
    /\ UNCHANGED <<hostVars, queueVars, stopRequest, mLGW, radioVars, fate,
                   fetches, histVars>>

\* while (!stopRequest); the flag is cleared on the way out
exitLoop(t) ==
    /\ pc[t] = "loop"
    /\ stopRequest
    /\ goto(t, "gone")
    /\ flag' = [flag EXCEPT ![t[1]] = FALSE]
    /\ UNCHANGED <<hostVars, queueVars, stopRequest, mLGW, radioVars, fate,
                   fetches, histVars>>

fetch(t) ==
    /\ t[1] = "upstream" /\ pc[t] = "loop"
    /\ ~stopRequest
    /\ lgwFree
    /\ mLGW' = t
    /\ goto(t, "receive")
    /\ UNCHANGED <<hostVars, queueVars, stopRequest, flag, radioVars, fate,
                   fetches, histVars>>

\* A fetch that returns with the mutex.
fetchNothing_locked(t) ==
    /\ pc[t] = "receive" /\ on
    /\ goto(t, "sleep")
    /\ UNCHANGED <<hostVars, queueVars, stopRequest, flag, mLGW, radioVars,
                   fate, fetches, histVars>>

fetchNothing(t) ==
    /\ pc[t] = "receive" /\ on
    /\ mLGW' = Nobody
    /\ goto(t, "sleep")
    /\ UNCHANGED <<hostVars, queueVars, stopRequest, flag, radioVars, fate,
                   fetches, histVars>>

\* lgw_receive() reports an error; always when the concentrator is off.
fetchFails(t) ==
    /\ pc[t] = "receive"
    /\ config.errors \/ ~on
    /\ mLGW' = Nobody
    /\ goto(t, "fail")
    /\ tainted' = TRUE
    /\ UNCHANGED <<hostVars, queueVars, stopRequest, flag, radioVars, fate,
                   fetches, raced, passed, misfit>>

\* A batch of frames; onPushData is called for the last one, if any passed the
\* filter.
fetchFrames(t) ==
    /\ pc[t] = "receive" /\ on
    /\ fetches < MaxFetches /\ fetches' = fetches + 1
    /\ mLGW' = Nobody
    /\ goto(t, "loop")
    /\ UNCHANGED <<hostVars, queueVars, stopRequest, flag, radioVars, fate,
                   histVars>>

\* stop(0) on the thread itself, then return: the flag is left as it is, and
\* stop() can only give up.
selfStop(t) ==
    /\ pc[t] = "fail"
    /\ goto(t, IF stopRequest THEN "gone" ELSE "stopEnter")
    /\ UNCHANGED <<hostVars, queueVars, stopRequest, flag, mLGW, radioVars,
                   fate, fetches, histVars>>

selfStopSet(t) ==
    /\ pc[t] = "stopEnter"
    /\ goto(t, "stopWait")
    /\ stopRequest' = TRUE
    /\ UNCHANGED <<hostVars, queueVars, flag, mLGW, radioVars, fate, fetches,
                   histVars>>

selfStopEnd(t) ==
    \E success, closed \in BOOLEAN :
        /\ pc[t] = "stopWait"
        /\ stopPolled(success)
        /\ forceClose(closed)
        /\ goto(t, "gone")
        /\ UNCHANGED <<hostVars, queueVars, stopRequest, mLGW, now, fetches,
                       histVars>>

----------------------------------------------------------------------------
(* spectralScanRunner()                                                     *)

\* One pass, each access to the concentrator under mLGW.
scan(t) ==
    /\ t[1] = "scan"
    /\ \/ /\ pc[t] = "loop" /\ ~stopRequest
          /\ goto(t, "sleep")
          /\ UNCHANGED mLGW
       \/ /\ pc[t] = "lock" /\ lgwFree
          /\ mLGW' = t
          /\ goto(t, "scanning")
       \/ /\ pc[t] = "scanning"
          /\ mLGW' = Nobody
          /\ goto(t, "loop")
    /\ UNCHANGED <<hostVars, queueVars, stopRequest, flag, radioVars, fate,
                   fetches, histVars>>

----------------------------------------------------------------------------
(* jitRunner()                                                              *)

jitSleep(t) ==
    /\ t[1] = "jit" /\ pc[t] = "loop"
    /\ ~stopRequest
    /\ goto(t, "sleep")
    /\ UNCHANGED <<hostVars, queueVars, stopRequest, flag, mLGW, radioVars,
                   fate, fetches, histVars>>

\* lgw_get_instcnt() leaves the variable as it is when the concentrator is off.
counterRead(c) == c \in (IF on THEN {now} ELSE Garbage)

jitTime(t) ==
    \E c \in Count :
        /\ pc[t] = "time"
        /\ lgwFree
        /\ counterRead(c)
        /\ sight' = [sight EXCEPT ![t] = [NoSight EXCEPT !.time = c]]
        /\ goto(t, "peek")
        /\ UNCHANGED <<hostVars, asked, jit, stopRequest, flag, mLGW, radioVars,
                       fate, fetches, histVars>>

jitPeek(t) ==
    LET p == jit_peek(jit, sight[t].time) IN
        /\ pc[t] = "peek"
        /\ jit' = p.queue
        /\ fate' = [k \in Packets |->
                        IF \E n \in jit \ p.queue : n.pkt = k THEN "outdated"
                        ELSE fate[k]]
        /\ sight' = [sight EXCEPT ![t].index = p.index,
                                  ![t].node = IF p.index = -1 THEN NoNode ELSE
                                       CHOOSE n \in nodeAt(p.queue, p.index) : TRUE]
        /\ passed' = passed \cup {n.pkt : n \in p.passed}
        /\ goto(t, IF p.index = -1 THEN "loop" ELSE "dequeue")
        /\ UNCHANGED <<hostVars, asked, stopRequest, flag, mLGW, radioVars,
                       fetches, tainted, raced, misfit>>

\* The index is used again under a new lock.
jitDequeue(t) ==
    LET d == jit_dequeue(jit, sight[t].index) IN
        /\ pc[t] = "dequeue"
        /\ jit' = d.queue
        /\ fate' = [k \in Packets |->
                        IF \E n \in d.taken : n.pkt = k THEN "taken"
                        ELSE IF \E n \in jit \ d.queue : n.pkt = k THEN "outdated"
                        ELSE fate[k]]
        /\ raced' = (raced \/ d.taken # {sight[t].node})
        /\ sight' = [sight EXCEPT ![t].node =
                        IF d.taken = {} THEN NoNode ELSE CHOOSE n \in d.taken : TRUE]
        /\ goto(t, IF d.taken = {} THEN "loop" ELSE "transmit")
        /\ UNCHANGED <<hostVars, asked, stopRequest, flag, mLGW, radioVars,
                       fetches, tainted, passed, misfit>>

\* lgw_status(): the radio emits.
emitting == tx # NoNode /\ Sub(now, tx.at) < tx.post

\* lgw_status(), under mLGW: a packet is dropped when the radio emits.  An error
\* is only logged.
jitStatus(t) ==
    /\ pc[t] = "transmit"
    /\ lgwFree
    /\ IF on /\ emitting
       THEN becomes(sight[t].node.pkt, "busy") /\ goto(t, "loop")
       ELSE goto(t, "send") /\ UNCHANGED fate
    /\ UNCHANGED <<hostVars, queueVars, stopRequest, flag, mLGW, radioVars,
                   fetches, histVars>>

\* lgw_send(), under mLGW taken anew: the packet replaces the one the radio was
\* programmed with.  When it fails, always when the concentrator is off, the
\* packet is gone.
jitSend(t) ==
    LET n == sight[t].node IN
        /\ pc[t] = "send"
        /\ lgwFree
        /\ \/ /\ on
              /\ tx' = n
              /\ fate' = [k \in Packets |->
                              CASE k = n.pkt -> "scheduled"
                                [] tx # NoNode /\ k = tx.pkt -> "overwritten"
                                [] OTHER -> fate[k]]
           \/ /\ config.errors \/ ~on
              /\ becomes(n.pkt, "failed")
              /\ UNCHANGED tx
        /\ goto(t, "loop")
        /\ UNCHANGED <<hostVars, queueVars, stopRequest, flag, mLGW, on, now,
                       fetches, histVars>>

jitTransmit(t) == jitStatus(t) \/ jitSend(t)

----------------------------------------------------------------------------
(* enqueueTxPacket(), called by customWriteSocket() on the host's thread     *)

\* The checks that do not need the queue.  A downlink at a GPS time (class B)
\* falls through to the refusal of unknown modes even when GPS works.
refuse(p) ==
    /\ host = "open"
    /\ p \in config.packets /\ fate[p] = "none"
    /\ p.class = "B" \/ ~p.valid
    /\ becomes(p, "refused")
    /\ UNCHANGED <<hostVars, queueVars, threadVars, radioVars, fetches, histVars>>

\* The counter is read under mLGW, and the queue found not full; the reading
\* is any number when the concentrator is off.
enqueueTxPacket(p) ==
    \E c \in Count, a \in config.advances :
        /\ host = "open"
        /\ p \in config.packets /\ fate[p] = "none"
        /\ p.class # "B" /\ p.valid
        /\ p.class = "C" => a = CHOOSE x \in config.advances : TRUE
        /\ lgwFree
        /\ counterRead(c)
        /\ asked' = [time |-> c,
                     node |-> [pkt |-> p, at |-> Add(now, a), post |-> p.post]]
        /\ host' = "enqueue"
        /\ UNCHANGED <<config, session, outcome, jit, sight, threadVars,
                       radioVars, fate, fetches, histVars>>

\* Packets that have left the queue and are not on air yet, or not completely.
inFlight ==
    {n \in {tx} \cup {sight[t].node :
                t \in {u \in Threads : pc[u] \in {"transmit", "send"}}} :
        n # NoNode}

\* jit_enqueue() looks at the queue only: what is accepted may be too far ahead
\* for jit_peek(), or collide with a packet that has left the queue.
misfits(n, time) ==
    LET met == {x \in inFlight : jit_collision_test(n, x)}
    IN  IF met # {} \/ outdated(time, n)
        THEN {n.pkt} \cup {x.pkt : x \in met} ELSE {}

\* A queue that is never full.
enqueue_unbounded ==
    LET n == asked.node
        Q == jit_enqueue(jit, asked.time, n.pkt, n.pkt.class, n.at, n.post)
    IN  /\ host = "enqueue"
        /\ jit' = Q
        /\ becomes(n.pkt, IF Q = jit THEN "refused" ELSE "queued")
        /\ asked' = NoNode
        /\ host' = "open"
        /\ UNCHANGED <<config, session, outcome, sight, threadVars, radioVars,
                       fetches, histVars>>

\* The result is not looked at by customWriteSocket().
enqueue ==
    LET n == asked.node
        Q == IF Cardinality(jit) = QueueMax THEN jit
             ELSE jit_enqueue(jit, asked.time, n.pkt, n.pkt.class, n.at, n.post)
    IN  /\ host = "enqueue"
        /\ jit' = Q
        /\ becomes(n.pkt, IF Q = jit THEN "refused" ELSE "queued")
        /\ misfit' = misfit \cup UNION {misfits(q, asked.time) : q \in Q \ jit}
        /\ asked' = NoNode
        /\ host' = "open"
        /\ UNCHANGED <<config, session, outcome, sight, threadVars, radioVars,
                       fetches, tainted, raced, passed>>

----------------------------------------------------------------------------

\* Time passes: sleeping threads wake up, the radio emits.  Unless config.slow,
\* threads finish the work of an instant before the next tick.  The counter is
\* let stand while nothing depends on it.
tick ==
    LET later == Add(now, 1) IN
        /\ \/ config.slow
           \/ /\ \A t \in Threads : pc[t] \in Rest
              /\ host \in {"open", "closed", "broken", "stopWait"}
        /\ \/ \E t \in Threads : pc[t] = "sleep"
           \/ tx # NoNode
        /\ pc' = [t \in Threads |->
                    IF pc[t] # "sleep" THEN pc[t]
                    ELSE CASE t[1] = "upstream" -> "loop"
                           [] t[1] = "jit" -> "time"
                           [] t[1] = "scan" -> "lock"]
        /\ now' = IF on /\ (jit # {} \/ tx # NoNode) THEN later ELSE now
        /\ IF tx # NoNode /\ Sub(later, tx.at) = tx.post
           THEN /\ tx' = NoNode
                /\ becomes(tx.pkt, "aired")
           ELSE UNCHANGED <<tx, fate>>
        /\ UNCHANGED <<hostVars, queueVars, stopRequest, flag, mLGW, on, fetches,
                       histVars>>

threadStep(t) ==
    \/ exitLoop(t)
    \/ fetch(t) \/ fetchNothing(t) \/ fetchFails(t) \/ fetchFrames(t)
    \/ selfStop(t) \/ selfStopSet(t) \/ selfStopEnd(t)
    \/ scan(t)
    \/ jitSleep(t) \/ jitTime(t) \/ jitPeek(t) \/ jitDequeue(t) \/ jitTransmit(t)

hostStep == startFails \/ startThreads \/ stopSet \/ stopEnd \/ enqueue

Next ==
    \/ start \/ stop \/ hostStep
    \/ \E t \in Threads : threadStep(t)
    \/ \E p \in Packets : refuse(p) \/ enqueueTxPacket(p)
    \/ tick

Spec == Init /\ [][Next]_vars

\* The operating system schedules every thread, a call of the concentrator's
\* library returns, and time passes.
Fairness ==
    /\ \A t \in Threads : WF_vars(threadStep(t))
    /\ WF_vars(hostStep)
    /\ WF_vars(tick)

FairSpec == Spec /\ Fairness

----------------------------------------------------------------------------
(* Properties                                                               *)

\* At most one thread of a kind runs, whatever the host starts and stops, until
\* a stop() has given up on a thread or a fetch has failed: the flags are then
\* cleared over threads that are still there.
OneThreadPerKind ==
    ~tainted => \A s, t \in live : s[1] = t[1] => s = t

\* What stop() answers is true: after a success no thread of the driver is left
\* and none holds the concentrator (until the flags lied, see above), and it
\* gives up waiting only on a thread that is slow or has failed, or when the
\* beacon is enabled, whose flag nobody clears.  The same error is answered when
\* lgw_stop() fails; then, too, every thread has ended.
StopIsTruthful ==
    [][host = "stopWait" /\ host' # host =>
        /\ outcome' \in {"ok", "unstopped"} /\ ~tainted => live = {} /\ lgwFree
        /\ outcome' = "timeout" =>
                config.slow \/ ~config.noBeacon \/ tainted]_vars

\* Threads that were told to stop end, unless start() takes the request back.
StopEndsThreads == stopRequest ~> ~stopRequest \/ live = {}

\* jitRunner() unlocks the queue between jit_peek() and jit_dequeue().  It takes
\* the packet it peeked, or, after others were queued meanwhile, one that is not
\* due yet and stands before it in the array although it comes later, because the
\* counter wraps between the two; or one that was passed over when it was due.
\* It never finds the place empty, if the threads keep the pace and no older jit
\* thread is left over.
PeekedIsDequeued ==
    [][\A t \in Threads :
        LET peeked == sight[t].node
            taken == sight'[t].node
        IN  pc[t] = "dequeue" /\ pc'[t] # pc[t] /\ ~config.slow /\ ~tainted =>
                \/ taken = peeked
                \/ /\ taken # NoNode /\ taken.at < peeked.at
                   /\ Sub(taken.at, now) >= JitDelay \/ taken.pkt \in passed]_vars

\* No accepted downlink is lost to another one or to the clock: the margins of
\* jit_enqueue() keep two packets apart at the radio and leave the jit thread
\* the time to send each, as long as the threads keep the pace and that race did
\* not happen.  Lost are only: what jit_enqueue() accepts too far ahead (exactly
\* the largest advance, or any advance of an immediate downlink) and jit_peek()
\* takes for missed; what it accepts over a packet that has left the queue, or
\* that packet, which the radio forgets; and what was due behind a dropped packet
\* and not looked at.
NoDownlinkDropped ==
    [][\A p \in Packets :
        /\ ~config.slow /\ ~tainted /\ session = 1
        /\ fate'[p] # fate[p]
        /\ fate'[p] \in {"outdated", "busy", "overwritten"}
        => raced' \/ p \in passed \cup misfit]_vars

\* The end of a downlink that was accepted: on air, lost for a reason that
\* NoDownlinkDropped names, or refused by lgw_send(), which nobody repeats.
settled(p) ==
    \/ fate[p] = "aired"
    \/ fate[p] \in {"outdated", "busy", "overwritten"} /\ p \in passed \cup misfit
    \/ fate[p] = "failed" /\ config.errors

\* Every accepted downlink has been on air in the end, but for those cases, if
\* the gateway sends, keeps the pace and is not stopped.
AcceptedIsAired ==
    []<>(\/ \A p \in Packets : fate[p] \in {"none", "refused"} \/ settled(p)
         \/ raced \/ stopRequest \/ tainted \/ config.noSend \/ config.slow
         \/ session # 1)
=============================================================================
