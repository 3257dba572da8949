----------------------------- MODULE Dispatcher -----------------------------
(***************************************************************************)
(* The running dispatcher (class MessageTaskDispatcher,                     *)
(* lorawan/task/message-task-dispatcher.cpp): the threads that share the    *)
(* message queue and the control socket between them.                       *)
(*                                                                         *)
(*  - Loop, the thread of runUplink(): select() over the sockets, one       *)
(*    action per kind of ready socket and one for the timeout;              *)
(*  - one radio thread per USB gateway, which calls pushData() itself;      *)
(*    the frames of the other gateways arrive over UDP and are pushed by    *)
(*    Loop;                                                                  *)
(*  - Senders: threads and bridges that call enqueueDownlink();             *)
(*  - a host program that may call the public function                      *)
(*    isTimeProcessQueueOrSetTimer() (HostArmsTimer).                       *)
(*                                                                         *)
(* putUplink() runs under queueMutex and is one step; every other access    *)
(* to the queue is unlocked, and each container operation is a step.  The   *)
(* clock counts ticks; nothing bounds how long a thread takes, unless       *)
(* Prompt says that a tick waits for all the work of the previous one.      *)
(* Starting and stopping is DispatcherLifecycle.                            *)
(***************************************************************************)
EXTENDS Integers, Sequences

CONSTANTS
    Addrs, NoAddr, Gateways, Packets, Lsnr,     \* see MessageQueue
    NoItem, NoMeta, NoTime, NoJob,
    UsbGateways,    \* gateways on USB: radio thread and gatewaySocket entry
    Loop,           \* the dispatcher's own thread
    Senders,        \* callers of enqueueDownlink()
    Registered,     \* addresses the identity service knows
    KnownGateways,  \* gateways the gateway service lists
    Datagram,       \* control socket keeps message boundaries (UDP), or not
    HostArmsTimer,  \* the host program arms the confirmation timer
    Prompt,         \* threads are fast compared to a tick
    WaitTime,       \* 0.5 s, in ticks
    MinTimer,       \* MIN_TIMER_IN_MICROSECONDS, 9 ms, in ticks
    KeepTime,       \* 1 s: cleanupOldMessages()
    SelectTimeout,  \* DEF_TIMEOUT_SECONDS, 3 s
    MaxTime,        \* bound: last tick of the clock
    MaxReceptions,  \* bound: frames heard from gateways
    MaxEnqueues,    \* bound: calls of enqueueDownlink()
    Pinging         \* gateways whose PULL_DATA the environment delivers

ASSUME DispatcherAssumption ==
    /\ UsbGateways \subseteq Gateways
    /\ Loop \notin UsbGateways
    /\ Registered \subseteq Addrs
    /\ KnownGateways \subseteq Gateways
    /\ Pinging \subseteq Gateways
    /\ Datagram \in BOOLEAN /\ HostArmsTimer \in BOOLEAN /\ Prompt \in BOOLEAN
    /\ MinTimer \in Nat \ {0}
    /\ MinTimer <= WaitTime
    /\ KeepTime \in Nat /\ SelectTimeout \in Nat
    /\ MaxReceptions \in Nat /\ MaxEnqueues \in Nat /\ MaxTime \in Nat

VARIABLES
    uplinkMessages, downlinkMessages, timeAddr, addrTime,   \* queue
    now,            \* system_clock::now()
    control,        \* addresses written to the control socket, not yet read
    pc,             \* where each thread that pushes uplinks is
    job,            \* the reception it is pushing; of Loop also receivedTime
    pr,             \* frames whose bytes are still in the parser's result
    waitSince,      \* when Loop entered select()
    timer,          \* expiration time of the timerfd, NoTime when disarmed
    enq,            \* where each sender is in enqueueDownlink()
    bestGateway,    \* storage of the best gateway service, 0 for no entry
    bridge,         \* the last onPayload() call
    sent,           \* frames handed to gateways by the last transmission
    queuedAt,       \* history: when the device's downlink was queued
    receptions, enqueues    \* counters of the bounds

queueVars == <<uplinkMessages, downlinkMessages, timeAddr, addrTime>>
threadVars == <<pc, job, waitSince>>
outVars == <<bridge, sent>>
inputVars == <<pr, queuedAt, receptions, enqueues>>
vars == <<queueVars, threadVars, outVars, inputVars, now, control, timer, enq,
          bestGateway>>

queue == INSTANCE MessageQueue
time2ResponseAddr == INSTANCE TimeAddrSet

\* What the queue assumes of its constants.
ASSUME QueueAssumption ==
    /\ queue!MessageQueueAssumption
    /\ queue!NoKeyAssumption
    /\ queue!BestExistsAssumption

Threads == UsbGateways \cup {Loop}

\* TASK_TIME t; without a value: the beginning of time.
Epoch == 0

\* A frame with what its storage holds behind it, its report, and receivedTime.
Reception == [radioPacket : Packets, stale : SUBSET Packets,
              gatewayId : Gateways, lsnr : Lsnr, t : Nat]

\* What a thread works on: a frame, or for Loop receivedTime alone.
Job == Reception \cup [t : Nat]

idleEnqueue == [pc |-> "idle", addr |-> NoAddr, tim |-> 0, gatewayId |-> 0,
                dangling |-> FALSE]

\* dangling: the item the sender points to has been freed.
Call == [pc : {"copy", "put"}, addr : Addrs, tim : Nat,
         gatewayId : Gateways \cup {0}, dangling : BOOLEAN]

Enqueue == Call \cup {idleEnqueue}

\* Arguments of onPayload(), and what the payload bytes are: plain.
Delivery == [addr : Addrs, radioPacket : Packets, decoded : BOOLEAN,
             micMatched : BOOLEAN, plain : BOOLEAN]

TypeOK ==
    /\ queue!TypeOK
    /\ now \in Nat
    /\ control \in Seq(Addrs)
    /\ pc \in [Threads -> {"idle", "put", "announce", "confirm",
                           "sendQueue", "arm", "cleanup"}]
    /\ job \in [Threads -> Job \cup {NoJob}]
    /\ waitSince \in Nat
    /\ timer \in Nat \cup {NoTime}
    /\ enq \in [Senders -> Enqueue]
    /\ bestGateway \in [Addrs -> Gateways \cup {0}]
    /\ bridge \in Delivery \cup {NoItem}
    /\ sent \subseteq [addr : Addrs \cup {NoAddr}, gatewayId : Gateways]
    /\ pr \in SUBSET Packets
    /\ queuedAt \in [Addrs -> Nat]
    /\ receptions \in Nat /\ enqueues \in Nat

\* The server starts long after the epoch.
Init ==
    /\ queue!Init
    /\ now = WaitTime
    /\ control = <<>>
    /\ pc = [t \in Threads |-> "idle"]
    /\ job = [t \in Threads |-> NoJob]
    /\ waitSince = now
    /\ timer = NoTime
    /\ enq = [s \in Senders |-> idleEnqueue]
    /\ bestGateway = [a \in Addrs |-> 0]
    /\ bridge = NoItem
    /\ sent = {}
    /\ pr = {}
    /\ queuedAt = [a \in Addrs |-> 0]
    /\ receptions = 0 /\ enqueues = 0

----------------------------------------------------------------------------
(* Uplinks: pushData() of a radio thread or of Loop.                        *)

\* A thread returns from pushData(); Loop enters select() again.
return(t) ==
    /\ pc' = [pc EXCEPT ![t] = "idle"]
    /\ job' = [job EXCEPT ![t] = NoJob]
    /\ waitSince' = IF t = Loop THEN now ELSE waitSince

\* pushData() is called with a frame.  The time of reception is taken here,
\* before any lock, and queueMutex may be given to a thread that came later.
receive(t, gwId, pkt, stale, lsnr) ==
    /\ pc[t] = "idle"
    /\ receptions < MaxReceptions
    /\ receptions' = receptions + 1
    /\ pc' = [pc EXCEPT ![t] = "put"]
    /\ job' = [job EXCEPT ![t] = [radioPacket |-> pkt, stale |-> stale,
                                  gatewayId |-> gwId, lsnr |-> lsnr, t |-> now]]
    /\ UNCHANGED <<queueVars, outVars, waitSince, now, control, timer, enq,
                   bestGateway, queuedAt, enqueues>>

\* The radio thread of a USB gateway has a frame from its concentrator, in a
\* storage of its own that was zero.
onPushData(t, pkt, lsnr) ==
    /\ t \in UsbGateways
    /\ receive(t, t, pkt, {}, lsnr)
    /\ UNCHANGED pr

\* What the parser's result holds behind a frame it parses.
longer(pkt) == {q \in pr : q.size > pkt.size}

\* Loop reads the PUSH_DATA datagram of another gateway.  All of them are parsed
\* into one result, which lives as long as runUplink().
readPushData(gwId, pkt, lsnr) ==
    /\ gwId \notin UsbGateways
    /\ receive(Loop, gwId, pkt, longer(pkt), lsnr)
    /\ pr' = {pkt} \cup longer(pkt)

\* queue.putUplink() under queueMutex.
put(t) ==
    /\ pc[t] = "put"
    /\ queue!putUplink(job[t].t, job[t].gatewayId, job[t].radioPacket,
                       job[t].stale, job[t].lsnr)
    /\ pc' = [pc EXCEPT ![t] = "announce"]
    /\ UNCHANGED <<outVars, inputVars, job, waitSince, now, control, timer, enq,
                   bestGateway>>

\* send2uplink() that announces only what the queue does not hold.
announce_onlyNew(t) ==
    LET pkt == job[t].radioPacket
    IN  /\ pc[t] = "announce"
        /\ control' = IF queue!isNew(pkt, job[t].stale) THEN Append(control, pkt.addr) ELSE control
        /\ IF pkt.confirmed
           THEN /\ pc' = [pc EXCEPT ![t] = "confirm"]
                /\ UNCHANGED <<job, waitSince>>
           ELSE return(t)
        /\ UNCHANGED <<queueVars, outVars, inputVars, now, timer, enq, bestGateway>>

\* send2uplink(): the address goes to the control socket, whether or not the
\* frame was new, merged or dropped.
announce(t) ==
    LET pkt == job[t].radioPacket
    IN  /\ pc[t] = "announce"
        /\ control' = Append(control, pkt.addr)
        /\ IF pkt.confirmed
           THEN /\ pc' = [pc EXCEPT ![t] = "confirm"]
                /\ UNCHANGED <<job, waitSince>>
           ELSE return(t)
        /\ UNCHANGED <<queueVars, outVars, inputVars, now, timer, enq, bestGateway>>

\* prepareSendConfirmation(): the address joins time2ResponseAddr.  No timer
\* is set.
prepareSendConfirmation(t) ==
    /\ pc[t] = "confirm"
    /\ time2ResponseAddr!push(job[t].radioPacket.addr, job[t].t)
    /\ return(t)
    /\ UNCHANGED <<uplinkMessages, downlinkMessages, outVars, inputVars, now,
                   control, timer, enq, bestGateway>>

----------------------------------------------------------------------------
(* Loop: the control socket.                                                *)

\* matchMic(): mic() looks for the code, and mic(key) computes it, as if a frame
\* had no options (fopts also stands for a port without a payload, which
\* setSize() takes for a payload).  Without an identity the key is wrong.
matchMic(item) ==
    /\ item.radioPacket.addr \in Registered
    /\ ~item.plain
    /\ ~item.radioPacket.fopts

\* sendPayloadOverBridge() that deciphers before it checks the integrity code.
sendPayloadOverBridge_micLast(addr) ==
    LET item == uplinkMessages[addr]
        pkt == item.radioPacket
        plain == pkt.payload # item.plain
    IN  /\ uplinkMessages' = [uplinkMessages EXCEPT
                ![addr] = [item EXCEPT !.plain = plain, !.delivered = TRUE]]
        /\ bridge' = [addr |-> addr, radioPacket |-> pkt, decoded |-> pkt.payload,
                      micMatched |-> matchMic([item EXCEPT !.plain = plain]),
                      plain |-> addr \in Registered /\ ~item.plain]

\* sendPayloadOverBridge(): matchMic() over the bytes the item holds now, then
\* decode() of these bytes in place, then every bridge.
sendPayloadOverBridge(addr) ==
    LET item == uplinkMessages[addr]
        pkt == item.radioPacket
    IN  /\ uplinkMessages' = [uplinkMessages EXCEPT
                ![addr] = [item EXCEPT !.plain = pkt.payload # item.plain,
                                       !.delivered = TRUE]]
        /\ bridge' = [addr |-> addr, radioPacket |-> pkt, decoded |-> pkt.payload,
                      micMatched |-> matchMic(item),
                      plain |-> addr \in Registered /\ ~item.plain]

\* Loop reads the control socket.  A datagram is one address.  A stream yields
\* everything written since the last read: exactly SIZE_DEVADDR bytes are an
\* address, more than that is taken for a gateway's packet, which no parser
\* accepts.
readControl ==
    LET addr == Head(control)
    IN  /\ pc[Loop] = "idle"
        /\ control # <<>>
        /\ control' = IF Datagram THEN Tail(control) ELSE <<>>
        /\ IF (Datagram \/ Len(control) = 1) /\ queue!hasUplink(addr)
           THEN sendPayloadOverBridge(addr)
           ELSE UNCHANGED <<uplinkMessages, bridge>>
        /\ waitSince' = now
        /\ UNCHANGED <<downlinkMessages, timeAddr, addrTime, pc, job, sent,
                       inputVars, now, timer, enq, bestGateway>>

----------------------------------------------------------------------------
(* Loop: the other sockets and the timeout.                                 *)

timerDue == timer # NoTime /\ timer <= now

timeoutDue == now - waitSince >= SelectTimeout

\* sendDownlink() reaches a gateway that has pinged its socket (only the USB
\* gateways do) and that the gateway service knows.
sendDownlink(frames) ==
    sent' = {f \in frames : f.gatewayId \in UsbGateways \cap KnownGateways}

\* A PULL_DATA datagram is retransmitted to its own gateway.
pullData(g) ==
    /\ pc[Loop] = "idle"
    /\ sendDownlink({[addr |-> NoAddr, gatewayId |-> g]})
    /\ waitSince' = now
    /\ UNCHANGED <<queueVars, pc, job, bridge, inputVars, now, control, timer,
                   enq, bestGateway>>

\* The gateways a queued downlink is sent through.
route(addr) == IF downlinkMessages[addr].gatewayId # 0
               THEN {downlinkMessages[addr].gatewayId} ELSE KnownGateways

\* sendQueuedDownlinkMessages() that keeps a message no gateway has taken.
sendQueuedDownlinkMessages_keepUnsent ==
    LET out == {[addr |-> a, gatewayId |-> g] : a \in Addrs, g \in Gateways}
    IN  /\ sendDownlink({f \in out : queue!hasDownlink(f.addr)
                                     /\ f.gatewayId \in route(f.addr)})
        /\ downlinkMessages' = [a \in Addrs |->
                IF \E g \in UsbGateways : [addr |-> a, gatewayId |-> g] \in sent'
                THEN NoItem ELSE downlinkMessages[a]]

\* sendQueuedDownlinkMessages(): every message is sent, whatever its time, and
\* erased, whether or not a gateway took it.
sendQueuedDownlinkMessages ==
    LET out == {[addr |-> a, gatewayId |-> g] : a \in Addrs, g \in Gateways}
    IN  /\ sendDownlink({f \in out : queue!hasDownlink(f.addr)
                                     /\ f.gatewayId \in route(f.addr)})
        /\ downlinkMessages' = [a \in Addrs |-> NoItem]

\* Loop goes on to next without receivedTime.
wake_untimed(next) ==
    /\ pc' = [pc EXCEPT ![Loop] = next]
    /\ job' = [job EXCEPT ![Loop] = [t |-> NoTime]]

\* Loop takes receivedTime and goes on to next.
wake(next) ==
    /\ pc' = [pc EXCEPT ![Loop] = next]
    /\ job' = [job EXCEPT ![Loop] = [t |-> now]]

\* select() times out: nothing was readable for SelectTimeout.
timeout ==
    /\ pc[Loop] = "idle"
    /\ control = <<>> /\ ~timerDue
    /\ timeoutDue
    /\ sendQueuedDownlinkMessages
    /\ wake("cleanup")
    /\ UNCHANGED <<uplinkMessages, timeAddr, addrTime, bridge, waitSince,
                   inputVars, now, control, timer, enq, bestGateway>>

\* The timerfd is readable.
timerEvent ==
    /\ pc[Loop] = "idle"
    /\ timerDue
    /\ timer' = NoTime
    /\ wake("sendQueue")
    /\ UNCHANGED <<queueVars, outVars, inputVars, waitSince, now, control, enq,
                   bestGateway>>

\* sendQueue(): one address that has waited long enough.  The confirmation is
\* built for the best gateway of the item and printed; what changes is the
\* gateway of the item and the stored best gateway.
sendQueue(freed) ==
    LET addr == time2ResponseAddr!first.addr
        item == uplinkMessages[addr]
        needConfirmation == item.radioPacket.confirmed
        best == queue!bestGatewayAddress(item)
    IN  /\ pc[Loop] = "sendQueue"
        /\ time2ResponseAddr!popDue(job[Loop].t, freed)
        /\ IF item # NoItem /\ needConfirmation
           THEN /\ uplinkMessages' = [uplinkMessages EXCEPT ![addr].gatewayId = best]
                /\ bestGateway' = [bestGateway EXCEPT
                                   ![addr] = IF best # 0 THEN best ELSE @]
           ELSE UNCHANGED <<uplinkMessages, bestGateway>>
        /\ UNCHANGED <<downlinkMessages, threadVars, outVars, inputVars, now,
                       control, timer, enq>>

\* No (more) address is due.
sendQueueEnd ==
    /\ pc[Loop] = "sendQueue"
    /\ ~time2ResponseAddr!isDue(job[Loop].t)
    /\ pc' = [pc EXCEPT ![Loop] = "arm"]
    /\ UNCHANGED <<queueVars, job, waitSince, outVars, inputVars, now, control,
                   timer, enq, bestGateway>>

\* isTimeProcessQueueOrSetTimer(): nothing waits, or what waits is due now or
\* in less than MinTimer and is left to the caller.
isTimeProcessQueueOrSetTimer(time) ==
    LET d == time2ResponseAddr!waitTimeForAllGateways(time)
    IN  timer' = IF d < MinTimer THEN timer ELSE time + d

\* An end of the SA_TIMER branch that takes the queue for processed.
arm_skipped ==
    /\ pc[Loop] = "arm"
    /\ pc' = [pc EXCEPT ![Loop] = "cleanup"]
    /\ UNCHANGED <<queueVars, job, waitSince, outVars, inputVars, now, control,
                   timer, enq, bestGateway>>

\* The end of the SA_TIMER branch.
arm ==
    /\ pc[Loop] = "arm"
    /\ isTimeProcessQueueOrSetTimer(job[Loop].t)
    /\ pc' = [pc EXCEPT ![Loop] = "cleanup"]
    /\ UNCHANGED <<queueVars, job, waitSince, outVars, inputVars, now, control,
                   enq, bestGateway>>

\* cleanupOldMessages() that spares nothing.
cleanup_all ==
    /\ pc[Loop] = "cleanup"
    /\ uplinkMessages' = [a \in Addrs |-> NoItem]
    /\ return(Loop)
    /\ UNCHANGED <<downlinkMessages, timeAddr, addrTime, outVars, inputVars, now,
                   control, timer, enq, bestGateway>>

\* cleanupOldMessages(): items older than KeepTime are freed, also those a
\* sender has a pointer to.
cleanup ==
    LET since == job[Loop].t - KeepTime
        gone == queue!expired(uplinkMessages, since)
    IN  /\ pc[Loop] = "cleanup"
        /\ queue!clearOldUplinkMessages(since)
        /\ enq' = [s \in Senders |->
                IF enq[s].pc = "copy" /\ enq[s].addr \in gone
                THEN [enq[s] EXCEPT !.dangling = TRUE] ELSE enq[s]]
        /\ return(Loop)
        /\ UNCHANGED <<outVars, inputVars, now, control, timer, bestGateway>>

\* The host program calls isTimeProcessQueueOrSetTimer().
hostArms ==
    /\ HostArmsTimer
    /\ isTimeProcessQueueOrSetTimer(now)
    /\ UNCHANGED <<queueVars, threadVars, outVars, inputVars, now, control, enq,
                   bestGateway>>

----------------------------------------------------------------------------
(* enqueueDownlink() of a sender.                                           *)

\* The device has an item: the sender holds a pointer to it.  tim is what the
\* caller passes: the periodic downlink the present time, a bridge Epoch.
enqueueFind(s, addr, tim) ==
    /\ enq[s].pc = "idle"
    /\ enqueues < MaxEnqueues
    /\ queue!hasUplink(addr)
    /\ enqueues' = enqueues + 1
    /\ enq' = [enq EXCEPT ![s] = [pc |-> "copy", addr |-> addr, tim |-> tim,
                                   gatewayId |-> 0, dangling |-> FALSE]]
    /\ UNCHANGED <<queueVars, threadVars, outVars, pr, queuedAt, receptions, now,
                   control, timer, bestGateway>>

\* It has none: the identity and the gateway come from the services, or the
\* call returns an error.
enqueueLookup(s, addr, tim) ==
    /\ enq[s].pc = "idle"
    /\ enqueues < MaxEnqueues
    /\ ~queue!hasUplink(addr)
    /\ addr \in Registered
    /\ \E g \in IF bestGateway[addr] # 0 THEN {bestGateway[addr]} ELSE KnownGateways :
          enq' = [enq EXCEPT ![s] = [pc |-> "put", addr |-> addr, tim |-> tim,
                    gatewayId |-> g, dangling |-> FALSE]]
    /\ enqueues' = enqueues + 1
    /\ UNCHANGED <<queueVars, threadVars, outVars, pr, queuedAt, receptions, now,
                   control, timer, bestGateway>>

\* td = item->task.  Once the item is freed the copy is whatever is there.
enqueueCopy(s) ==
    /\ enq[s].pc = "copy"
    /\ \E a \in Addrs, g \in Gateways \cup {0} :
          /\ ~enq[s].dangling =>
                a = enq[s].addr /\ g = uplinkMessages[enq[s].addr].gatewayId
          /\ enq' = [enq EXCEPT ![s].pc = "put", ![s].addr = a, ![s].gatewayId = g]
    /\ UNCHANGED <<queueVars, threadVars, outVars, inputVars, now, control, timer,
                   bestGateway>>

\* queue.putDownlink(), without queueMutex.
enqueuePut(s) ==
    /\ enq[s].pc = "put"
    /\ queue!putDownlink(enq[s].tim, enq[s].addr, enq[s].gatewayId)
    /\ enq' = [enq EXCEPT ![s] = idleEnqueue]
    /\ queuedAt' = IF queue!hasDownlink(enq[s].addr) THEN queuedAt
                   ELSE [queuedAt EXCEPT ![enq[s].addr] = now]
    /\ UNCHANGED <<threadVars, outVars, pr, receptions, enqueues, now, control,
                   timer, bestGateway>>

----------------------------------------------------------------------------

\* Everything that could be done at this instant is done.
settled ==
    /\ \A t \in Threads : pc[t] = "idle"
    /\ \A s \in Senders : enq[s].pc = "idle"
    /\ control = <<>> /\ ~timerDue /\ ~timeoutDue

tick ==
    /\ now < MaxTime
    /\ Prompt => settled
    /\ now' = now + 1
    /\ UNCHANGED <<queueVars, threadVars, outVars, inputVars, control, timer,
                   enq, bestGateway>>

pushStep(t) == put(t) \/ announce(t) \/ prepareSendConfirmation(t)

loopStep ==
    \/ readControl \/ timeout \/ timerEvent
    \/ \E freed \in Addrs \cup {NoAddr} : sendQueue(freed)
    \/ sendQueueEnd \/ arm \/ cleanup

senderStep(s) == enqueueCopy(s) \/ enqueuePut(s)

Next ==
    \/ \E g \in Gateways, p \in Packets, l \in Lsnr :
            onPushData(g, p, l) \/ readPushData(g, p, l)
    \/ \E t \in Threads : pushStep(t)
    \/ loopStep
    \/ \E g \in Pinging : pullData(g)
    \/ hostArms
    \/ \E s \in Senders, a \in Addrs, tim \in {now, Epoch} :
            enqueueFind(s, a, tim) \/ enqueueLookup(s, a, tim)
    \/ \E s \in Senders : senderStep(s)
    \/ tick

Spec == Init /\ [][Next]_vars

\* The operating system schedules every thread, select() reports a readable
\* socket and an expired timeout, and the clock runs.
Fairness ==
    /\ \A t \in Threads : WF_vars(pushStep(t))
    /\ WF_vars(loopStep)
    /\ \A s \in Senders : WF_vars(senderStep(s))
    /\ WF_vars(tick)

FairSpec == Spec /\ Fairness

----------------------------------------------------------------------------
(* What holds.                                                              *)

\* No uplink is forgotten in the queue: as long as the application has not got
\* it, its address is on the way to the loop, in the control socket or in the
\* hands of a thread about to write it (pushData, send2uplink, runUplink).
NoSilentLoss ==
    \A a \in Addrs : (queue!hasUplink(a) /\ ~uplinkMessages[a].delivered) =>
        \/ \E i \in 1..Len(control) : control[i] = a
        \/ \E t \in Threads : pc[t] = "announce" /\ job[t].radioPacket.addr = a

\* cleanupOldMessages() never frees an uplink the application has not got,
\* provided that the threads are fast compared to a tick (Prompt).
ErasedWasDelivered ==
    [][\A a \in Addrs : (queue!hasUplink(a) /\ ~queue!hasUplink(a)') =>
            uplinkMessages[a].delivered]_vars

\* No frame is longer.
longest(pkt) == \A q \in Packets : q.size <= pkt.size

\* A copy of a queued frame adds its report as long as the application has not
\* got the item (putUplink; decode() hides the frame from its copies, so only
\* delivered items may miss one), if nothing can show behind the frame: its
\* copies all come over USB, or no frame is longer.  Other copies may compare
\* unequal at any time, because of a longer frame that was parsed between them
\* (setLORAWAN_MESSAGE_STORAGE, UPLINK_STORAGE::operator==).
CopiesMergeUntilDelivered ==
    [][\A t \in Threads :
        LET pkt == job[t].radioPacket
            item == uplinkMessages[pkt.addr]
        IN  (/\ pc[t] = "put" /\ pc'[t] = "announce"
             /\ queue!hasUplink(pkt.addr)
             /\ item.radioPacket = pkt
             /\ ~item.delivered
             /\ \/ {job[t].gatewayId} \cup queue!heardBy(item) \subseteq UsbGateways
                \/ longest(pkt))
            => job[t].gatewayId \in queue!heardBy(uplinkMessages'[pkt.addr])]_vars

\* The first delivery of a frame of a known device gives the bridges plain text,
\* however many copies, threads and cleanups came in between, and checks the
\* integrity code over the bytes that were on the air: it matches for a good
\* frame without options, and never for one with options
\* (sendPayloadOverBridge, mic).
FirstDeliveryIsPlain ==
    [][\A a \in Registered :
        (/\ queue!hasUplink(a) /\ queue!hasUplink(a)'
         /\ ~uplinkMessages[a].delivered /\ uplinkMessages'[a].delivered)
        => /\ bridge'.addr = a
           /\ bridge'.radioPacket = uplinkMessages[a].radioPacket
           /\ bridge'.plain
           /\ bridge'.micMatched = ~uplinkMessages[a].radioPacket.fopts]_vars

\* The refinement: an item is a slot.
slot == [a \in Addrs |-> IF queue!hasUplink(a)
            THEN [frame |-> uplinkMessages[a].radioPacket,
                  heard |-> queue!heardBy(uplinkMessages[a]),
                  delivered |-> uplinkMessages[a].delivered]
            ELSE NoItem]

Slots == INSTANCE UplinkSlots WITH Frames <- Packets, Empty <- NoItem

\* An empty slot is no slot in use.
ASSUME NoSlotAssumption == NoItem \notin Slots!Slot

\* The dispatcher keeps the promise of UplinkSlots, under Prompt and with a
\* control socket that keeps message boundaries.
UplinkSlotsSpec == Slots!Spec

\* Under the fairness of the scheduler it delivers every frame that took a slot.
UplinkSlotsLive == Slots!LiveSpec

\* A downlink leaves the queue in bounded time after it was put there, whatever
\* time the caller gave it (Prompt, and no gateway pings): the loop sends only
\* when it has been left alone for SelectTimeout.  A frame heard starts that time
\* again, and so does the confirmation timer WaitTime after the address was
\* pushed; a frame and a call of enqueueDownlink() push one address at most
\* (runUplink, sendQueue, sendQueuedDownlinkMessages).
DownlinkIsTimely ==
    \A a \in Addrs : queue!hasDownlink(a) =>
        now - queuedAt[a] <=
            (MaxReceptions + MaxEnqueues) * (SelectTimeout + WaitTime)

\* The loop never forgets an address that waits since a present time: after it
\* has handled the timer the timer is armed again for it, whatever a radio thread
\* or a sender added while the queue was processed (Prompt; sendQueue,
\* isTimeProcessQueueOrSetTimer).  An address that a bridge pushed meanwhile with
\* Epoch for its time has waited long enough and gets no timer: it stays, keeps
\* the collection closed, and every later confirmation with it.
TimerRearmed ==
    [][(pc[Loop] = "arm" /\ pc'[Loop] = "cleanup") =>
            (timer' # NoTime \/ \A e \in timeAddr : e.time = Epoch)]_vars

----------------------------------------------------------------------------
(* What the documentation says and the code does not do.                    *)

\* "decoded true- message decoded" (AppBridge::onPayload): with the right keys
\* the payload the application gets is plain.
DecodedIsPlain ==
    (bridge # NoItem /\ bridge.decoded /\ bridge.addr \in Registered) => bridge.plain

=============================================================================
