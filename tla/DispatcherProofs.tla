-------------------------- MODULE DispatcherProofs --------------------------
(***************************************************************************)
(* Proofs about Dispatcher, for any devices, gateways, frames and senders    *)
(* and any number of radio threads.                                         *)
(*                                                                         *)
(* For threads of any speed the invariant has four parts:                   *)
(*  - TypeOK;                                                                *)
(*  - JobsPush: a thread in pushData() has a whole reception in hand;        *)
(*  - the invariant of the queue's items (MessageQueueProofs), which the     *)
(*    queue's operators keep whoever calls them;                             *)
(*  - NoSilentLoss, for a control socket that keeps message boundaries.      *)
(* Fresh adds what the first delivery of an item relies on, Clean what the   *)
(* merging of copies does.                                                   *)
(*                                                                         *)
(* For threads that finish the work of an instant before the next tick      *)
(* (Prompt), PInv says that what threads carry is of this instant, and DInv  *)
(* how long ago the downlinks in the queue came.  The time a downlink's      *)
(* sender gives may be Epoch, so both count from the history queuedAt.       *)
(***************************************************************************)
EXTENDS Dispatcher, TLAPS

QP == INSTANCE MessageQueueProofs

JobsPush ==
    /\ \A t \in Threads :
        pc[t] \in {"put", "announce", "confirm"} => job[t] \in Reception
    /\ \A t \in Threads :
        pc[t] \in {"sendQueue", "arm", "cleanup"} => t = Loop /\ job[t].t \in Nat

Typed == TypeOK /\ JobsPush

----------------------------------------------------------------------------

\* What MessageQueueProofs assumes holds here.
LEMMA QueueAssumptions ==
    QP!MessageQueueAssumption /\ QP!NoKeyAssumption /\ QP!BestExistsAssumption
BY QueueAssumption
   DEF QP!MessageQueueAssumption, queue!MessageQueueAssumption,
       QP!NoKeyAssumption, queue!NoKeyAssumption,
       QP!BestExistsAssumption, queue!BestExistsAssumption,
       QP!UplinkItem, queue!UplinkItem, QP!DownlinkItem, queue!DownlinkItem,
       QP!Metadata, queue!Metadata

\* putUplink keeps the items sound.
LEMMA PutSound ==
    ASSUME QP!UplinkInv, NEW time \in Nat, NEW gwId \in Gateways,
           NEW pkt \in Packets, NEW stale \in SUBSET Packets, NEW lsnr \in Lsnr,
           queue!putUplink(time, gwId, pkt, stale, lsnr)
    PROVE  QP!UplinkInv'
<1>1. QP!putUplink(time, gwId, pkt, stale, lsnr)
  BY DEF queue!putUplink, QP!putUplink, queue!isSame, QP!isSame,
         queue!hasUplink, QP!hasUplink, queue!setMetadata, QP!setMetadata,
         queue!newItem, QP!newItem
<1> QED
  BY <1>1, QueueAssumptions, QP!PutUplinkSound

\* Erasing items keeps the others sound.
LEMMA EraseSound ==
    ASSUME QP!UplinkInv, NEW S \in SUBSET Addrs,
           uplinkMessages' = [a \in Addrs |-> IF a \in S THEN NoItem
                                              ELSE uplinkMessages[a]]
    PROVE  QP!UplinkInv'
BY QueueAssumptions, QP!RemoveSound

\* The parts of the queue that have no proof of their own stay typed when
\* nothing touches them.
Rest == <<downlinkMessages, timeAddr, addrTime>>

\* The uplinks of a well-typed queue.
LEMMA UplinksTyped ==
    QP!UplinkInv => uplinkMessages \in [Addrs -> queue!UplinkItem \cup {NoItem}]
BY DEF QP!UplinkInv, QP!UplinksTyped, QP!UplinkItem, queue!UplinkItem,
       QP!Metadata, queue!Metadata

\* A step of the queue's uplinks alone keeps the queue typed.
LEMMA UplinkStepTyped ==
    ASSUME queue!TypeOK, QP!UplinkInv', UNCHANGED Rest
    PROVE  queue!TypeOK'
<1>1. uplinkMessages' \in [Addrs -> queue!UplinkItem \cup {NoItem}]
  BY DEF QP!UplinkInv, QP!UplinksTyped, QP!UplinkItem, queue!UplinkItem,
         QP!Metadata, queue!Metadata
<1> QED
  BY <1>1 DEF Rest, queue!TypeOK, queue!time2ResponseAddr!TypeOK

\* TimeAddrSet::push keeps the waiting addresses typed.
LEMMA PushTyped ==
    ASSUME NEW addr \in Addrs, NEW time \in Nat, time2ResponseAddr!TypeOK,
           time2ResponseAddr!push(addr, time)
    PROVE  time2ResponseAddr!TypeOK'
<1>1. CASE timeAddr # {}
  BY <1>1 DEF time2ResponseAddr!push, time2ResponseAddr!vars,
              time2ResponseAddr!TypeOK
<1>2. CASE timeAddr = {}
  <2>1. /\ timeAddr' = {[time |-> time, addr |-> addr]}
        /\ addrTime' = [addrTime EXCEPT ![addr] = time]
    BY <1>2 DEF time2ResponseAddr!push
  <2> QED
    BY <2>1 DEF time2ResponseAddr!TypeOK, time2ResponseAddr!Entry
<1> QED
  BY <1>1, <1>2

\* A gateway getBestGatewayAddress() names has heard the item.
LEMMA BestHasHeard ==
    ASSUME NEW item \in queue!UplinkItem, queue!heardBy(item) # {}
    PROVE  queue!bestGatewayAddress(item) \in queue!heardBy(item)
<1> DEFINE S == queue!heardBy(item)
           l == [g \in S |-> item.metadata[g].lsnr]
<1>1. \A g \in S : g \in Gateways /\ item.metadata[g] \in queue!Metadata
  BY DEF queue!heardBy, queue!UplinkItem
<1>2. l \in [S -> Lsnr]
  BY <1>1 DEF queue!Metadata
<1>3. \E g \in S : \A h \in S : \/ l[g] > l[h]
                                \/ l[g] = l[h] /\ g <= h
  BY <1>1, <1>2, QueueAssumption DEF queue!BestExistsAssumption
<1>4. \E g \in S : \A h \in S :
            \/ item.metadata[g].lsnr > item.metadata[h].lsnr
            \/ item.metadata[g].lsnr = item.metadata[h].lsnr /\ g <= h
  BY <1>3
<1> QED
  BY <1>4 DEF queue!bestGatewayAddress

----------------------------------------------------------------------------

\* The address of a on its way to the loop.
Announced(a) ==
    \/ \E i \in 1..Len(control) : control[i] = a
    \/ \E t \in Threads : pc[t] = "announce" /\ job[t].radioPacket.addr = a

IInv ==
    /\ TypeOK
    /\ JobsPush
    /\ QP!UplinkInv
    /\ Datagram => NoSilentLoss

\* Initially every thread is idle and the queue is empty.
LEMMA InitIInv == Init => IInv
<1> SUFFICES ASSUME Init PROVE IInv
  OBVIOUS
<1> USE DEF Init
<1>1. uplinkMessages = [a \in Addrs |-> NoItem]
  BY DEF queue!Init
<1>2. QP!UplinkInv
  BY <1>1 DEF QP!UplinkInv, QP!UplinksTyped, QP!UplinksSound, QP!hasUplink
<1>3. queue!TypeOK
  BY <1>1 DEF queue!Init, queue!TypeOK, queue!time2ResponseAddr!Init,
              queue!time2ResponseAddr!TypeOK
<1>4. idleEnqueue \in Enqueue
  BY DEF idleEnqueue, Enqueue
<1>5. TypeOK
  BY <1>3, <1>4, QueueAssumption DEF TypeOK, queue!MessageQueueAssumption
<1>6. JobsPush
  BY DEF JobsPush
<1>7. NoSilentLoss
  BY <1>1 DEF NoSilentLoss, queue!hasUplink
<1> QED
  BY <1>2, <1>5, <1>6, <1>7 DEF IInv

\* A step that leaves the items, the control socket and the threads in
\* "announce" alone keeps the announcements.
LEMMA KeepsAnnounced ==
    ASSUME NoSilentLoss, UNCHANGED <<uplinkMessages, control>>,
           \A t \in Threads : pc[t] = "announce" =>
                pc'[t] = "announce" /\ job'[t] = job[t]
    PROVE  NoSilentLoss'
BY DEF NoSilentLoss, queue!hasUplink

\* A step that leaves the items alone keeps them sound.
LEMMA KeepsSound ==
    ASSUME QP!UplinkInv, UNCHANGED uplinkMessages
    PROVE  QP!UplinkInv'
BY DEF QP!UplinkInv, QP!UplinksTyped, QP!UplinksSound, QP!hasUplink

\* A frame is heard.
LEMMA ReceiveStep ==
    ASSUME IInv, NEW t \in Threads, NEW g \in Gateways, NEW p \in Packets,
           NEW st \in SUBSET Packets, NEW l \in Lsnr, receive(t, g, p, st, l),
           pr' \in SUBSET Packets
    PROVE  IInv'
<1> DEFINE new == [radioPacket |-> p, stale |-> st, gatewayId |-> g,
                   lsnr |-> l, t |-> now]
<1> USE DEF IInv
<1>1. now \in Nat
  BY DEF TypeOK
<1>2. /\ pc[t] = "idle"
      /\ pc' = [pc EXCEPT ![t] = "put"]
      /\ job' = [job EXCEPT ![t] = new]
      /\ receptions' = receptions + 1
      /\ UNCHANGED <<queueVars, outVars, waitSince, now, control, timer, enq,
                     bestGateway, queuedAt, enqueues>>
  BY DEF receive
<1>3. new \in Reception /\ new \in Job
  BY <1>1 DEF Reception, Job
<1>4. queue!TypeOK'
  BY <1>2 DEF queueVars, TypeOK, queue!TypeOK, queue!time2ResponseAddr!TypeOK
<1>5. TypeOK'
  BY <1>2, <1>3, <1>4 DEF TypeOK, queueVars, outVars
<1>6. JobsPush'
  BY <1>2, <1>3 DEF JobsPush, TypeOK
<1>7. QP!UplinkInv'
  BY <1>2, KeepsSound DEF queueVars
<1>8. ASSUME Datagram PROVE NoSilentLoss'
  BY <1>2, <1>8, KeepsAnnounced DEF TypeOK, queueVars
<1> QED
  BY <1>5, <1>6, <1>7, <1>8

\* Every frame is heard by one thread; its storage and the parser's result hold
\* frames.
LEMMA HeardByThread ==
    ASSUME TypeOK, NEW g \in Gateways, NEW p \in Packets, NEW l \in Lsnr,
           onPushData(g, p, l) \/ readPushData(g, p, l)
    PROVE  /\ \E t \in Threads, st \in SUBSET Packets : receive(t, g, p, st, l)
           /\ pr' \in SUBSET Packets
<1>1. pr \in SUBSET Packets
  BY DEF TypeOK
<1>2. CASE onPushData(g, p, l)
  BY <1>1, <1>2 DEF onPushData, Threads
<1>3. CASE readPushData(g, p, l)
  <2>1. longer(p) \in SUBSET Packets
    BY <1>1 DEF longer
  <2>2. receive(Loop, g, p, longer(p), l) /\ pr' = {p} \cup longer(p)
    BY <1>3 DEF readPushData
  <2> QED
    BY <2>1, <2>2 DEF Threads
<1> QED
  BY <1>2, <1>3

\* queue.putUplink(): a new item has its own thread to announce it.
LEMMA PutStep ==
    ASSUME IInv, NEW t \in Threads, put(t)
    PROVE  IInv'
<1> USE DEF IInv
<1> DEFINE j == job[t]
<1>1. j \in Reception /\ pc[t] = "put"
  BY DEF put, JobsPush
<1>2. /\ queue!putUplink(j.t, j.gatewayId, j.radioPacket, j.stale, j.lsnr)
      /\ pc' = [pc EXCEPT ![t] = "announce"]
      /\ UNCHANGED <<outVars, inputVars, job, waitSince, now, control, timer,
                     enq, bestGateway>>
  BY DEF put
<1>3. QP!UplinkInv'
  BY <1>1, <1>2, PutSound DEF Reception
<1>4. UNCHANGED Rest
  BY <1>2 DEF queue!putUplink, Rest
<1>5. queue!TypeOK'
  BY <1>3, <1>4, UplinkStepTyped DEF TypeOK
<1>6. TypeOK'
  BY <1>2, <1>5 DEF TypeOK, outVars, inputVars
<1>7. JobsPush'
  BY <1>1, <1>2 DEF JobsPush, TypeOK
<1>8. ASSUME Datagram, NEW a \in Addrs, queue!hasUplink(a)',
             ~uplinkMessages'[a].delivered
      PROVE  Announced(a)'
  <2>1. CASE queue!hasUplink(a) /\ ~uplinkMessages[a].delivered
    <3>1. Announced(a)
      BY <1>8, <2>1 DEF NoSilentLoss, Announced
    <3> QED
      BY <1>2, <3>1 DEF Announced, TypeOK
  <2>2. CASE ~(queue!hasUplink(a) /\ ~uplinkMessages[a].delivered)
    <3>1. j.radioPacket \in Packets /\ j.radioPacket.addr \in Addrs
      BY <1>1, QueueAssumption DEF Reception, queue!MessageQueueAssumption
    <3>2. uplinkMessages \in [Addrs -> queue!UplinkItem \cup {NoItem}]
      BY UplinksTyped
    <3>3. j.radioPacket.addr = a
      BY <1>2, <1>8, <2>2, <3>1, <3>2
         DEF queue!putUplink, queue!isSame, queue!hasUplink, queue!setMetadata
    <3>4. pc'[t] = "announce" /\ job'[t] = j
      BY <1>2 DEF TypeOK
    <3> QED
      BY <3>3, <3>4 DEF Announced
  <2> QED
    BY <2>1, <2>2
<1>9. ASSUME Datagram PROVE NoSilentLoss'
  BY <1>8, <1>9 DEF NoSilentLoss, Announced
<1> QED
  BY <1>3, <1>6, <1>7, <1>9

\* A thread leaves pushData().
LEMMA ReturnTyped ==
    ASSUME TypeOK, JobsPush, NEW t \in Threads, return(t), now' = now
    PROVE  /\ pc' \in [Threads -> {"idle", "put", "announce", "confirm",
                                   "sendQueue", "arm", "cleanup"}]
           /\ job' \in [Threads -> Job \cup {NoJob}]
           /\ waitSince' \in Nat
           /\ JobsPush'
           /\ \A u \in Threads \ {t} : pc'[u] = pc[u] /\ job'[u] = job[u]
BY DEF TypeOK, JobsPush, return

\* send2uplink(): the thread's announcement becomes one of the control socket.
LEMMA AnnounceStep ==
    ASSUME IInv, NEW t \in Threads, announce(t)
    PROVE  IInv'
<1> USE DEF IInv
<1> DEFINE pkt == job[t].radioPacket
<1>1. /\ pc[t] = "announce"
      /\ control' = Append(control, pkt.addr)
      /\ UNCHANGED <<queueVars, outVars, inputVars, now, timer, enq, bestGateway>>
  BY DEF announce
<1>2. \/ pc' = [pc EXCEPT ![t] = "confirm"] /\ UNCHANGED <<job, waitSince>>
      \/ return(t)
  BY DEF announce
<1>3. job[t] \in Reception /\ pkt \in Packets /\ pkt.addr \in Addrs
  BY <1>1, QueueAssumption DEF JobsPush, Reception, queue!MessageQueueAssumption
<1>4. /\ control \in Seq(Addrs) /\ control' \in Seq(Addrs)
      /\ Len(control') = Len(control) + 1
      /\ control'[Len(control')] = pkt.addr
      /\ \A i \in 1..Len(control) : control'[i] = control[i]
      /\ Len(control) \in Nat
  BY <1>1, <1>3 DEF TypeOK
<1>5. /\ pc' \in [Threads -> {"idle", "put", "announce", "confirm",
                              "sendQueue", "arm", "cleanup"}]
      /\ job' \in [Threads -> Job \cup {NoJob}]
      /\ waitSince' \in Nat
      /\ JobsPush'
      /\ \A u \in Threads \ {t} : pc'[u] = pc[u] /\ job'[u] = job[u]
  <2>1. CASE pc' = [pc EXCEPT ![t] = "confirm"] /\ UNCHANGED <<job, waitSince>>
    BY <1>3, <2>1 DEF TypeOK, JobsPush
  <2>2. CASE return(t)
    BY <1>1, <2>2, ReturnTyped
  <2> QED
    BY <1>2, <2>1, <2>2
<1>6. queue!TypeOK'
  BY <1>1 DEF queueVars, TypeOK, queue!TypeOK, queue!time2ResponseAddr!TypeOK
<1>7. TypeOK'
  BY <1>1, <1>4, <1>5, <1>6 DEF TypeOK, outVars, inputVars
<1>8. QP!UplinkInv'
  BY <1>1, KeepsSound DEF queueVars
<1>9. ASSUME NEW a \in Addrs, Announced(a) PROVE Announced(a)'
  <2>1. CASE \E i \in 1..Len(control) : control[i] = a
    BY <1>4, <2>1 DEF Announced
  <2>2. CASE pkt.addr = a
    BY <1>4, <2>2 DEF Announced
  <2>3. CASE \E u \in Threads \ {t} : pc[u] = "announce" /\ job[u].radioPacket.addr = a
    BY <1>5, <2>3 DEF Announced
  <2> QED
    BY <1>9, <2>1, <2>2, <2>3 DEF Announced
<1>10. ASSUME Datagram PROVE NoSilentLoss'
  BY <1>1, <1>9, <1>10 DEF NoSilentLoss, Announced, queueVars, queue!hasUplink
<1> QED
  BY <1>5, <1>7, <1>8, <1>10

\* prepareSendConfirmation()
LEMMA ConfirmStep ==
    ASSUME IInv, NEW t \in Threads, prepareSendConfirmation(t)
    PROVE  IInv'
<1> USE DEF IInv
<1>1. /\ pc[t] = "confirm"
      /\ time2ResponseAddr!push(job[t].radioPacket.addr, job[t].t)
      /\ return(t)
      /\ UNCHANGED <<uplinkMessages, downlinkMessages, outVars, inputVars, now,
                     control, timer, enq, bestGateway>>
  BY DEF prepareSendConfirmation
<1>2. job[t].radioPacket.addr \in Addrs /\ job[t].t \in Nat
  BY <1>1, QueueAssumption DEF JobsPush, Reception, queue!MessageQueueAssumption
<1>3. time2ResponseAddr!TypeOK'
  BY <1>1, <1>2, PushTyped DEF TypeOK, queue!TypeOK,
     queue!time2ResponseAddr!TypeOK, time2ResponseAddr!TypeOK,
     queue!time2ResponseAddr!Entry, time2ResponseAddr!Entry
<1>4. queue!TypeOK'
  BY <1>1, <1>3 DEF TypeOK, queue!TypeOK,
     queue!time2ResponseAddr!TypeOK, time2ResponseAddr!TypeOK,
     queue!time2ResponseAddr!Entry, time2ResponseAddr!Entry
<1>5. TypeOK' /\ JobsPush'
  BY <1>1, <1>4, ReturnTyped DEF TypeOK, outVars, inputVars
<1>6. QP!UplinkInv'
  BY <1>1, KeepsSound
<1>7. ASSUME Datagram PROVE NoSilentLoss'
  <2>1. \A u \in Threads : pc[u] = "announce" =>
            pc'[u] = "announce" /\ job'[u] = job[u]
    BY <1>1, ReturnTyped
  <2> QED
    BY <1>1, <1>7, <2>1, KeepsAnnounced
<1> QED
  BY <1>5, <1>6, <1>7

\* The loop reads the control socket: the item of the address it takes out is
\* delivered, the other addresses stay.
LEMMA ReadControlStep ==
    ASSUME IInv, readControl
    PROVE  IInv'
<1> USE DEF IInv
<1> DEFINE addr == Head(control)
           item == uplinkMessages[addr]
<1>1. /\ control # <<>>
      /\ control' = IF Datagram THEN Tail(control) ELSE <<>>
      /\ waitSince' = now
      /\ UNCHANGED <<downlinkMessages, timeAddr, addrTime, pc, job, sent,
                     inputVars, now, timer, enq, bestGateway>>
  BY DEF readControl
<1>2. /\ control \in Seq(Addrs) /\ control' \in Seq(Addrs) /\ addr \in Addrs
  BY <1>1 DEF TypeOK
<1>3. uplinkMessages \in [Addrs -> queue!UplinkItem \cup {NoItem}]
  BY UplinksTyped
<1>4. ASSUME NEW a \in Addrs, Datagram, Announced(a), a # addr
      PROVE  Announced(a)'
  <2>1. CASE \E i \in 1..Len(control) : control[i] = a
    <3>1. PICK i \in 1..Len(control) : control[i] = a
      BY <2>1
    <3>2. i # 1
      BY <1>1, <1>2, <1>4, <3>1
    <3>3. control' = Tail(control)
      BY <1>1, <1>4
    <3>4. i - 1 \in 1..Len(control') /\ control'[i - 1] = a
      BY <1>1, <1>2, <3>1, <3>2, <3>3
    <3> QED
      BY <3>4 DEF Announced
  <2>2. CASE \E t \in Threads : pc[t] = "announce" /\ job[t].radioPacket.addr = a
    BY <1>1, <2>2 DEF Announced
  <2> QED
    BY <1>4, <2>1, <2>2 DEF Announced
<1>5. CASE queue!hasUplink(addr) /\ sendPayloadOverBridge(addr)
  <2>1. item \in queue!UplinkItem
    BY <1>2, <1>3, <1>5 DEF queue!hasUplink
  <2>2. QP!Sound(addr, item)
    BY <1>2, <1>5 DEF queue!hasUplink, QP!UplinkInv, QP!UplinksSound, QP!hasUplink
  <2>3. item.radioPacket \in Packets
    BY <2>1, <2>2 DEF QP!Sound, QP!heardBy, queue!UplinkItem, queue!Metadata
  <2>4. /\ item.radioPacket.payload \in BOOLEAN /\ item.plain \in BOOLEAN
        /\ item.radioPacket.fopts \in BOOLEAN
    BY <2>1, <2>3, QueueAssumption DEF queue!UplinkItem, queue!MessageQueueAssumption
  <2> DEFINE p == item.radioPacket.payload # item.plain
             new == [item EXCEPT !.plain = p, !.delivered = TRUE]
  <2>5. uplinkMessages' = [uplinkMessages EXCEPT ![addr] = new]
    BY <1>5 DEF sendPayloadOverBridge
  <2>6. /\ new \in queue!UplinkItem
        /\ new.radioPacket = item.radioPacket /\ new.delivered = TRUE
        /\ new.gatewayId = item.gatewayId /\ new.metadata = item.metadata
    BY <2>1, <2>4 DEF queue!UplinkItem
  <2>7. new \in QP!UplinkItem
    BY <2>6 DEF queue!UplinkItem, QP!UplinkItem, queue!Metadata, QP!Metadata
  <2>8. QP!Sound(addr, new)
    BY <2>2, <2>6 DEF QP!Sound, QP!heardBy
  <2>9. QP!UplinkInv'
    BY <1>2, <2>5, <2>7, <2>8
       DEF QP!UplinkInv, QP!UplinksTyped, QP!UplinksSound, QP!hasUplink
  <2>10. bridge' \in Delivery
    <3>1. /\ item.radioPacket.payload \in BOOLEAN
          /\ (addr \in Registered /\ ~item.plain) \in BOOLEAN
          /\ matchMic(item) \in BOOLEAN
      BY <2>4 DEF matchMic
    <3> QED
      BY <1>2, <1>5, <2>3, <3>1 DEF sendPayloadOverBridge, Delivery
  <2>11. queue!TypeOK'
    BY <1>1, <2>9, UplinkStepTyped DEF TypeOK, Rest
  <2>12. TypeOK' /\ JobsPush'
    BY <1>1, <1>2, <2>10, <2>11 DEF TypeOK, JobsPush, inputVars
  <2>13. ASSUME Datagram PROVE NoSilentLoss'
    <3> SUFFICES ASSUME NEW a \in Addrs, queue!hasUplink(a)',
                        ~uplinkMessages'[a].delivered
                 PROVE  Announced(a)'
      BY DEF NoSilentLoss, Announced
    <3>1. a # addr
      BY <1>2, <1>3, <2>5, <2>6
    <3>2. uplinkMessages'[a] = uplinkMessages[a]
      BY <1>3, <2>5, <3>1
    <3>3. Announced(a)
      BY <2>13, <3>2 DEF NoSilentLoss, Announced, queue!hasUplink
    <3> QED
      BY <1>4, <2>13, <3>1, <3>3
  <2> QED
    BY <2>9, <2>12, <2>13
<1>6. CASE /\ ~((Datagram \/ Len(control) = 1) /\ queue!hasUplink(addr))
           /\ UNCHANGED <<uplinkMessages, bridge>>
  <2>1. QP!UplinkInv'
    BY <1>6, KeepsSound
  <2>2. queue!TypeOK'
    BY <1>1, <1>6, <2>1, UplinkStepTyped DEF TypeOK, Rest
  <2>3. TypeOK' /\ JobsPush'
    BY <1>1, <1>2, <1>6, <2>2 DEF TypeOK, JobsPush, inputVars
  <2>4. ASSUME Datagram PROVE NoSilentLoss'
    <3> SUFFICES ASSUME NEW a \in Addrs, queue!hasUplink(a)',
                        ~uplinkMessages'[a].delivered
                 PROVE  Announced(a)'
      BY DEF NoSilentLoss, Announced
    <3>1. Announced(a) /\ a # addr
      BY <1>6, <2>4 DEF NoSilentLoss, Announced, queue!hasUplink
    <3> QED
      BY <1>4, <2>4, <3>1
  <2> QED
    BY <2>1, <2>3, <2>4
<1> QED
  BY <1>5, <1>6 DEF readControl

\* A step of the loop that only moves on, or of a sender, or of the clock: it
\* leaves the items, the control socket and the pushing threads alone.
LEMMA QuietStep ==
    ASSUME IInv, TypeOK', JobsPush', UNCHANGED <<uplinkMessages, control>>,
           \A t \in Threads : pc[t] = "announce" =>
                pc'[t] = "announce" /\ job'[t] = job[t]
    PROVE  IInv'
BY KeepsSound, KeepsAnnounced DEF IInv

\* PULL_DATA
LEMMA PullDataStep ==
    ASSUME IInv, NEW g \in Pinging, pullData(g)
    PROVE  IInv'
<1>1. sent' \subseteq [addr : Addrs \cup {NoAddr}, gatewayId : Gateways]
  BY DispatcherAssumption DEF pullData, sendDownlink
<1>2. queue!TypeOK'
  BY DEF pullData, queueVars, IInv, TypeOK, queue!TypeOK,
         queue!time2ResponseAddr!TypeOK
<1>3. TypeOK' /\ JobsPush'
  BY <1>1, <1>2 DEF IInv, TypeOK, JobsPush, pullData, queueVars, inputVars
<1> QED
  BY <1>3, QuietStep DEF pullData, queueVars

\* The loop goes on with receivedTime.
LEMMA WakeTyped ==
    ASSUME TypeOK, JobsPush, pc[Loop] = "idle",
           NEW next \in {"sendQueue", "cleanup"}, wake(next)
    PROVE  /\ pc' \in [Threads -> {"idle", "put", "announce", "confirm",
                                   "sendQueue", "arm", "cleanup"}]
           /\ job' \in [Threads -> Job \cup {NoJob}]
           /\ JobsPush'
           /\ \A t \in Threads : pc[t] = "announce" =>
                pc'[t] = "announce" /\ job'[t] = job[t]
<1> DEFINE new == [t |-> now]
<1>1. new \in Job /\ new.t \in Nat
  BY DEF TypeOK, Job
<1>2. pc' = [pc EXCEPT ![Loop] = next] /\ job' = [job EXCEPT ![Loop] = new]
  BY DEF wake
<1>3. Loop \in Threads
  BY DEF Threads
<1>4. job'[Loop] = new /\ pc'[Loop] = next
  BY <1>2, <1>3 DEF TypeOK
<1>5. \A t \in Threads \ {Loop} : pc'[t] = pc[t] /\ job'[t] = job[t]
  BY <1>2 DEF TypeOK
<1>6. JobsPush'
  BY <1>1, <1>4, <1>5 DEF JobsPush
<1> QED
  BY <1>1, <1>2, <1>3, <1>5, <1>6 DEF TypeOK

\* select() times out: every downlink goes.
LEMMA TimeoutStep ==
    ASSUME IInv, timeout
    PROVE  IInv'
<1>1. /\ sent' \subseteq [addr : Addrs \cup {NoAddr}, gatewayId : Gateways]
      /\ downlinkMessages' = [a \in Addrs |-> NoItem]
  BY DEF timeout, sendQueuedDownlinkMessages, sendDownlink
<1>2. queue!TypeOK'
  BY <1>1 DEF timeout, IInv, TypeOK, queue!TypeOK, queue!time2ResponseAddr!TypeOK
<1>3. /\ pc' \in [Threads -> {"idle", "put", "announce", "confirm",
                              "sendQueue", "arm", "cleanup"}]
      /\ job' \in [Threads -> Job \cup {NoJob}]
      /\ JobsPush'
      /\ \A t \in Threads : pc[t] = "announce" =>
            pc'[t] = "announce" /\ job'[t] = job[t]
  BY WakeTyped DEF timeout, IInv
<1>4. TypeOK'
  BY <1>1, <1>2, <1>3 DEF IInv, TypeOK, timeout, inputVars
<1> QED
  BY <1>3, <1>4, QuietStep DEF timeout

\* The timerfd is readable.
LEMMA TimerEventStep ==
    ASSUME IInv, timerEvent
    PROVE  IInv'
<1>1. queue!TypeOK'
  BY DEF timerEvent, queueVars, IInv, TypeOK, queue!TypeOK,
         queue!time2ResponseAddr!TypeOK
<1>2. /\ pc' \in [Threads -> {"idle", "put", "announce", "confirm",
                              "sendQueue", "arm", "cleanup"}]
      /\ job' \in [Threads -> Job \cup {NoJob}]
      /\ JobsPush'
      /\ \A t \in Threads : pc[t] = "announce" =>
            pc'[t] = "announce" /\ job'[t] = job[t]
  BY WakeTyped DEF timerEvent, IInv
<1>3. TypeOK'
  BY <1>1, <1>2 DEF IInv, TypeOK, timerEvent, inputVars, outVars
<1> QED
  BY <1>2, <1>3, QuietStep DEF timerEvent, queueVars

\* At most one address waits for a confirmation (TimeAddrSet::push).
OneWaits == \A d, e \in timeAddr : d = e

\* Every step keeps that.
LEMMA OneWaitsStep == OneWaits /\ [Next]_vars => OneWaits'
<1> SUFFICES ASSUME OneWaits, [Next]_vars PROVE OneWaits'
  OBVIOUS
<1>1. ASSUME timeAddr' \subseteq timeAddr PROVE OneWaits'
  BY <1>1 DEF OneWaits
<1>2. ASSUME NEW a, NEW time, time2ResponseAddr!push(a, time) PROVE OneWaits'
  <2>1. CASE timeAddr # {}
    BY <1>1, <1>2, <2>1 DEF time2ResponseAddr!push, time2ResponseAddr!vars
  <2>2. CASE timeAddr = {}
    BY <1>2, <2>2 DEF time2ResponseAddr!push, OneWaits
  <2> QED
    BY <2>1, <2>2
<1>3. ASSUME NEW t \in Threads, pushStep(t) PROVE OneWaits'
  <2>1. CASE put(t)
    BY <1>1, <2>1 DEF put, queue!putUplink
  <2>2. CASE announce(t)
    BY <1>1, <2>2 DEF announce, queueVars
  <2>3. CASE prepareSendConfirmation(t)
    BY <1>2, <2>3 DEF prepareSendConfirmation
  <2> QED
    BY <1>3, <2>1, <2>2, <2>3 DEF pushStep
<1>4. CASE loopStep
  <2>1. ASSUME NEW freed, sendQueue(freed) PROVE OneWaits'
    BY <1>1, <2>1 DEF sendQueue, time2ResponseAddr!popDue
  <2>2. CASE readControl \/ timeout \/ timerEvent \/ sendQueueEnd \/ arm \/ cleanup
    BY <1>1, <2>2 DEF readControl, timeout, timerEvent, sendQueueEnd, arm,
       cleanup, queue!clearOldUplinkMessages, queueVars
  <2> QED
    BY <1>4, <2>1, <2>2 DEF loopStep
<1>5. ASSUME NEW s \in Senders, enqueuePut(s) PROVE OneWaits'
  <2>1. queue!time2ResponseAddr!push(enq[s].addr, enq[s].tim)
    BY <1>5 DEF enqueuePut, queue!putDownlink
  <2>2. time2ResponseAddr!push(enq[s].addr, enq[s].tim)
    BY <2>1 DEF time2ResponseAddr!push, queue!time2ResponseAddr!push,
                time2ResponseAddr!vars, queue!time2ResponseAddr!vars
  <2> QED
    BY <1>2, <2>2
<1>6. ASSUME NEW s \in Senders, NEW a \in Addrs, NEW tim,
             enqueueFind(s, a, tim) \/ enqueueLookup(s, a, tim)
      PROVE  OneWaits'
  BY <1>1, <1>6 DEF enqueueFind, enqueueLookup, queueVars
<1>7. ASSUME NEW s \in Senders, enqueueCopy(s) PROVE OneWaits'
  BY <1>1, <1>7 DEF enqueueCopy, queueVars
<1>8. CASE hostArms \/ tick
  BY <1>1, <1>8 DEF hostArms, tick, queueVars
<1>9. ASSUME NEW g \in Pinging, pullData(g) PROVE OneWaits'
  BY <1>1, <1>9 DEF pullData, queueVars
<1>10. ASSUME NEW g \in Gateways, NEW p \in Packets, NEW l \in Lsnr,
              onPushData(g, p, l) \/ readPushData(g, p, l)
       PROVE  OneWaits'
  BY <1>1, <1>10 DEF onPushData, readPushData, receive, queueVars
<1>11. CASE UNCHANGED vars
  BY <1>1, <1>11 DEF vars, queueVars
<1> QED
  BY <1>3, <1>4, <1>5, <1>6, <1>7, <1>8, <1>9, <1>10, <1>11 DEF Next, senderStep

\* sendQueue(): the item of the popped address gets its best gateway.
LEMMA SendQueueStep ==
    ASSUME IInv, OneWaits, NEW freed \in Addrs \cup {NoAddr}, sendQueue(freed)
    PROVE  IInv'
<1> USE DEF IInv
<1> DEFINE addr == time2ResponseAddr!first.addr
           item == uplinkMessages[addr]
           best == queue!bestGatewayAddress(item)
<1>1. /\ time2ResponseAddr!popDue(job[Loop].t, freed)
      /\ UNCHANGED <<downlinkMessages, threadVars, outVars, inputVars, now,
                     control, timer, enq>>
  BY DEF sendQueue
<1>2. /\ timeAddr' \subseteq timeAddr
      /\ addrTime' \in [Addrs -> Nat \cup {NoTime}]
  BY <1>1 DEF time2ResponseAddr!popDue, TypeOK, queue!TypeOK,
              queue!time2ResponseAddr!TypeOK
<1>3. uplinkMessages \in [Addrs -> queue!UplinkItem \cup {NoItem}]
  BY UplinksTyped
<1>4. JobsPush'
  BY <1>1 DEF threadVars, JobsPush
<1>5. CASE UNCHANGED <<uplinkMessages, bestGateway>>
  <2>1. queue!TypeOK'
    BY <1>1, <1>2, <1>5 DEF TypeOK, queue!TypeOK, queue!time2ResponseAddr!TypeOK
  <2>2. TypeOK'
    BY <1>1, <1>5, <2>1 DEF TypeOK, threadVars, outVars, inputVars
  <2> QED
    BY <1>1, <1>4, <1>5, <2>2, QuietStep DEF threadVars
<1>6. CASE /\ item # NoItem
           /\ uplinkMessages' = [uplinkMessages EXCEPT ![addr].gatewayId = best]
           /\ bestGateway' = [bestGateway EXCEPT
                              ![addr] = IF best # 0 THEN best ELSE @]
  <2>1. addr \in Addrs
    <3>1. timeAddr # {} /\ \A e \in timeAddr : e.time \in Nat /\ e.addr \in Addrs
      BY <1>1 DEF time2ResponseAddr!popDue, time2ResponseAddr!isDue, TypeOK,
                  queue!TypeOK, queue!time2ResponseAddr!TypeOK,
                  queue!time2ResponseAddr!Entry
    <3>2. PICK e \in timeAddr : timeAddr = {e}
      BY <3>1 DEF OneWaits
    <3>3. time2ResponseAddr!first \in timeAddr
      BY <3>1, <3>2 DEF time2ResponseAddr!first
    <3> QED
      BY <3>1, <3>3
  <2>2. item \in queue!UplinkItem /\ QP!Sound(addr, item)
    BY <1>3, <1>6, <2>1 DEF QP!UplinkInv, QP!UplinksSound, QP!hasUplink
  <2>3. best \in queue!heardBy(item) /\ best \in Gateways
    BY <2>2, BestHasHeard DEF QP!Sound, QP!heardBy, queue!heardBy
  <2> DEFINE new == [item EXCEPT !.gatewayId = best]
  <2>4. /\ new \in queue!UplinkItem
        /\ new.radioPacket = item.radioPacket /\ new.gatewayId = best
        /\ new.metadata = item.metadata /\ new.delivered = item.delivered
    BY <2>2, <2>3 DEF queue!UplinkItem
  <2>5. new \in QP!UplinkItem
    BY <2>4 DEF queue!UplinkItem, QP!UplinkItem, queue!Metadata, QP!Metadata
  <2>6. QP!Sound(addr, new)
    BY <2>2, <2>3, <2>4 DEF QP!Sound, QP!heardBy, queue!heardBy
  <2>7. uplinkMessages' = [uplinkMessages EXCEPT ![addr] = new]
    BY <1>6
  <2>8. QP!UplinkInv'
    BY <2>1, <2>5, <2>6, <2>7
       DEF QP!UplinkInv, QP!UplinksTyped, QP!UplinksSound, QP!hasUplink
  <2>9. queue!TypeOK'
    <3>1. uplinkMessages' \in [Addrs -> queue!UplinkItem \cup {NoItem}]
      BY <1>3, <2>4, <2>7
    <3> QED
      BY <1>1, <1>2, <3>1 DEF TypeOK, queue!TypeOK, queue!time2ResponseAddr!TypeOK
  <2>10. bestGateway' \in [Addrs -> Gateways \cup {0}]
    BY <1>6, <2>1, <2>3 DEF TypeOK
  <2>11. TypeOK'
    BY <1>1, <2>9, <2>10 DEF TypeOK, threadVars, outVars, inputVars
  <2>12. ASSUME Datagram PROVE NoSilentLoss'
    <3>1. ASSUME NEW a \in Addrs, queue!hasUplink(a)', ~uplinkMessages'[a].delivered
          PROVE  queue!hasUplink(a) /\ ~uplinkMessages[a].delivered
      BY <1>3, <1>6, <2>1, <2>4, <2>7, <3>1 DEF queue!hasUplink
    <3> QED
      BY <1>1, <2>12, <3>1 DEF NoSilentLoss, threadVars
  <2> QED
    BY <1>4, <2>8, <2>11, <2>12
<1> QED
  BY <1>5, <1>6 DEF sendQueue

\* The only waiting address is the first.
LEMMA FirstWaits ==
    ASSUME OneWaits, timeAddr # {}, queue!TypeOK
    PROVE  time2ResponseAddr!first \in timeAddr /\ time2ResponseAddr!first.time \in Nat
<1>1. PICK e \in timeAddr : timeAddr = {e}
  BY DEF OneWaits
<1>2. e.time \in Nat
  BY <1>1 DEF queue!TypeOK, queue!time2ResponseAddr!TypeOK,
              queue!time2ResponseAddr!Entry
<1> QED
  BY <1>1, <1>2 DEF time2ResponseAddr!first

\* isTimeProcessQueueOrSetTimer() sets a time or nothing.
LEMMA ArmTyped ==
    ASSUME TypeOK, OneWaits, NEW time \in Nat, isTimeProcessQueueOrSetTimer(time)
    PROVE  timer' \in Nat \cup {NoTime}
<1> DEFINE d == time2ResponseAddr!waitTimeForAllGateways(time)
<1>1. d \in Int
  <2>1. CASE timeAddr = {}
    BY <2>1 DEF time2ResponseAddr!waitTimeForAllGateways
  <2>2. CASE timeAddr # {}
    <3>1. time2ResponseAddr!first.time \in Nat /\ WaitTime \in Nat
      BY <2>2, FirstWaits, QueueAssumption DEF TypeOK, queue!MessageQueueAssumption
    <3> QED
      BY <2>2, <3>1 DEF time2ResponseAddr!waitTimeForAllGateways
  <2> QED
    BY <2>1, <2>2
<1>2. timer' = IF d < MinTimer THEN timer ELSE time + d
  BY DEF isTimeProcessQueueOrSetTimer
<1>3. MinTimer \in Nat \ {0}
  BY DispatcherAssumption
<1> HIDE DEF d
<1>4. CASE d < MinTimer
  BY <1>2, <1>4 DEF TypeOK
<1>5. CASE ~(d < MinTimer)
  BY <1>1, <1>2, <1>3, <1>5
<1> QED
  BY <1>4, <1>5

\* The loop leaves sendQueue(), or arms the timer.
LEMMA LoopMovesStep ==
    ASSUME IInv, OneWaits, sendQueueEnd \/ arm
    PROVE  IInv'
<1> USE DEF IInv
<1>1. Loop \in Threads
  BY DEF Threads
<1>2. queue!TypeOK'
  BY DEF sendQueueEnd, arm, queueVars, TypeOK, queue!TypeOK,
         queue!time2ResponseAddr!TypeOK
<1>3. \E next \in {"arm", "cleanup"} : pc' = [pc EXCEPT ![Loop] = next]
  BY DEF sendQueueEnd, arm
<1>4. pc[Loop] \in {"sendQueue", "arm"} /\ job[Loop].t \in Nat /\ job' = job
  BY <1>1 DEF sendQueueEnd, arm, JobsPush
<1>5. JobsPush'
  BY <1>1, <1>3, <1>4 DEF JobsPush, TypeOK
<1>6. timer' \in Nat \cup {NoTime}
  <2>1. CASE sendQueueEnd
    BY <2>1 DEF sendQueueEnd, TypeOK
  <2>2. CASE arm
    BY <1>4, <2>2, ArmTyped DEF arm
  <2> QED
    BY <2>1, <2>2
<1>7. /\ UNCHANGED <<now, control, waitSince, enq, bestGateway, outVars, inputVars>>
      /\ uplinkMessages' = uplinkMessages
  BY DEF sendQueueEnd, arm, queueVars
<1>8. TypeOK'
  BY <1>2, <1>3, <1>4, <1>6, <1>7 DEF TypeOK, outVars, inputVars
<1>9. \A t \in Threads : pc[t] = "announce" =>
            pc'[t] = "announce" /\ job'[t] = job[t]
  BY <1>3, <1>4 DEF TypeOK
<1> QED
  BY <1>5, <1>7, <1>8, <1>9, QuietStep

\* Only the sender that is not calling is idle.
LEMMA CallTyped ==
    ASSUME NEW e \in Enqueue, e.pc # "idle"
    PROVE  e \in Call
  BY DEF Enqueue, Call, idleEnqueue

\* cleanupOldMessages(): whatever is erased, no item loses its announcement.
LEMMA CleanupStep ==
    ASSUME IInv, cleanup
    PROVE  IInv'
<1> USE DEF IInv
<1> DEFINE gone == queue!expired(uplinkMessages, job[Loop].t - KeepTime)
<1>1. /\ pc[Loop] = "cleanup"
      /\ queue!clearOldUplinkMessages(job[Loop].t - KeepTime)
      /\ enq' = [s \in Senders |->
                IF enq[s].pc = "copy" /\ enq[s].addr \in gone
                THEN [enq[s] EXCEPT !.dangling = TRUE] ELSE enq[s]]
      /\ return(Loop)
      /\ UNCHANGED <<outVars, inputVars, now, control, timer, bestGateway>>
  BY DEF cleanup
<1>2. Loop \in Threads
  BY DEF Threads
<1>3. /\ uplinkMessages' = [a \in Addrs |-> IF a \in gone THEN NoItem
                                            ELSE uplinkMessages[a]]
      /\ UNCHANGED Rest
  BY <1>1 DEF queue!clearOldUplinkMessages, Rest
<1>4. gone \in SUBSET Addrs
  BY DEF queue!expired
<1>5. QP!UplinkInv'
  BY <1>3, <1>4, EraseSound
<1>6. queue!TypeOK'
  BY <1>3, <1>5, UplinkStepTyped DEF TypeOK
<1>7. enq' \in [Senders -> Enqueue]
  <2>1. ASSUME NEW s \in Senders, enq[s].pc = "copy"
        PROVE  [enq[s] EXCEPT !.dangling = TRUE] \in Enqueue
    <3>1. enq[s] \in Call
      BY <2>1, CallTyped DEF TypeOK
    <3> QED
      BY <3>1 DEF Call, Enqueue
  <2> QED
    BY <1>1, <2>1 DEF TypeOK
<1>8. TypeOK' /\ JobsPush'
  BY <1>1, <1>2, <1>6, <1>7, ReturnTyped DEF TypeOK, outVars, inputVars
<1>9. ASSUME Datagram, NEW a \in Addrs, queue!hasUplink(a)',
             ~uplinkMessages'[a].delivered
      PROVE  Announced(a)'
  <2>1. queue!hasUplink(a) /\ ~uplinkMessages[a].delivered
    BY <1>3, <1>9 DEF queue!hasUplink
  <2>2. Announced(a)
    BY <1>9, <2>1 DEF NoSilentLoss, Announced
  <2>3. \A t \in Threads : pc[t] = "announce" =>
            pc'[t] = "announce" /\ job'[t] = job[t]
    BY <1>1, <1>2, ReturnTyped
  <2> QED
    BY <1>1, <2>2, <2>3 DEF Announced
<1>10. ASSUME Datagram PROVE NoSilentLoss'
  BY <1>9, <1>10 DEF NoSilentLoss, Announced
<1> QED
  BY <1>5, <1>8, <1>10

\* The host program arms the timer.
LEMMA HostArmsStep ==
    ASSUME IInv, OneWaits, hostArms
    PROVE  IInv'
<1> USE DEF IInv
<1>1. timer' \in Nat \cup {NoTime}
  BY ArmTyped DEF hostArms, TypeOK
<1>2. queue!TypeOK'
  BY DEF hostArms, queueVars, TypeOK, queue!TypeOK, queue!time2ResponseAddr!TypeOK
<1>3. TypeOK' /\ JobsPush'
  BY <1>1, <1>2 DEF hostArms, TypeOK, JobsPush, threadVars, outVars, inputVars
<1> QED
  BY <1>3, QuietStep DEF hostArms, queueVars, threadVars

\* A sender finds the device's item, or asks the services.
LEMMA EnqueueStartStep ==
    ASSUME IInv, NEW s \in Senders, NEW a \in Addrs, NEW tim \in {now, Epoch},
           enqueueFind(s, a, tim) \/ enqueueLookup(s, a, tim)
    PROVE  IInv'
<1> USE DEF IInv
<1>0. tim \in Nat
  BY DEF TypeOK, Epoch
<1>1. queue!TypeOK'
  BY DEF enqueueFind, enqueueLookup, queueVars, TypeOK, queue!TypeOK,
         queue!time2ResponseAddr!TypeOK
<1>2. enq' \in [Senders -> Enqueue]
  <2>1. CASE enqueueFind(s, a, tim)
    <3> DEFINE new == [pc |-> "copy", addr |-> a, tim |-> tim, gatewayId |-> 0,
                       dangling |-> FALSE]
    <3>1. new \in Enqueue
      BY <1>0 DEF Enqueue, Call, TypeOK
    <3>2. enq' = [enq EXCEPT ![s] = new]
      BY <2>1 DEF enqueueFind
    <3> QED
      BY <3>1, <3>2 DEF TypeOK
  <2>2. CASE enqueueLookup(s, a, tim)
    <3>1. PICK g \in IF bestGateway[a] # 0 THEN {bestGateway[a]} ELSE KnownGateways :
            enq' = [enq EXCEPT ![s] = [pc |-> "put", addr |-> a, tim |-> tim,
                    gatewayId |-> g, dangling |-> FALSE]]
      BY <2>2 DEF enqueueLookup
    <3>2. g \in Gateways \cup {0}
      BY DispatcherAssumption DEF TypeOK
    <3> QED
      BY <1>0, <3>1, <3>2 DEF Enqueue, Call, TypeOK
  <2> QED
    BY <2>1, <2>2
<1>3. TypeOK' /\ JobsPush'
  BY <1>1, <1>2 DEF enqueueFind, enqueueLookup, TypeOK, JobsPush, threadVars, outVars
<1> QED
  BY <1>3, QuietStep DEF enqueueFind, enqueueLookup, queueVars, threadVars

\* A sender copies the item's task.
LEMMA EnqueueCopyStep ==
    ASSUME IInv, NEW s \in Senders, enqueueCopy(s)
    PROVE  IInv'
<1> USE DEF IInv
<1>1. queue!TypeOK'
  BY DEF enqueueCopy, queueVars, TypeOK, queue!TypeOK, queue!time2ResponseAddr!TypeOK
<1>2. enq' \in [Senders -> Enqueue]
  <2>1. PICK a \in Addrs, g \in Gateways \cup {0} :
            enq' = [enq EXCEPT ![s].pc = "put", ![s].addr = a, ![s].gatewayId = g]
    BY DEF enqueueCopy
  <2>2. [enq[s] EXCEPT !.pc = "put", !.addr = a, !.gatewayId = g] \in Enqueue
    <3>1. enq[s] \in Call
      BY CallTyped DEF TypeOK, enqueueCopy
    <3> QED
      BY <3>1 DEF Call, Enqueue
  <2>3. enq' = [enq EXCEPT ![s] = [enq[s] EXCEPT !.pc = "put", !.addr = a,
                                                 !.gatewayId = g]]
    BY <2>1 DEF TypeOK
  <2> QED
    BY <2>2, <2>3 DEF TypeOK
<1>3. TypeOK' /\ JobsPush'
  BY <1>1, <1>2 DEF enqueueCopy, TypeOK, JobsPush, threadVars, outVars, inputVars
<1> QED
  BY <1>3, QuietStep DEF enqueueCopy, queueVars, threadVars

\* queue.putDownlink()
LEMMA EnqueuePutStep ==
    ASSUME IInv, NEW s \in Senders, enqueuePut(s)
    PROVE  IInv'
<1> USE DEF IInv
<1> DEFINE e == enq[s]
<1>1. /\ e.pc = "put"
      /\ queue!putDownlink(e.tim, e.addr, e.gatewayId)
      /\ enq' = [enq EXCEPT ![s] = idleEnqueue]
      /\ UNCHANGED <<threadVars, outVars, pr, receptions, enqueues, now, control,
                     timer, bestGateway>>
  BY DEF enqueuePut
<1>2. e.addr \in Addrs /\ e.tim \in Nat /\ e.gatewayId \in Gateways \cup {0}
  BY <1>1 DEF TypeOK, Enqueue, Call, idleEnqueue
<1>3. UNCHANGED uplinkMessages
  BY <1>1 DEF queue!putDownlink
<1>4. downlinkMessages' \in [Addrs -> queue!DownlinkItem \cup {NoItem}]
  <2>1. [tim |-> e.tim, gatewayId |-> e.gatewayId] \in queue!DownlinkItem
    BY <1>2 DEF queue!DownlinkItem
  <2> QED
    BY <1>1, <2>1 DEF queue!putDownlink, TypeOK, queue!TypeOK
<1>5. time2ResponseAddr!push(e.addr, e.tim)
  BY <1>1 DEF queue!putDownlink, queue!time2ResponseAddr!push,
     queue!time2ResponseAddr!vars, time2ResponseAddr!push, time2ResponseAddr!vars
<1>6. time2ResponseAddr!TypeOK
  BY DEF TypeOK, queue!TypeOK, queue!time2ResponseAddr!TypeOK,
     queue!time2ResponseAddr!Entry, time2ResponseAddr!TypeOK, time2ResponseAddr!Entry
<1>7. time2ResponseAddr!TypeOK'
  BY <1>2, <1>5, <1>6, PushTyped
<1>8. queue!TypeOK'
  BY <1>3, <1>4, <1>7
     DEF TypeOK, queue!TypeOK, queue!time2ResponseAddr!TypeOK,
     queue!time2ResponseAddr!Entry, time2ResponseAddr!TypeOK, time2ResponseAddr!Entry
<1>9. enq' \in [Senders -> Enqueue]
  BY <1>1 DEF TypeOK, Enqueue
<1>10. queuedAt' \in [Addrs -> Nat]
  BY DEF TypeOK, enqueuePut
<1>11. TypeOK' /\ JobsPush'
  BY <1>1, <1>8, <1>9, <1>10 DEF TypeOK, JobsPush, threadVars, outVars
<1> QED
  BY <1>1, <1>3, <1>11, QuietStep DEF threadVars

\* The clock, and nothing at all.
LEMMA ClockStep ==
    ASSUME IInv, tick \/ UNCHANGED vars
    PROVE  IInv'
<1> USE DEF IInv
<1>1. queue!TypeOK'
  BY DEF tick, vars, queueVars, TypeOK, queue!TypeOK, queue!time2ResponseAddr!TypeOK
<1>2. TypeOK' /\ JobsPush'
  <2>1. CASE tick
    BY <1>1, <2>1 DEF tick, TypeOK, JobsPush, threadVars, outVars, inputVars
  <2>2. CASE UNCHANGED vars
    BY <1>1, <2>2 DEF vars, TypeOK, JobsPush, threadVars, outVars, inputVars
  <2> QED
    BY <2>1, <2>2
<1> QED
  BY <1>2, QuietStep DEF tick, vars, queueVars, threadVars

\* Every step keeps the invariant.
LEMMA NextIInv == IInv /\ OneWaits /\ [Next]_vars => IInv'
<1> SUFFICES ASSUME IInv, OneWaits, [Next]_vars PROVE IInv'
  OBVIOUS
<1>1. ASSUME NEW g \in Gateways, NEW p \in Packets, NEW l \in Lsnr,
             onPushData(g, p, l) \/ readPushData(g, p, l)
      PROVE  IInv'
  <2>1. /\ \E t \in Threads, st \in SUBSET Packets : receive(t, g, p, st, l)
        /\ pr' \in SUBSET Packets
    BY <1>1, HeardByThread DEF IInv
  <2> QED
    BY <2>1, ReceiveStep
<1>2. ASSUME NEW t \in Threads, pushStep(t) PROVE IInv'
  BY <1>2, PutStep, AnnounceStep, ConfirmStep DEF pushStep
<1>3. CASE loopStep
  <2>1. ASSUME NEW freed \in Addrs \cup {NoAddr}, sendQueue(freed) PROVE IInv'
    BY <2>1, SendQueueStep
  <2> QED
    BY <1>3, <2>1, ReadControlStep, TimeoutStep, TimerEventStep, LoopMovesStep,
       CleanupStep DEF loopStep
<1>4. ASSUME NEW g \in Pinging, pullData(g) PROVE IInv'
  BY <1>4, PullDataStep
<1>5. ASSUME NEW s \in Senders, NEW a \in Addrs, NEW tim \in {now, Epoch},
             enqueueFind(s, a, tim) \/ enqueueLookup(s, a, tim)
      PROVE  IInv'
  BY <1>5, EnqueueStartStep
<1>6. ASSUME NEW s \in Senders, senderStep(s) PROVE IInv'
  BY <1>6, EnqueueCopyStep, EnqueuePutStep DEF senderStep
<1> QED
  BY <1>1, <1>2, <1>3, <1>4, <1>5, <1>6, HostArmsStep, ClockStep DEF Next

\* The invariants hold in every behaviour.
LEMMA Invariant == Spec => [](IInv /\ OneWaits)
<1>1. Init => OneWaits
  BY DEF Init, queue!Init, queue!time2ResponseAddr!Init, OneWaits
<1> QED
  BY <1>1, InitIInv, NextIInv, OneWaitsStep, PTL DEF Spec

\* Every variable keeps its type, with any number of threads, senders, devices
\* and gateways.
THEOREM TypeCorrect == Spec => []TypeOK
<1>1. IInv => TypeOK
  BY DEF IInv
<1> QED
  BY <1>1, Invariant, PTL

\* With a control socket that keeps message boundaries no uplink is forgotten:
\* whatever the interleaving, as long as the application has not got an item its
\* address is on the way to the loop (pushData, send2uplink, runUplink).
THEOREM NothingForgotten ==
    ASSUME Datagram = TRUE
    PROVE  Spec => []NoSilentLoss
<1>1. IInv => NoSilentLoss
  BY DEF IInv
<1> QED
  BY <1>1, Invariant, PTL

----------------------------------------------------------------------------
(* What reaches the application first.                                      *)
(*                                                                         *)
(* Both theorems rest on Fresh: an item the application has not got still   *)
(* holds the bytes that were on the air.  Only the delivery deciphers, so a *)
(* copy that arrives before it compares equal, if nothing shows behind      *)
(* either frame (Clean), and the delivery finds bytes whose integrity code  *)
(* can be checked.                                                          *)

Fresh ==
    \A a \in Addrs : (queue!hasUplink(a) /\ ~uplinkMessages[a].delivered) =>
        ~uplinkMessages[a].plain

----------------------------------------------------------------------------

\* sendQueue() changes the gateway of one item's task, or nothing.
LEMMA SendQueueItem ==
    ASSUME IInv, OneWaits, NEW freed, sendQueue(freed), NEW a \in Addrs
    PROVE  \/ uplinkMessages'[a] = uplinkMessages[a]
           \/ /\ queue!hasUplink(a)
              /\ \E g \in Gateways \cup {0} :
                    uplinkMessages'[a] = [uplinkMessages[a] EXCEPT !.gatewayId = g]
<1> DEFINE addr == time2ResponseAddr!first.addr
           item == uplinkMessages[addr]
           best == queue!bestGatewayAddress(item)
<1>1. uplinkMessages \in [Addrs -> queue!UplinkItem \cup {NoItem}]
  BY UplinksTyped DEF IInv
<1>2. CASE uplinkMessages' = uplinkMessages
  BY <1>2
<1>3. CASE /\ item # NoItem
           /\ uplinkMessages' = [uplinkMessages EXCEPT ![addr].gatewayId = best]
  <2>1. ASSUME a = addr PROVE best \in Gateways \cup {0}
    <3>1. item \in queue!UplinkItem
      BY <1>1, <1>3, <2>1
    <3>2. CASE queue!heardBy(item) = {}
      BY <3>2 DEF queue!bestGatewayAddress
    <3>3. CASE queue!heardBy(item) # {}
      BY <3>1, <3>3, BestHasHeard DEF queue!heardBy
    <3> QED
      BY <3>2, <3>3
  <2> QED
    BY <1>1, <1>3, <2>1 DEF queue!hasUplink
<1> QED
  BY <1>2, <1>3 DEF sendQueue

\* So it leaves the bytes of every item alone.
LEMMA SendQueueKeeps ==
    ASSUME IInv, OneWaits, NEW freed, sendQueue(freed), NEW a \in Addrs
    PROVE  \/ uplinkMessages'[a] = uplinkMessages[a]
           \/ /\ queue!hasUplink(a)
              /\ uplinkMessages'[a].plain = uplinkMessages[a].plain
              /\ uplinkMessages'[a].delivered = uplinkMessages[a].delivered
<1>1. queue!hasUplink(a) => uplinkMessages[a] \in queue!UplinkItem
  BY UplinksTyped DEF IInv, queue!hasUplink
<1> QED
  BY <1>1, SendQueueItem DEF queue!UplinkItem

\* The report of the frame a thread has in hand.
Report(t) == [lsnr |-> job[t].lsnr, t |-> job[t].t, of |-> job[t].radioPacket]

\* The item of that frame alone.
NewItem(t) ==
    queue!newItem(job[t].t, job[t].gatewayId, job[t].radioPacket, job[t].stale,
                  Report(t))

\* putUplink adds a report, adds an item or does nothing, to one device.
LEMMA PutItem ==
    ASSUME IInv, NEW t \in Threads, put(t), NEW a \in Addrs
    PROVE  \/ uplinkMessages'[a] = uplinkMessages[a]
           \/ /\ a = job[t].radioPacket.addr
              /\ queue!isSame(a, job[t].radioPacket, job[t].stale)
              /\ uplinkMessages'[a] =
                    [uplinkMessages[a] EXCEPT !.metadata[job[t].gatewayId] = Report(t)]
           \/ /\ a = job[t].radioPacket.addr
              /\ ~queue!hasUplink(a)
              /\ uplinkMessages'[a] = NewItem(t)
<1> DEFINE j == job[t]
           pkt == j.radioPacket
<1>1. uplinkMessages \in [Addrs -> queue!UplinkItem \cup {NoItem}]
  BY UplinksTyped DEF IInv
<1>2. queue!putUplink(j.t, j.gatewayId, pkt, j.stale, j.lsnr)
  BY DEF put
<1>3. CASE /\ queue!isSame(pkt.addr, pkt, j.stale)
           /\ queue!setMetadata(pkt.addr, j.gatewayId, Report(t))
  BY <1>1, <1>3 DEF queue!setMetadata
<1>4. CASE /\ ~queue!hasUplink(pkt.addr)
           /\ uplinkMessages' = [uplinkMessages EXCEPT ![pkt.addr] = NewItem(t)]
  BY <1>1, <1>4
<1>5. CASE UNCHANGED uplinkMessages
  BY <1>5
<1> QED
  BY <1>2, <1>3, <1>4, <1>5 DEF queue!putUplink, Report, NewItem

\* So it leaves an item's bytes alone; a new item is not deciphered.
LEMMA PutKeeps ==
    ASSUME IInv, NEW t \in Threads, put(t), NEW a \in Addrs
    PROVE  \/ uplinkMessages'[a] = uplinkMessages[a]
           \/ /\ queue!hasUplink(a)
              /\ uplinkMessages'[a].plain = uplinkMessages[a].plain
              /\ uplinkMessages'[a].delivered = uplinkMessages[a].delivered
           \/ /\ ~queue!hasUplink(a)
              /\ uplinkMessages'[a].plain = FALSE
<1>1. queue!hasUplink(a) => uplinkMessages[a] \in queue!UplinkItem
  BY UplinksTyped DEF IInv, queue!hasUplink
<1>2. NewItem(t).plain = FALSE
  BY DEF NewItem, queue!newItem
<1> QED
  BY <1>1, <1>2, PutItem DEF queue!UplinkItem, queue!isSame

\* Four actions write to the uplinks.
LEMMA WhoWrites ==
    ASSUME [Next]_vars
    PROVE  \/ UNCHANGED uplinkMessages
           \/ \E t \in Threads : put(t)
           \/ readControl
           \/ \E freed \in Addrs \cup {NoAddr} : sendQueue(freed)
           \/ cleanup
<1>1. ASSUME NEW g, NEW p, NEW l, onPushData(g, p, l) \/ readPushData(g, p, l)
      PROVE  UNCHANGED uplinkMessages
  BY <1>1 DEF onPushData, readPushData, receive, queueVars
<1>2. ASSUME NEW t, announce(t) \/ prepareSendConfirmation(t)
      PROVE  UNCHANGED uplinkMessages
  BY <1>2 DEF announce, prepareSendConfirmation, queueVars
<1>3. ASSUME timeout \/ timerEvent \/ sendQueueEnd \/ arm
      PROVE  UNCHANGED uplinkMessages
  BY <1>3 DEF timeout, timerEvent, sendQueueEnd, arm, queueVars
<1>4. ASSUME NEW s, NEW b, NEW tim, enqueueFind(s, b, tim) \/ enqueueLookup(s, b, tim)
      PROVE  UNCHANGED uplinkMessages
  BY <1>4 DEF enqueueFind, enqueueLookup, queueVars
<1>5. ASSUME NEW s, senderStep(s) PROVE UNCHANGED uplinkMessages
  BY <1>5 DEF senderStep, enqueueCopy, enqueuePut, queue!putDownlink, queueVars
<1>6. ASSUME NEW g, pullData(g) PROVE UNCHANGED uplinkMessages
  BY <1>6 DEF pullData, queueVars
<1>7. ASSUME hostArms \/ tick \/ UNCHANGED vars PROVE UNCHANGED uplinkMessages
  BY <1>7 DEF hostArms, tick, vars, queueVars
<1> QED
  BY <1>1, <1>2, <1>3, <1>4, <1>5, <1>6, <1>7 DEF Next, pushStep, loopStep

\* readControl delivers one item or none.
LEMMA ReadControlKeeps ==
    ASSUME IInv, readControl, NEW a \in Addrs
    PROVE  \/ uplinkMessages'[a] = uplinkMessages[a]
           \/ queue!hasUplink(a) /\ sendPayloadOverBridge(a)
<1> DEFINE addr == Head(control)
<1>1. CASE queue!hasUplink(addr) /\ sendPayloadOverBridge(addr)
  <2>1. CASE a = addr
    BY <1>1, <2>1
  <2>2. CASE a # addr
    BY <1>1, <2>2, UplinksTyped DEF sendPayloadOverBridge, IInv
  <2> QED
    BY <2>1, <2>2
<1>2. CASE UNCHANGED uplinkMessages
  BY <1>2
<1> QED
  BY <1>1, <1>2 DEF readControl

\* What a step does to an item that is queued after it.
LEMMA ItemStep ==
    ASSUME IInv, OneWaits, [Next]_vars, NEW a \in Addrs, queue!hasUplink(a)'
    PROVE  \/ uplinkMessages'[a] = uplinkMessages[a]
           \/ /\ queue!hasUplink(a)
              /\ uplinkMessages'[a].plain = uplinkMessages[a].plain
              /\ uplinkMessages'[a].delivered = uplinkMessages[a].delivered
           \/ /\ ~queue!hasUplink(a)
              /\ uplinkMessages'[a].plain = FALSE
           \/ /\ queue!hasUplink(a)
              /\ sendPayloadOverBridge(a)
<1>1. ASSUME cleanup PROVE uplinkMessages'[a] = uplinkMessages[a]
  BY <1>1 DEF cleanup, queue!clearOldUplinkMessages, queue!hasUplink
<1> QED
  BY <1>1, WhoWrites, PutKeeps, ReadControlKeeps, SendQueueKeeps

\* No step deciphers an item without delivering it.
LEMMA FreshStep == IInv /\ OneWaits /\ Fresh /\ [Next]_vars => Fresh'
<1> SUFFICES ASSUME IInv, OneWaits, Fresh, [Next]_vars,
                    NEW a \in Addrs, queue!hasUplink(a)',
                    ~uplinkMessages'[a].delivered
             PROVE  ~uplinkMessages'[a].plain
  BY DEF Fresh
<1>1. CASE uplinkMessages'[a] = uplinkMessages[a]
  BY <1>1 DEF Fresh, queue!hasUplink
<1>2. CASE /\ queue!hasUplink(a)
           /\ uplinkMessages'[a].plain = uplinkMessages[a].plain
           /\ uplinkMessages'[a].delivered = uplinkMessages[a].delivered
  BY <1>2 DEF Fresh
<1>3. CASE queue!hasUplink(a) /\ sendPayloadOverBridge(a)
  <2> DEFINE item == uplinkMessages[a]
             new == [item EXCEPT !.plain = item.radioPacket.payload # item.plain,
                                 !.delivered = TRUE]
  <2>1. item \in queue!UplinkItem
    BY <1>3, UplinksTyped DEF queue!hasUplink, IInv
  <2>2. new.delivered = TRUE
    BY <2>1 DEF queue!UplinkItem
  <2>3. uplinkMessages'[a] = new
    BY <1>3, UplinksTyped DEF sendPayloadOverBridge, IInv
  <2> QED
    BY <2>2, <2>3
<1> QED
  BY <1>1, <1>2, <1>3, ItemStep

\* An item that has not been delivered holds the bytes that were on the air.
LEMMA AlwaysFresh == Spec => [](IInv /\ OneWaits /\ Fresh)
<1>1. Init => Fresh
  BY DEF Init, queue!Init, Fresh, queue!hasUplink
<1> QED
  BY <1>1, FreshStep, Invariant, PTL DEF Spec

\* The only step from "put" to "announce" is the thread's own.
LEMMA PutIsOwn ==
    ASSUME IInv, [Next]_vars, NEW t \in Threads, pc[t] = "put", pc'[t] = "announce"
    PROVE  put(t)
<1>1. pc \in [Threads -> {"idle", "put", "announce", "confirm",
                          "sendQueue", "arm", "cleanup"}]
  BY DEF IInv, TypeOK
<1>2. pc' # pc
  OBVIOUS
<1>3. ASSUME NEW u, NEW g, NEW p, NEW st, NEW l, receive(u, g, p, st, l) PROVE FALSE
  BY <1>1, <1>3 DEF receive
<1>4. ASSUME NEW u \in Threads, put(u) PROVE u = t
  BY <1>1, <1>4 DEF put
<1>5. ASSUME NEW u \in Threads, announce(u) PROVE FALSE
  BY <1>1, <1>5 DEF announce, return
<1>6. ASSUME NEW u \in Threads, prepareSendConfirmation(u) PROVE FALSE
  BY <1>1, <1>6 DEF prepareSendConfirmation, return
<1>7. ~loopStep
  <2>1. ~readControl
    BY <1>2 DEF readControl
  <2>2. ~(timeout \/ timerEvent)
    BY <1>1 DEF timeout, timerEvent, wake
  <2>3. ASSUME NEW freed PROVE ~sendQueue(freed)
    BY <1>2 DEF sendQueue, threadVars
  <2>4. ~(sendQueueEnd \/ arm \/ cleanup)
    BY <1>1 DEF sendQueueEnd, arm, cleanup, return
  <2> QED
    BY <2>1, <2>2, <2>3, <2>4 DEF loopStep
<1>8. ASSUME NEW s, NEW b, NEW tim, enqueueFind(s, b, tim) \/ enqueueLookup(s, b, tim)
      PROVE  FALSE
  BY <1>2, <1>8 DEF enqueueFind, enqueueLookup, threadVars
<1>9. ASSUME NEW s, senderStep(s) PROVE FALSE
  BY <1>2, <1>9 DEF senderStep, enqueueCopy, enqueuePut, threadVars
<1>10. ASSUME NEW g, pullData(g) PROVE FALSE
  BY <1>2, <1>10 DEF pullData
<1>11. ~(hostArms \/ tick \/ UNCHANGED vars)
  BY <1>2 DEF hostArms, tick, vars, threadVars
<1> QED
  BY <1>3, <1>4, <1>5, <1>6, <1>7, <1>8, <1>9, <1>10, <1>11
     DEF Next, pushStep, onPushData, readPushData

\* Nothing shows behind a longest frame, and nothing behind one that came over
\* USB, as long as the copies of the item did.
Unstained(pkt, gws, stale) == (gws \subseteq UsbGateways \/ longest(pkt)) => stale = {}

Clean ==
    /\ \A t \in Threads : pc[t] = "put" =>
            Unstained(job[t].radioPacket, {job[t].gatewayId}, job[t].stale)
    /\ \A a \in Addrs : queue!hasUplink(a) =>
            Unstained(uplinkMessages[a].radioPacket, queue!heardBy(uplinkMessages[a]),
                      uplinkMessages[a].stale)

\* A frame comes with such a storage.
LEMMA ReceiveClean ==
    ASSUME IInv, Clean, NEW g \in Gateways, NEW p \in Packets, NEW l \in Lsnr,
           onPushData(g, p, l) \/ readPushData(g, p, l)
    PROVE  Clean'
<1>1. \A q \in Packets : q.size \in Nat
  BY QueueAssumption DEF queue!MessageQueueAssumption
<1>2. longest(p) => longer(p) = {}
  BY <1>1 DEF longest, longer, IInv, TypeOK
<1>3. PICK t \in Threads, st \in SUBSET Packets :
          receive(t, g, p, st, l) /\ Unstained(p, {g}, st)
  BY <1>2, HeardByThread
     DEF onPushData, readPushData, Unstained, Threads, longer, IInv, TypeOK
<1> DEFINE new == [radioPacket |-> p, stale |-> st, gatewayId |-> g,
                   lsnr |-> l, t |-> now]
<1>4. /\ UNCHANGED uplinkMessages
      /\ pc' = [pc EXCEPT ![t] = "put"] /\ job' = [job EXCEPT ![t] = new]
  BY <1>3 DEF receive, queueVars
<1>5. ASSUME NEW u \in Threads, pc'[u] = "put"
      PROVE  Unstained(job'[u].radioPacket, {job'[u].gatewayId}, job'[u].stale)
  <2>1. CASE u = t
    BY <1>3, <1>4, <2>1 DEF IInv, TypeOK
  <2>2. CASE u # t
    BY <1>4, <1>5, <2>2 DEF Clean, IInv, TypeOK
  <2> QED
    BY <2>1, <2>2
<1> QED
  BY <1>4, <1>5 DEF Clean, queue!hasUplink, queue!heardBy

\* The reports of an item after one more.
LEMMA ReportHeard ==
    ASSUME NEW item \in queue!UplinkItem, NEW g \in Gateways,
           NEW meta \in queue!Metadata
    PROVE  LET new == [item EXCEPT !.metadata[g] = meta]
           IN  /\ queue!heardBy(item) \cup {g} \subseteq queue!heardBy(new)
               /\ new.radioPacket = item.radioPacket
               /\ new.stale = item.stale
               /\ new.delivered = item.delivered
<1> DEFINE new == [item EXCEPT !.metadata[g] = meta]
<1>1. meta # NoMeta
  BY QueueAssumption DEF queue!NoKeyAssumption
<1>2. item.metadata \in [Gateways -> queue!Metadata \cup {NoMeta}]
  BY DEF queue!UplinkItem
<1>3. new.metadata = [item.metadata EXCEPT ![g] = meta]
  BY DEF queue!UplinkItem
<1>4. queue!heardBy(item) \cup {g} \subseteq queue!heardBy(new)
  BY <1>1, <1>2, <1>3 DEF queue!heardBy
<1>5. /\ new.radioPacket = item.radioPacket
      /\ new.stale = item.stale
      /\ new.delivered = item.delivered
  BY DEF queue!UplinkItem
<1> QED
  BY <1>4, <1>5

\* The reception a thread is about to put.
LEMMA JobTyped ==
    ASSUME IInv, NEW t \in Threads, pc[t] \in {"put", "announce", "confirm"}
    PROVE  /\ job[t] \in Reception /\ job[t].gatewayId \in Gateways
           /\ job[t].radioPacket.addr \in Addrs
           /\ Report(t) \in queue!Metadata
BY QueueAssumption
   DEF IInv, JobsPush, Reception, queue!MessageQueueAssumption, queue!Metadata, Report

\* putUplink() keeps the queue clean.
LEMMA PutClean ==
    ASSUME IInv, Clean, NEW t \in Threads, put(t), NEW a \in Addrs,
           queue!hasUplink(a)'
    PROVE  Unstained(uplinkMessages'[a].radioPacket,
                     queue!heardBy(uplinkMessages'[a]), uplinkMessages'[a].stale)
<1> DEFINE j == job[t]
<1>1. /\ pc[t] = "put" /\ j.gatewayId \in Gateways /\ Report(t) \in queue!Metadata
  BY JobTyped DEF put
<1>2. CASE uplinkMessages'[a] = uplinkMessages[a]
  BY <1>2 DEF Clean, queue!hasUplink
<1>3. CASE /\ queue!isSame(a, j.radioPacket, j.stale)
           /\ uplinkMessages'[a] =
                [uplinkMessages[a] EXCEPT !.metadata[j.gatewayId] = Report(t)]
  <2>1. uplinkMessages[a] \in queue!UplinkItem /\ queue!hasUplink(a)
    BY <1>3, UplinksTyped DEF queue!isSame, queue!hasUplink, IInv
  <2>2. /\ queue!heardBy(uplinkMessages[a]) \subseteq queue!heardBy(uplinkMessages'[a])
        /\ uplinkMessages'[a].radioPacket = uplinkMessages[a].radioPacket
        /\ uplinkMessages'[a].stale = uplinkMessages[a].stale
    BY <1>1, <1>3, <2>1, ReportHeard
  <2> QED
    BY <2>1, <2>2 DEF Clean, Unstained
<1>4. CASE uplinkMessages'[a] = NewItem(t)
  <2>1. /\ NewItem(t).radioPacket = j.radioPacket /\ NewItem(t).stale = j.stale
        /\ NewItem(t).metadata = [g \in Gateways |-> IF g = j.gatewayId THEN Report(t)
                                                     ELSE NoMeta]
    BY DEF NewItem, queue!newItem
  <2>2. j.gatewayId \in queue!heardBy(NewItem(t))
    BY <1>1, <2>1, QueueAssumption DEF queue!heardBy, queue!NoKeyAssumption
  <2> QED
    BY <1>1, <1>4, <2>1, <2>2 DEF Clean, Unstained
<1> QED
  BY <1>2, <1>3, <1>4, PutItem

\* What the other steps do to the reports and the storage of an item.
LEMMA OthersClean ==
    ASSUME IInv, OneWaits, Clean, [Next]_vars, ~(\E t \in Threads : put(t)),
           NEW a \in Addrs, queue!hasUplink(a)'
    PROVE  Unstained(uplinkMessages'[a].radioPacket,
                     queue!heardBy(uplinkMessages'[a]), uplinkMessages'[a].stale)
<1> DEFINE item == uplinkMessages[a]
           new == uplinkMessages'[a]
<1>1. queue!hasUplink(a) => item \in queue!UplinkItem
  BY UplinksTyped DEF IInv, queue!hasUplink
<1>2. \/ new = item
      \/ /\ queue!hasUplink(a)
         /\ new.radioPacket = item.radioPacket /\ new.stale = item.stale
         /\ new.metadata = item.metadata
  <2>1. CASE UNCHANGED uplinkMessages
    BY <2>1
  <2>2. CASE readControl
    <3>1. CASE queue!hasUplink(a) /\ sendPayloadOverBridge(a)
      <4> DEFINE d == [item EXCEPT !.plain = item.radioPacket.payload # item.plain,
                                   !.delivered = TRUE]
      <4>1. new = d
        BY <3>1, UplinksTyped DEF sendPayloadOverBridge, IInv
      <4> QED
        BY <1>1, <3>1, <4>1 DEF queue!UplinkItem
    <3> QED
      BY <2>2, <3>1, ReadControlKeeps
  <2>3. CASE \E freed \in Addrs \cup {NoAddr} : sendQueue(freed)
    BY <1>1, <2>3, SendQueueItem DEF queue!UplinkItem
  <2>4. CASE cleanup
    BY <2>4 DEF cleanup, queue!clearOldUplinkMessages, queue!hasUplink
  <2> QED
    BY <2>1, <2>2, <2>3, <2>4, WhoWrites
<1> QED
  BY <1>2 DEF Clean, queue!hasUplink, queue!heardBy

\* Only a frame that is heard brings a thread to "put".
LEMMA PuttersKept ==
    ASSUME IInv, [Next]_vars,
           ~(\E g \in Gateways, p \in Packets, l \in Lsnr :
                onPushData(g, p, l) \/ readPushData(g, p, l)),
           NEW u \in Threads, pc'[u] = "put"
    PROVE  pc[u] = "put" /\ job'[u] = job[u]
<1>1. /\ pc \in [Threads -> {"idle", "put", "announce", "confirm",
                             "sendQueue", "arm", "cleanup"}]
      /\ job \in [Threads -> Job \cup {NoJob}] /\ Loop \in Threads
  BY DEF IInv, TypeOK, Threads
<1>2. ASSUME NEW t \in Threads, pushStep(t) PROVE pc[u] = "put" /\ job'[u] = job[u]
  BY <1>1, <1>2 DEF pushStep, put, announce, prepareSendConfirmation, return
<1>3. CASE loopStep
  <2>1. CASE readControl
    BY <2>1 DEF readControl
  <2>2. CASE timeout \/ timerEvent
    BY <1>1, <2>2 DEF timeout, timerEvent, wake
  <2>3. ASSUME NEW freed, sendQueue(freed) PROVE pc[u] = "put" /\ job'[u] = job[u]
    BY <2>3 DEF sendQueue, threadVars
  <2>4. CASE sendQueueEnd \/ arm \/ cleanup
    BY <1>1, <2>4 DEF sendQueueEnd, arm, cleanup, return
  <2> QED
    BY <1>3, <2>1, <2>2, <2>3, <2>4 DEF loopStep
<1>4. ASSUME NEW s, NEW b, NEW tim, enqueueFind(s, b, tim) \/ enqueueLookup(s, b, tim)
      PROVE  pc[u] = "put" /\ job'[u] = job[u]
  BY <1>4 DEF enqueueFind, enqueueLookup, threadVars
<1>5. ASSUME NEW s, senderStep(s) PROVE pc[u] = "put" /\ job'[u] = job[u]
  BY <1>5 DEF senderStep, enqueueCopy, enqueuePut, threadVars
<1>6. ASSUME NEW g, pullData(g) PROVE pc[u] = "put" /\ job'[u] = job[u]
  BY <1>6 DEF pullData
<1>7. CASE hostArms \/ tick \/ UNCHANGED vars
  BY <1>7 DEF hostArms, tick, vars, threadVars
<1> QED
  BY <1>2, <1>3, <1>4, <1>5, <1>6, <1>7 DEF Next

\* Every step keeps the queue clean.
LEMMA CleanStep == IInv /\ OneWaits /\ Clean /\ [Next]_vars => Clean'
<1> SUFFICES ASSUME IInv, OneWaits, Clean, [Next]_vars PROVE Clean'
  OBVIOUS
<1>1. CASE \E g \in Gateways, p \in Packets, l \in Lsnr :
                onPushData(g, p, l) \/ readPushData(g, p, l)
  BY <1>1, ReceiveClean
<1>2. CASE ~(\E g \in Gateways, p \in Packets, l \in Lsnr :
                onPushData(g, p, l) \/ readPushData(g, p, l))
  <2>1. \A u \in Threads : pc'[u] = "put" => pc[u] = "put" /\ job'[u] = job[u]
    BY <1>2, PuttersKept
  <2>2. \A u \in Threads : pc'[u] = "put" =>
            Unstained(job'[u].radioPacket, {job'[u].gatewayId}, job'[u].stale)
    BY <2>1 DEF Clean
  <2>3. \A a \in Addrs : queue!hasUplink(a)' =>
            Unstained(uplinkMessages'[a].radioPacket,
                      queue!heardBy(uplinkMessages'[a]), uplinkMessages'[a].stale)
    BY PutClean, OthersClean
  <2>4. \A a \in Addrs : queue!heardBy(uplinkMessages[a])' = queue!heardBy(uplinkMessages'[a])
    BY DEF queue!heardBy
  <2>5. ASSUME NEW p, NEW g, NEW st
        PROVE  Unstained(p, g, st)' <=> Unstained(p', g', st')
    BY DEF Unstained, longest
  <2> QED
    BY <2>2, <2>3, <2>4 DEF Clean, Unstained, longest, queue!hasUplink
<1> QED
  BY <1>1, <1>2

\* A copy of a queued frame that the application has not got is kept, when both
\* storages hold nothing behind it: the item's bytes are those of the copy, so
\* putUplink() finds them equal and adds the report, whatever the other threads
\* do.  Frames that came over USB, and the longest ones, have such storages
\* (putUplink, decode, sendPayloadOverBridge, setLORAWAN_MESSAGE_STORAGE).
THEOREM CopiesAreKept == Spec => CopiesMergeUntilDelivered
<1> DEFINE Kept(t) ==
        LET pkt == job[t].radioPacket
            item == uplinkMessages[pkt.addr]
        IN  (/\ pc[t] = "put" /\ pc'[t] = "announce"
             /\ queue!hasUplink(pkt.addr)
             /\ item.radioPacket = pkt
             /\ ~item.delivered
             /\ \/ {job[t].gatewayId} \cup queue!heardBy(item) \subseteq UsbGateways
                \/ longest(pkt))
            => job[t].gatewayId \in queue!heardBy(uplinkMessages'[pkt.addr])
<1>1. ASSUME IInv, Fresh, Clean, [Next]_vars, NEW t \in Threads,
             pc[t] = "put", pc'[t] = "announce",
             queue!hasUplink(job[t].radioPacket.addr),
             uplinkMessages[job[t].radioPacket.addr].radioPacket = job[t].radioPacket,
             ~uplinkMessages[job[t].radioPacket.addr].delivered,
             \/ {job[t].gatewayId} \cup
                    queue!heardBy(uplinkMessages[job[t].radioPacket.addr])
                        \subseteq UsbGateways
             \/ longest(job[t].radioPacket)
      PROVE  job[t].gatewayId \in
                queue!heardBy(uplinkMessages'[job[t].radioPacket.addr])
  <2> DEFINE j == job[t]
             pkt == j.radioPacket
             old == uplinkMessages[pkt.addr]
             new == [old EXCEPT !.metadata[j.gatewayId] = Report(t)]
  <2>1. put(t)
    BY <1>1, PutIsOwn
  <2>2. pkt.addr \in Addrs /\ j.gatewayId \in Gateways /\ Report(t) \in queue!Metadata
    BY <1>1, JobTyped
  <2>3. j.stale = {} /\ old.stale = {}
    BY <1>1, <2>2 DEF Clean, Unstained
  <2>4. queue!isSame(pkt.addr, pkt, j.stale)
    BY <1>1, <2>2, <2>3 DEF queue!isSame, Fresh
  <2>5. old \in queue!UplinkItem
    BY <1>1, <2>2, UplinksTyped DEF queue!hasUplink, IInv
  <2>6. uplinkMessages' = [uplinkMessages EXCEPT ![pkt.addr] = new]
    BY <2>1, <2>4 DEF put, queue!putUplink, queue!setMetadata, queue!isSame, Report
  <2>7. uplinkMessages'[pkt.addr] = new
    BY <1>1, <2>2, <2>6, UplinksTyped DEF IInv
  <2> QED
    BY <2>2, <2>5, <2>7, ReportHeard
<1>2. IInv /\ Fresh /\ Clean /\ [Next]_vars => [\A t \in Threads : Kept(t)]_vars
  BY <1>1
<1>3. Init => Clean
  BY DEF Init, queue!Init, Clean, queue!hasUplink
<1>4. Spec => []Clean
  BY <1>3, CleanStep, Invariant, PTL DEF Spec
<1> QED
  BY <1>2, <1>4, AlwaysFresh, PTL DEF Spec, CopiesMergeUntilDelivered

\* The application's first sight of a known device's frame is the frame itself in
\* plain text, and its integrity code was checked over the bytes on the air
\* (sendPayloadOverBridge).
THEOREM FirstDeliveryAlwaysPlain == Spec => FirstDeliveryIsPlain
<1>1. ASSUME IInv, OneWaits, Fresh, [Next]_vars, NEW a \in Registered,
             queue!hasUplink(a), queue!hasUplink(a)',
             ~uplinkMessages[a].delivered, uplinkMessages'[a].delivered
      PROVE  /\ bridge'.addr = a
             /\ bridge'.radioPacket = uplinkMessages[a].radioPacket
             /\ bridge'.plain
             /\ bridge'.micMatched = ~uplinkMessages[a].radioPacket.fopts
  <2> DEFINE item == uplinkMessages[a]
  <2>1. a \in Addrs
    BY DispatcherAssumption
  <2>2. sendPayloadOverBridge(a)
    BY <1>1, <2>1, ItemStep
  <2>3. ~item.plain
    BY <1>1, <2>1 DEF Fresh
  <2>4. item.radioPacket.addr = a /\ item.radioPacket \in Packets
    <3>1. QP!Sound(a, item) /\ item \in queue!UplinkItem
      BY <1>1, <2>1, UplinksTyped
         DEF IInv, queue!hasUplink, QP!UplinkInv, QP!UplinksSound, QP!hasUplink
    <3> QED
      BY <3>1 DEF QP!Sound, QP!heardBy, queue!UplinkItem, queue!Metadata
  <2>5. item.radioPacket.fopts \in BOOLEAN
    BY <2>4, QueueAssumption DEF queue!MessageQueueAssumption
  <2>6. matchMic(item) = ~item.radioPacket.fopts
    BY <2>3, <2>4, <2>5 DEF matchMic
  <2>7. bridge' = [addr |-> a, radioPacket |-> item.radioPacket,
                   decoded |-> item.radioPacket.payload,
                   micMatched |-> matchMic(item),
                   plain |-> a \in Registered /\ ~item.plain]
    BY <2>2 DEF sendPayloadOverBridge
  <2> QED
    BY <2>3, <2>6, <2>7
<1>2. IInv /\ OneWaits /\ Fresh /\ [Next]_vars =>
        [\A a \in Registered :
            (/\ queue!hasUplink(a) /\ queue!hasUplink(a)'
             /\ ~uplinkMessages[a].delivered /\ uplinkMessages'[a].delivered)
            => /\ bridge'.addr = a
               /\ bridge'.radioPacket = uplinkMessages[a].radioPacket
               /\ bridge'.plain
               /\ bridge'.micMatched = ~uplinkMessages[a].radioPacket.fopts]_vars
  BY <1>1
<1> QED
  BY <1>2, AlwaysFresh, PTL DEF Spec, FirstDeliveryIsPlain

----------------------------------------------------------------------------
(* Threads that are fast compared to a tick (Prompt).                       *)
(*                                                                         *)
(* The clock moves only when every thread is idle, the control socket is    *)
(* empty and neither the timer nor select() is due.  So whatever a thread   *)
(* works on is of this instant, an item the application has not got is of   *)
(* this instant too, and an armed timer is the time at which the waiting    *)
(* address has waited WaitTime.                                             *)

\* A frame in pushData() and receivedTime are now; a sender's call too, unless a
\* bridge gave it no time.
Current ==
    /\ \A t \in Threads : pc[t] # "idle" => job[t].t = now
    /\ \A s \in Senders : enq[s].pc # "idle" => enq[s].tim \in {now, Epoch}

\* The times of an item and its reports.
Dated(item) ==
    /\ item.tim <= now
    /\ \A g \in queue!heardBy(item) : item.tim <= item.metadata[g].t
    /\ (Datagram /\ ~item.delivered) => item.tim = now

ItemsDated == \A a \in Addrs : queue!hasUplink(a) => Dated(uplinkMessages[a])

\* When the loop has the timer in hand, what waits is either due or of this
\* instant.  When it arms the timer what was due is gone, except for what a bridge
\* pushed since: Epoch is so long ago that it is always due.
WaitersDated ==
    /\ WaitTime <= now
    /\ \A e \in timeAddr :
        /\ e.time <= now
        /\ pc[Loop] = "sendQueue" => (e.time = now \/ e.time + WaitTime <= now)
        /\ pc[Loop] = "arm" => e.time \in {now, Epoch}

TimerIsExact ==
    timer # NoTime =>
        /\ timer >= now
        /\ pc[Loop] = "sendQueue" => timer > now
        /\ \E e \in timeAddr : timer = e.time + WaitTime

PInv == Current /\ ItemsDated /\ WaitersDated /\ TimerIsExact

----------------------------------------------------------------------------

\* The clock waits for every thread.
LEMMA TickSettled ==
    ASSUME Prompt = TRUE, tick
    PROVE  settled /\ now' = now + 1
BY DEF tick

\* A thread returns: nothing is in its hands.
LEMMA ReturnEffect ==
    ASSUME IInv, NEW t \in Threads, return(t)
    PROVE  /\ pc'[t] = "idle"
           /\ \A u \in Threads \ {t} : pc'[u] = pc[u] /\ job'[u] = job[u]
BY DEF IInv, TypeOK, return

\* The loop wakes up with the time of this instant.
LEMMA WakeEffect ==
    ASSUME IInv, NEW next, wake(next)
    PROVE  /\ pc'[Loop] = next /\ job'[Loop].t = now
           /\ \A u \in Threads \ {Loop} : pc'[u] = pc[u] /\ job'[u] = job[u]
BY DEF IInv, TypeOK, wake, Threads

\* What a thread starts is of this instant, and the clock waits until it ends.
LEMMA ThreadsCurrentStep ==
    ASSUME Prompt = TRUE, IInv, [Next]_vars,
           \A t \in Threads : pc[t] # "idle" => job[t].t = now
    PROVE  \A t \in Threads : pc'[t] # "idle" => job'[t].t = now'
<1> DEFINE C == \A t \in Threads : pc[t] # "idle" => job[t].t = now
<1>1. pc \in [Threads -> {"idle", "put", "announce", "confirm",
                          "sendQueue", "arm", "cleanup"}]
      /\ job \in [Threads -> Job \cup {NoJob}]
  BY DEF IInv, TypeOK
<1>2. ASSUME UNCHANGED <<pc, job, now>> PROVE C'
  BY <1>2
<1>3. ASSUME NEW u \in Threads, NEW g, NEW p, NEW st, NEW l, receive(u, g, p, st, l)
      PROVE  C'
  BY <1>1, <1>3 DEF receive
<1>4. ASSUME NEW u \in Threads, put(u) PROVE C'
  BY <1>1, <1>4 DEF put
<1>5. ASSUME NEW u \in Threads, announce(u) PROVE C'
  <2>1. CASE return(u)
    BY <1>5, <2>1, ReturnEffect DEF announce
  <2>2. CASE pc' = [pc EXCEPT ![u] = "confirm"] /\ UNCHANGED <<job, waitSince>>
    BY <1>1, <1>5, <2>2 DEF announce
  <2> QED
    BY <1>5, <2>1, <2>2 DEF announce
<1>6. ASSUME NEW u \in Threads, prepareSendConfirmation(u) PROVE C'
  BY <1>6, ReturnEffect DEF prepareSendConfirmation
<1>7. ASSUME timeout \/ timerEvent PROVE C'
  BY <1>7, WakeEffect DEF timeout, timerEvent
<1>8. ASSUME sendQueueEnd \/ arm PROVE C'
  BY <1>1, <1>8 DEF sendQueueEnd, arm, Threads
<1>9. ASSUME cleanup PROVE C'
  BY <1>9, ReturnEffect DEF cleanup, Threads
<1>10. ASSUME readControl PROVE C'
  BY <1>2, <1>10 DEF readControl
<1>11. ASSUME NEW freed, sendQueue(freed) PROVE C'
  BY <1>2, <1>11 DEF sendQueue, threadVars
<1>12. ASSUME NEW s, NEW b, NEW tim, enqueueFind(s, b, tim) \/ enqueueLookup(s, b, tim)
       PROVE  C'
  BY <1>2, <1>12 DEF enqueueFind, enqueueLookup, threadVars
<1>13. ASSUME NEW s, senderStep(s) PROVE C'
  BY <1>2, <1>13 DEF senderStep, enqueueCopy, enqueuePut, threadVars
<1>14. ASSUME NEW g, pullData(g) PROVE C'
  BY <1>2, <1>14 DEF pullData
<1>15. ASSUME hostArms \/ UNCHANGED vars PROVE C'
  BY <1>2, <1>15 DEF hostArms, vars, threadVars
<1>16. ASSUME tick PROVE C'
  BY <1>16, TickSettled DEF tick, settled, threadVars
<1> QED
  BY <1>3, <1>4, <1>5, <1>6, <1>7, <1>8, <1>9, <1>10, <1>11, <1>12, <1>13, <1>14,
     <1>15, <1>16 DEF Next, pushStep, loopStep, onPushData, readPushData, Threads

\* So is a sender's call.
LEMMA SendersCurrentStep ==
    ASSUME Prompt = TRUE, IInv, [Next]_vars,
           \A s \in Senders : enq[s].pc # "idle" => enq[s].tim \in {now, Epoch}
    PROVE  \A s \in Senders : enq'[s].pc # "idle" => enq'[s].tim \in {now', Epoch}
<1> DEFINE C == \A s \in Senders : enq[s].pc # "idle" => enq[s].tim \in {now, Epoch}
<1>1. enq \in [Senders -> Enqueue]
  BY DEF IInv, TypeOK
<1>2. ASSUME UNCHANGED <<enq, now>> PROVE C'
  BY <1>2
<1>3. ASSUME NEW t, pushStep(t) PROVE C'
  BY <1>2, <1>3 DEF pushStep, put, announce, prepareSendConfirmation
<1>4. ASSUME NEW t, NEW g, NEW p, NEW st, NEW l, receive(t, g, p, st, l) PROVE C'
  BY <1>2, <1>4 DEF receive
<1>5. ASSUME readControl \/ timeout \/ timerEvent \/ sendQueueEnd \/ arm PROVE C'
  BY <1>2, <1>5 DEF readControl, timeout, timerEvent, sendQueueEnd, arm
<1>6. ASSUME NEW freed, sendQueue(freed) PROVE C'
  BY <1>2, <1>6 DEF sendQueue
<1>7. ASSUME cleanup PROVE C'
  <2>1. ASSUME NEW s \in Senders, enq[s].pc = "copy"
        PROVE  [enq[s] EXCEPT !.dangling = TRUE].tim = enq[s].tim
    BY <1>1, <2>1, CallTyped DEF Call
  <2> QED
    BY <1>7, <2>1 DEF cleanup
<1>8. ASSUME NEW s \in Senders, NEW b, NEW tim \in {now, Epoch},
             enqueueFind(s, b, tim) \/ enqueueLookup(s, b, tim)
      PROVE  C'
  BY <1>1, <1>8 DEF enqueueFind, enqueueLookup
<1>9. ASSUME NEW s \in Senders, enqueueCopy(s) PROVE C'
  <2>1. enq[s] \in Call
    BY <1>1, <1>9, CallTyped DEF enqueueCopy
  <2>2. PICK a, g : enq' = [enq EXCEPT ![s].pc = "put", ![s].addr = a, ![s].gatewayId = g]
    BY <1>9 DEF enqueueCopy
  <2> DEFINE new == [enq[s] EXCEPT !.pc = "put", !.addr = a, !.gatewayId = g]
  <2>3. new.tim = enq[s].tim
    BY <2>1 DEF Call
  <2>4. enq'[s] = new /\ \A r \in Senders \ {s} : enq'[r] = enq[r]
    BY <1>1, <2>2
  <2> QED
    BY <1>9, <2>3, <2>4 DEF enqueueCopy
<1>10. ASSUME NEW s \in Senders, enqueuePut(s) PROVE C'
  BY <1>1, <1>10 DEF enqueuePut, idleEnqueue
<1>11. ASSUME NEW g, pullData(g) PROVE C'
  BY <1>2, <1>11 DEF pullData
<1>12. ASSUME hostArms \/ UNCHANGED vars PROVE C'
  BY <1>2, <1>12 DEF hostArms, vars
<1>13. ASSUME tick PROVE C'
  BY <1>13, TickSettled DEF tick, settled
<1> QED
  BY <1>3, <1>4, <1>5, <1>6, <1>7, <1>8, <1>9, <1>10, <1>11, <1>12, <1>13
     DEF Next, loopStep, senderStep, onPushData, readPushData

LEMMA CurrentStep ==
    ASSUME Prompt = TRUE, IInv, Current, [Next]_vars
    PROVE  Current'
BY ThreadsCurrentStep, SendersCurrentStep DEF Current

\* Nothing but the clock moves now.
LEMMA ClockMoves ==
    ASSUME [Next]_vars
    PROVE  now' = now \/ tick
<1>1. ASSUME NEW t, pushStep(t) PROVE now' = now
  BY <1>1 DEF pushStep, put, announce, prepareSendConfirmation
<1>2. ASSUME NEW t, NEW g, NEW p, NEW st, NEW l, receive(t, g, p, st, l)
      PROVE  now' = now
  BY <1>2 DEF receive
<1>3. ASSUME loopStep PROVE now' = now
  BY <1>3 DEF loopStep, readControl, timeout, timerEvent, sendQueue, sendQueueEnd,
              arm, cleanup
<1>4. ASSUME NEW s, NEW a, NEW tim,
             enqueueFind(s, a, tim) \/ enqueueLookup(s, a, tim)
      PROVE  now' = now
  BY <1>4 DEF enqueueFind, enqueueLookup
<1>7. ASSUME NEW s, senderStep(s) PROVE now' = now
  BY <1>7 DEF senderStep, enqueueCopy, enqueuePut
<1>5. ASSUME NEW g, pullData(g) PROVE now' = now
  BY <1>5 DEF pullData
<1>6. ASSUME hostArms \/ UNCHANGED vars PROVE now' = now
  BY <1>6 DEF hostArms, vars
<1> QED
  BY <1>1, <1>2, <1>3, <1>4, <1>5, <1>6, <1>7 DEF Next, onPushData, readPushData

\* An item that keeps its times, and that is not less delivered, keeps its dates.
LEMMA KeepsDates ==
    ASSUME NEW old, NEW new, Dated(old), new.tim = old.tim,
           new.metadata = old.metadata,
           old.delivered \in BOOLEAN, new.delivered \in BOOLEAN,
           old.delivered => new.delivered
    PROVE  Dated(new)
BY DEF Dated, queue!heardBy

\* A thread's frame is of this instant: its report is not older than the item.
LEMMA ReportDated ==
    ASSUME NEW item \in queue!UplinkItem, Dated(item), NEW g \in Gateways,
           NEW meta \in queue!Metadata, meta.t = now, now \in Nat
    PROVE  Dated([item EXCEPT !.metadata[g] = meta])
<1> DEFINE new == [item EXCEPT !.metadata[g] = meta]
<1>1. /\ new.tim = item.tim /\ new.delivered = item.delivered
      /\ new.metadata = [item.metadata EXCEPT ![g] = meta]
      /\ item.metadata \in [Gateways -> queue!Metadata \cup {NoMeta}]
  BY DEF queue!UplinkItem
<1> HIDE DEF new
<1>2. ASSUME NEW h \in queue!heardBy(new) PROVE new.tim <= new.metadata[h].t
  BY <1>1, <1>2 DEF Dated, queue!heardBy
<1>3. Dated(new)
  BY <1>1, <1>2 DEF Dated
<1> QED
  BY <1>3 DEF new

\* The frame that makes an item is its first report.
LEMMA NewItemDated ==
    ASSUME NEW t \in Threads, job[t].t = now, now \in Nat
    PROVE  Dated(NewItem(t))
<1> DEFINE new == NewItem(t)
<1>1. /\ new.tim = now /\ new.delivered = FALSE
      /\ new.metadata = [g \in Gateways |-> IF g = job[t].gatewayId
                                             THEN Report(t) ELSE NoMeta]
      /\ Report(t).t = now
  BY DEF NewItem, queue!newItem, Report
<1> HIDE DEF new
<1>2. \A g \in queue!heardBy(new) : new.metadata[g].t = now
  BY <1>1 DEF queue!heardBy
<1> QED
  BY <1>1, <1>2 DEF Dated, new

\* Every step keeps the dates of the items: a tick finds nothing undelivered.
LEMMA ItemsDatedStep ==
    ASSUME Prompt = TRUE, IInv, OneWaits, Current, ItemsDated, [Next]_vars
    PROVE  ItemsDated'
<1> SUFFICES ASSUME NEW a \in Addrs, queue!hasUplink(a)'
             PROVE  Dated(uplinkMessages[a])'
  BY DEF ItemsDated
<1> DEFINE old == uplinkMessages[a]
           new == uplinkMessages'[a]
<1>1. now \in Nat /\ Datagram \in BOOLEAN
  BY DispatcherAssumption DEF IInv, TypeOK
<1>2. queue!hasUplink(a) => old \in queue!UplinkItem /\ Dated(old)
  BY UplinksTyped DEF IInv, queue!hasUplink, ItemsDated
<1>3. ASSUME tick PROVE Dated(uplinkMessages[a])'
  <2>1. new = old /\ now' = now + 1 /\ settled
    BY <1>3, TickSettled DEF tick, queueVars
  <2>2. Dated(old)
    BY <1>2, <2>1 DEF queue!hasUplink
  <2>3. Datagram => old.delivered
    <3>1. control = <<>> /\ \A t \in Threads : pc[t] # "announce"
      BY <2>1 DEF settled
    <3>2. queue!hasUplink(a)
      BY <2>1 DEF queue!hasUplink
    <3> QED
      BY <3>1, <3>2 DEF IInv, NoSilentLoss
  <2>4. old.tim <= now + 1
    BY <1>1, <1>2, <2>1, <2>2 DEF queue!hasUplink, Dated, queue!UplinkItem
  <2> QED
    BY <2>1, <2>2, <2>3, <2>4 DEF Dated, queue!heardBy
<1>4. ASSUME now' = now, Dated(new) PROVE Dated(uplinkMessages[a])'
  BY <1>4 DEF Dated, queue!heardBy
<1>5. ASSUME new = old PROVE Dated(new)
  BY <1>2, <1>5 DEF queue!hasUplink
<1>6. ASSUME NEW t \in Threads, put(t) PROVE Dated(new)
  <2>1. job[t] \in Reception /\ job[t].t = now
    BY <1>6 DEF put, IInv, JobsPush, Current
  <2>2. Report(t) \in queue!Metadata /\ Report(t).t = now /\ job[t].gatewayId \in Gateways
    BY <2>1 DEF Report, Reception, queue!Metadata
  <2>3. CASE new = [old EXCEPT !.metadata[job[t].gatewayId] = Report(t)]
             /\ queue!hasUplink(a)
    BY <1>1, <1>2, <2>2, <2>3, ReportDated
  <2>4. CASE new = NewItem(t)
    BY <1>1, <2>1, <2>4, NewItemDated
  <2> QED
    BY <1>5, <1>6, <2>3, <2>4, PutItem DEF queue!isSame
<1>7. ASSUME readControl PROVE Dated(new)
  <2>1. CASE queue!hasUplink(a) /\ sendPayloadOverBridge(a)
    <3>1. new = [old EXCEPT !.plain = old.radioPacket.payload # old.plain,
                            !.delivered = TRUE]
      BY <2>1, UplinksTyped DEF sendPayloadOverBridge, IInv
    <3>2. /\ new.tim = old.tim /\ new.metadata = old.metadata
          /\ new.delivered = TRUE /\ old.delivered \in BOOLEAN
      BY <1>2, <2>1, <3>1 DEF queue!UplinkItem
    <3> QED
      BY <1>2, <2>1, <3>2, KeepsDates
  <2> QED
    BY <1>5, <1>7, <2>1, ReadControlKeeps
<1>8. ASSUME NEW freed, sendQueue(freed) PROVE Dated(new)
  <2>1. ASSUME NEW g, queue!hasUplink(a), new = [old EXCEPT !.gatewayId = g]
        PROVE  Dated(new)
    <3>1. /\ new.tim = old.tim /\ new.metadata = old.metadata
          /\ new.delivered = old.delivered /\ old.delivered \in BOOLEAN
      BY <1>2, <2>1 DEF queue!UplinkItem
    <3> QED
      BY <1>2, <2>1, <3>1, KeepsDates
  <2> QED
    BY <1>5, <1>8, <2>1, SendQueueItem
<1>9. ASSUME cleanup PROVE Dated(new)
  <2>1. new = old
    BY <1>9 DEF cleanup, queue!clearOldUplinkMessages, queue!hasUplink
  <2> QED
    BY <1>5, <2>1
<1> QED
  BY <1>3, <1>4, <1>5, <1>6, <1>7, <1>8, <1>9, ClockMoves, WhoWrites

----------------------------------------------------------------------------
(* The confirmation timer.                                                  *)

TimerInv == WaitersDated /\ TimerIsExact

\* The times of the waiting addresses and of the timer are numbers.
LEMMA TimesTyped ==
    ASSUME IInv
    PROVE  /\ now \in Nat /\ WaitTime \in Nat
           /\ MinTimer \in Nat \ {0} /\ MinTimer <= WaitTime
           /\ \A e \in timeAddr : e.time \in Nat
           /\ timer \in Nat \cup {NoTime} /\ NoTime \notin Nat
BY DispatcherAssumption, QueueAssumption
   DEF IInv, TypeOK, queue!TypeOK, queue!time2ResponseAddr!TypeOK,
       queue!time2ResponseAddr!Entry, queue!MessageQueueAssumption

\* A step that leaves the timer and the waiting addresses alone, while the loop
\* does not enter its timer branch.
LEMMA TimerQuiet ==
    ASSUME TimerInv, UNCHANGED <<timeAddr, timer, now>>,
           pc'[Loop] \in {"sendQueue", "arm"} => pc'[Loop] = pc[Loop]
    PROVE  TimerInv'
BY DEF TimerInv, WaitersDated, TimerIsExact

\* An address that is pushed, as of now or of the beginning of time, waits alone,
\* and no timer was armed before it.
LEMMA TimerPush ==
    ASSUME IInv, TimerInv, NEW a, NEW tim \in {now, Epoch},
           time2ResponseAddr!push(a, tim),
           UNCHANGED <<timer, now>>,
           pc'[Loop] \in {"sendQueue", "arm"} => pc'[Loop] = pc[Loop]
    PROVE  TimerInv'
<1>1. CASE timeAddr # {}
  BY <1>1, TimerQuiet DEF time2ResponseAddr!push, time2ResponseAddr!vars
<1>2. CASE timeAddr = {}
  <2>1. timeAddr' = {[time |-> tim, addr |-> a]} /\ timer = NoTime
    BY <1>2 DEF time2ResponseAddr!push, TimerInv, TimerIsExact
  <2>2. \A e \in timeAddr' : e.time = tim
    BY <2>1
  <2>3. WaitTime <= now /\ tim <= now /\ (tim = now \/ tim + WaitTime <= now)
    BY TimesTyped DEF TimerInv, WaitersDated, Epoch
  <2>4. WaitersDated'
    BY <2>2, <2>3 DEF WaitersDated
  <2> QED
    BY <2>1, <2>4 DEF TimerInv, TimerIsExact
<1> QED
  BY <1>1, <1>2

\* isTimeProcessQueueOrSetTimer() arms the timer for the waiting address, later
\* than now, or leaves it alone.
LEMMA ArmEffect ==
    ASSUME IInv, OneWaits, isTimeProcessQueueOrSetTimer(now)
    PROVE  \/ timer' = timer
           \/ /\ timer' > now
              /\ \E e \in timeAddr : timer' = e.time + WaitTime
<1> DEFINE d == time2ResponseAddr!waitTimeForAllGateways(now)
<1>1. timer' = IF d < MinTimer THEN timer ELSE now + d
  BY DEF isTimeProcessQueueOrSetTimer
<1>2. CASE timeAddr = {}
  <2>1. d = -1
    BY <1>2 DEF time2ResponseAddr!waitTimeForAllGateways
  <2> QED
    BY <1>1, <2>1, TimesTyped
<1>3. CASE timeAddr # {}
  <2> DEFINE e == time2ResponseAddr!first
  <2>1. e \in timeAddr /\ e.time \in Nat
    BY <1>3, FirstWaits DEF IInv, TypeOK
  <2>2. d = IF e.time + WaitTime < now THEN 0 ELSE e.time + WaitTime - now
    BY <1>3 DEF time2ResponseAddr!waitTimeForAllGateways
  <2> HIDE DEF d, e
  <2> QED
    BY <1>1, <2>1, <2>2, TimesTyped
<1> QED
  BY <1>2, <1>3

\* The timer fires exactly when the waiting address has waited WaitTime.
LEMMA TimerFires ==
    ASSUME IInv, OneWaits, TimerInv, timerEvent
    PROVE  TimerInv' /\ \A e \in timeAddr : e.time + WaitTime = now
<1>1. /\ timer # NoTime /\ timer <= now /\ timer' = NoTime
      /\ UNCHANGED <<timeAddr, now>> /\ pc'[Loop] = "sendQueue"
  BY WakeEffect DEF timerEvent, timerDue, queueVars
<1>2. timer = now
  BY <1>1, TimesTyped DEF TimerInv, TimerIsExact
<1>3. \A e \in timeAddr : e.time + WaitTime = now
  BY <1>1, <1>2 DEF TimerInv, TimerIsExact, OneWaits
<1>4. WaitersDated'
  BY <1>1, <1>3, TimesTyped DEF TimerInv, WaitersDated
<1> QED
  BY <1>1, <1>3, <1>4 DEF TimerInv, TimerIsExact

\* Only a due address is popped, and then no timer is armed.
LEMMA PopEffect ==
    ASSUME IInv, OneWaits, Current, TimerInv, NEW freed, sendQueue(freed)
    PROVE  timeAddr' = {} /\ TimerInv'
           /\ \A e \in timeAddr : e.time + WaitTime <= now
<1> DEFINE e == time2ResponseAddr!first
<1>1. /\ timeAddr # {} /\ e.time <= job[Loop].t - WaitTime
      /\ timeAddr' = timeAddr \ {e}
      /\ UNCHANGED <<timer, now, pc>> /\ pc[Loop] = "sendQueue"
  BY DEF sendQueue, time2ResponseAddr!popDue, time2ResponseAddr!isDue, threadVars
<1>2. job[Loop].t = now
  BY <1>1 DEF Current, Threads
<1>3. e \in timeAddr
  BY <1>1, FirstWaits DEF IInv, TypeOK
<1>4. \A f \in timeAddr : f = e
  BY <1>3 DEF OneWaits
<1>5. \A f \in timeAddr : f.time + WaitTime <= now
  BY <1>1, <1>2, <1>3, <1>4, TimesTyped
<1>6. timeAddr' = {}
  BY <1>1, <1>4
<1>7. timer = NoTime
  BY <1>1, <1>5, TimesTyped DEF TimerInv, TimerIsExact
<1> QED
  BY <1>1, <1>5, <1>6, <1>7 DEF TimerInv, WaitersDated, TimerIsExact

\* When no address is due what still waits is of this instant.
LEMMA EndEffect ==
    ASSUME IInv, OneWaits, Current, TimerInv, sendQueueEnd
    PROVE  TimerInv'
<1>1. /\ ~time2ResponseAddr!isDue(job[Loop].t) /\ pc[Loop] = "sendQueue"
      /\ UNCHANGED <<timeAddr, timer, now>> /\ pc'[Loop] = "arm"
  BY DEF sendQueueEnd, queueVars, IInv, TypeOK, Threads
<1>2. job[Loop].t = now
  BY <1>1 DEF Current, Threads
<1>3. ASSUME NEW e \in timeAddr PROVE e.time = now
  <2>1. e = time2ResponseAddr!first
    BY <1>3, FirstWaits DEF OneWaits, IInv, TypeOK
  <2>2. ~(e.time <= now - WaitTime)
    BY <1>1, <1>2, <1>3, <2>1 DEF time2ResponseAddr!isDue
  <2> QED
    BY <1>1, <1>3, <2>2, TimesTyped DEF TimerInv, WaitersDated
<1> QED
  BY <1>1, <1>3 DEF TimerInv, WaitersDated, TimerIsExact

\* The clock passes neither the timer nor a busy loop.
LEMMA TimerTick ==
    ASSUME Prompt = TRUE, IInv, TimerInv, tick
    PROVE  TimerInv'
<1>1. /\ now' = now + 1 /\ UNCHANGED <<timeAddr, timer, pc>>
      /\ pc[Loop] = "idle" /\ ~timerDue
  BY TickSettled DEF tick, settled, queueVars, threadVars, Threads
<1>2. timer # NoTime => timer >= now + 1
  BY <1>1, TimesTyped DEF timerDue
<1> QED
  BY <1>1, <1>2, TimesTyped DEF TimerInv, WaitersDated, TimerIsExact

\* Every step keeps the timer exact.
LEMMA TimerStep ==
    ASSUME Prompt = TRUE, IInv, OneWaits, Current, TimerInv, [Next]_vars
    PROVE  TimerInv'
<1>1. /\ pc \in [Threads -> {"idle", "put", "announce", "confirm",
                             "sendQueue", "arm", "cleanup"}]
      /\ Loop \in Threads
  BY DEF IInv, TypeOK, Threads
<1>2. ASSUME NEW t \in Threads, NEW g, NEW p, NEW st, NEW l, receive(t, g, p, st, l)
      PROVE  TimerInv'
  BY <1>1, <1>2, TimerQuiet DEF receive, queueVars
<1>3. ASSUME NEW t \in Threads, put(t) PROVE TimerInv'
  BY <1>1, <1>3, TimerQuiet DEF put, queue!putUplink
<1>4. ASSUME NEW t \in Threads, announce(t) PROVE TimerInv'
  BY <1>1, <1>4, TimerQuiet DEF announce, return, queueVars
<1>5. ASSUME NEW t \in Threads, prepareSendConfirmation(t) PROVE TimerInv'
  <2>1. job[t].t = now
    BY <1>5 DEF prepareSendConfirmation, Current
  <2> QED
    BY <1>1, <1>5, <2>1, TimerPush DEF prepareSendConfirmation, return
<1>6. ASSUME readControl PROVE TimerInv'
  BY <1>6, TimerQuiet DEF readControl
<1>7. ASSUME timeout PROVE TimerInv'
  BY <1>7, TimerQuiet, WakeEffect DEF timeout
<1>8. ASSUME arm PROVE TimerInv'
  <2>1. /\ isTimeProcessQueueOrSetTimer(now)
        /\ UNCHANGED <<timeAddr, now>> /\ pc'[Loop] = "cleanup"
    BY <1>1, <1>8 DEF arm, queueVars, Current
  <2> QED
    BY <2>1, ArmEffect, TimesTyped DEF TimerInv, WaitersDated, TimerIsExact
<1>9. ASSUME cleanup PROVE TimerInv'
  BY <1>1, <1>9, TimerQuiet DEF cleanup, return, queue!clearOldUplinkMessages
<1>10. ASSUME hostArms PROVE TimerInv'
  BY <1>10, ArmEffect, TimesTyped
     DEF hostArms, queueVars, threadVars, TimerInv, WaitersDated, TimerIsExact
<1>11. ASSUME NEW s, NEW a, NEW tim, enqueueFind(s, a, tim) \/ enqueueLookup(s, a, tim)
       PROVE  TimerInv'
  BY <1>11, TimerQuiet DEF enqueueFind, enqueueLookup, queueVars, threadVars
<1>12. ASSUME NEW s, enqueueCopy(s) PROVE TimerInv'
  BY <1>12, TimerQuiet DEF enqueueCopy, queueVars, threadVars
<1>13. ASSUME NEW s \in Senders, enqueuePut(s) PROVE TimerInv'
  <2>1. enq[s].tim \in {now, Epoch}
    BY <1>13 DEF enqueuePut, Current
  <2>2. time2ResponseAddr!push(enq[s].addr, enq[s].tim)
    BY <1>13 DEF enqueuePut, queue!putDownlink,
       queue!time2ResponseAddr!push, queue!time2ResponseAddr!vars,
       time2ResponseAddr!push, time2ResponseAddr!vars
  <2> QED
    BY <1>13, <2>1, <2>2, TimerPush DEF enqueuePut, threadVars
<1>14. ASSUME NEW g, pullData(g) PROVE TimerInv'
  BY <1>14, TimerQuiet DEF pullData, queueVars
<1>15. ASSUME UNCHANGED vars PROVE TimerInv'
  BY <1>15, TimerQuiet DEF vars, queueVars, threadVars
<1> QED
  BY <1>2, <1>3, <1>4, <1>5, <1>6, <1>7, <1>8, <1>9, <1>10, <1>11, <1>12, <1>13,
     <1>14, <1>15, TimerFires, PopEffect, EndEffect, TimerTick
     DEF Next, pushStep, loopStep, senderStep, onPushData, readPushData, Threads

----------------------------------------------------------------------------

\* What holds when the threads are fast compared to a tick.
LEMMA PromptInvariant ==
    ASSUME Prompt = TRUE
    PROVE  Spec => [](IInv /\ OneWaits /\ PInv)
<1>1. Init => PInv
  <2> SUFFICES ASSUME Init PROVE PInv
    OBVIOUS
  <2>1. Current
    BY DEF Init, Current, idleEnqueue
  <2>2. ItemsDated
    BY DEF Init, queue!Init, ItemsDated, queue!hasUplink
  <2>3. TimerInv
    BY QueueAssumption
       DEF Init, queue!Init, queue!time2ResponseAddr!Init, TimerInv, WaitersDated,
           TimerIsExact, queue!MessageQueueAssumption
  <2> QED
    BY <2>1, <2>2, <2>3 DEF PInv, TimerInv
<1>2. IInv /\ OneWaits /\ PInv /\ [Next]_vars => PInv'
  BY CurrentStep, ItemsDatedStep, TimerStep DEF PInv, TimerInv
<1> QED
  BY <1>1, <1>2, Invariant, PTL DEF Spec

\* Only the cleanup takes an item out of the queue.
LEMMA StaysQueued ==
    ASSUME IInv, OneWaits, [Next]_vars, NEW a \in Addrs, queue!hasUplink(a),
           ~queue!hasUplink(a)'
    PROVE  cleanup
<1> DEFINE old == uplinkMessages[a]
<1>1. old \in queue!UplinkItem /\ NoItem \notin queue!UplinkItem
  BY UplinksTyped, QueueAssumption
     DEF IInv, queue!hasUplink, queue!NoKeyAssumption
<1>2. ASSUME NEW t \in Threads, put(t) PROVE FALSE
  <2>1. CASE uplinkMessages'[a] =
                [old EXCEPT !.metadata[job[t].gatewayId] = Report(t)]
    <3>1. job[t] \in Reception
      BY <1>2 DEF put, IInv, JobsPush
    <3>2. Report(t) \in queue!Metadata /\ job[t].gatewayId \in Gateways
      BY <3>1 DEF Report, Reception, queue!Metadata
    <3>3. [old EXCEPT !.metadata[job[t].gatewayId] = Report(t)] \in queue!UplinkItem
      BY <1>1, <3>2 DEF queue!UplinkItem
    <3> QED
      BY <1>1, <2>1, <3>3 DEF queue!hasUplink
  <2> QED
    BY <1>2, <2>1, PutItem DEF queue!hasUplink
<1>3. ASSUME readControl PROVE FALSE
  <2>1. CASE sendPayloadOverBridge(a)
    <3>1. PICK p \in BOOLEAN : uplinkMessages'[a] =
                                [old EXCEPT !.plain = p, !.delivered = TRUE]
      BY <2>1, UplinksTyped DEF sendPayloadOverBridge, IInv
    <3>2. uplinkMessages'[a] \in queue!UplinkItem
      BY <1>1, <3>1 DEF queue!UplinkItem
    <3> QED
      BY <1>1, <3>2 DEF queue!hasUplink
  <2> QED
    BY <1>3, <2>1, ReadControlKeeps DEF queue!hasUplink
<1>4. ASSUME NEW freed, sendQueue(freed) PROVE FALSE
  <2>1. ASSUME NEW g \in Gateways \cup {0},
               uplinkMessages'[a] = [old EXCEPT !.gatewayId = g]
        PROVE  FALSE
    <3>1. uplinkMessages'[a] \in queue!UplinkItem
      BY <1>1, <2>1 DEF queue!UplinkItem
    <3> QED
      BY <1>1, <3>1 DEF queue!hasUplink
  <2> QED
    BY <1>4, <2>1, SendQueueItem DEF queue!hasUplink
<1> QED
  BY <1>2, <1>3, <1>4, WhoWrites DEF queue!hasUplink

\* What the cleanup frees is older than this instant, so it was delivered.
LEMMA CleanupErases ==
    ASSUME Datagram = TRUE, IInv, PInv, cleanup, NEW a \in Addrs,
           a \in queue!expired(uplinkMessages, job[Loop].t - KeepTime)
    PROVE  queue!hasUplink(a) /\ uplinkMessages[a].delivered
<1>1. job[Loop].t = now
  BY DEF cleanup, PInv, Current, Threads
<1>2. queue!hasUplink(a) /\ uplinkMessages[a].tim < now - KeepTime
  BY <1>1 DEF queue!expired, queue!hasUplink
<1>3. Dated(uplinkMessages[a]) /\ uplinkMessages[a] \in queue!UplinkItem
  BY <1>2, UplinksTyped DEF PInv, ItemsDated, IInv, queue!hasUplink
<1>4. uplinkMessages[a].tim # now
  BY <1>2, <1>3, DispatcherAssumption DEF IInv, TypeOK, queue!UplinkItem
<1> QED
  BY <1>2, <1>3, <1>4 DEF Dated

\* cleanupOldMessages() never frees an uplink the application has not got, with
\* fast threads and a control socket that keeps message boundaries.
THEOREM ErasedAfterDelivery ==
    ASSUME Prompt = TRUE, Datagram = TRUE
    PROVE  Spec => ErasedWasDelivered
<1>1. ASSUME IInv, OneWaits, PInv, [Next]_vars, NEW a \in Addrs,
             queue!hasUplink(a), ~queue!hasUplink(a)'
      PROVE  uplinkMessages[a].delivered
  <2>1. cleanup
    BY <1>1, StaysQueued
  <2>2. a \in queue!expired(uplinkMessages, job[Loop].t - KeepTime)
    BY <1>1, <2>1 DEF cleanup, queue!clearOldUplinkMessages, queue!hasUplink
  <2> QED
    BY <1>1, <2>1, <2>2, CleanupErases
<1>2. IInv /\ OneWaits /\ PInv /\ [Next]_vars =>
        [\A a \in Addrs : (queue!hasUplink(a) /\ ~queue!hasUplink(a)') =>
            uplinkMessages[a].delivered]_vars
  BY <1>1
<1> QED
  BY <1>2, PromptInvariant, PTL DEF Spec, ErasedWasDelivered

\* Only the loop's own step takes it from the end of its timer branch on.
LEMMA ArmIsOwn ==
    ASSUME IInv, [Next]_vars, pc[Loop] = "arm", pc'[Loop] = "cleanup"
    PROVE  arm
<1>1. /\ pc \in [Threads -> {"idle", "put", "announce", "confirm",
                             "sendQueue", "arm", "cleanup"}]
      /\ Loop \in Threads /\ pc' # pc
  BY DEF IInv, TypeOK, Threads
<1>2. ASSUME NEW t \in Threads, NEW g, NEW p, NEW st, NEW l, receive(t, g, p, st, l)
      PROVE  FALSE
  BY <1>1, <1>2 DEF receive
<1>3. ASSUME NEW t \in Threads, pushStep(t) PROVE FALSE
  BY <1>1, <1>3 DEF pushStep, put, announce, prepareSendConfirmation, return
<1>4. ~(readControl \/ timeout \/ timerEvent \/ sendQueueEnd \/ cleanup)
  BY <1>1 DEF readControl, timeout, timerEvent, sendQueueEnd, cleanup
<1>5. ASSUME NEW freed, sendQueue(freed) PROVE FALSE
  BY <1>1, <1>5 DEF sendQueue, threadVars
<1>6. ASSUME NEW s, NEW a, NEW tim,
             enqueueFind(s, a, tim) \/ enqueueLookup(s, a, tim) \/ senderStep(s)
      PROVE  FALSE
  BY <1>1, <1>6 DEF enqueueFind, enqueueLookup, senderStep, enqueueCopy, enqueuePut,
                    threadVars
<1>7. ASSUME NEW g, pullData(g) PROVE FALSE
  BY <1>1, <1>7 DEF pullData
<1>8. ~(hostArms \/ tick \/ UNCHANGED vars)
  BY <1>1 DEF hostArms, tick, vars, threadVars
<1> QED
  BY <1>2, <1>3, <1>4, <1>5, <1>6, <1>7, <1>8
     DEF Next, loopStep, onPushData, readPushData, Threads

\* After the loop has handled the timer an address that waits since a present time
\* has it armed again: it is of this instant, so it has all of WaitTime before it,
\* which is not less than MinTimer (sendQueue, isTimeProcessQueueOrSetTimer).
THEOREM TimerAlwaysRearmed ==
    ASSUME Prompt = TRUE
    PROVE  Spec => TimerRearmed
<1>1. ASSUME IInv, OneWaits, PInv, [Next]_vars,
             pc[Loop] = "arm", pc'[Loop] = "cleanup",
             NEW w \in timeAddr, w.time # Epoch
      PROVE  timer' # NoTime
  <2> DEFINE e == time2ResponseAddr!first
             d == time2ResponseAddr!waitTimeForAllGateways(now)
  <2>1. isTimeProcessQueueOrSetTimer(now)
    BY <1>1, ArmIsOwn DEF arm, PInv, Current, Threads
  <2>2. e \in timeAddr /\ e.time = now
    <3>1. e = w
      BY <1>1, FirstWaits DEF IInv, TypeOK, OneWaits
    <3> QED
      BY <1>1, <3>1 DEF PInv, WaitersDated
  <2>3. d = WaitTime
    <3>1. d = IF e.time + WaitTime < now THEN 0 ELSE e.time + WaitTime - now
      BY <1>1 DEF time2ResponseAddr!waitTimeForAllGateways
    <3> HIDE DEF d, e
    <3> QED
      BY <1>1, <2>2, <3>1, TimesTyped
  <2>4. timer' = IF d < MinTimer THEN timer ELSE now + d
    BY <2>1 DEF isTimeProcessQueueOrSetTimer
  <2> HIDE DEF d, e
  <2>5. timer' \in Nat
    BY <1>1, <2>3, <2>4, TimesTyped
  <2> QED
    BY <1>1, <2>5, TimesTyped
<1>2. IInv /\ OneWaits /\ PInv /\ [Next]_vars =>
        [(pc[Loop] = "arm" /\ pc'[Loop] = "cleanup") =>
            (timer' # NoTime \/ \A e \in timeAddr : e.time = Epoch)]_vars
  BY <1>1
<1> QED
  BY <1>2, PromptInvariant, PTL DEF Spec, TimerRearmed

----------------------------------------------------------------------------
(* The dispatcher implements UplinkSlots.                                   *)

\* The slot of an item.
SlotOf(item) == [frame |-> item.radioPacket, heard |-> queue!heardBy(item),
                 delivered |-> item.delivered]

\* The slots that are in use are those of the queued items.
LEMMA SlotIs ==
    /\ slot = [a \in Addrs |-> IF queue!hasUplink(a) THEN SlotOf(uplinkMessages[a])
                               ELSE NoItem]
    /\ slot' = [a \in Addrs |-> IF queue!hasUplink(a)' THEN SlotOf(uplinkMessages'[a])
                                ELSE NoItem]
BY DEF slot, SlotOf, queue!heardBy, queue!hasUplink

\* A slot in use is not empty.
LEMMA SlotUsed ==
    ASSUME IInv, NEW a \in Addrs, queue!hasUplink(a)
    PROVE  /\ slot[a] = SlotOf(uplinkMessages[a]) /\ slot[a] # NoItem
           /\ uplinkMessages[a] \in queue!UplinkItem
<1> DEFINE item == uplinkMessages[a]
<1>1. item \in queue!UplinkItem
  BY UplinksTyped DEF IInv, queue!hasUplink
<1>2. item.gatewayId \in queue!heardBy(item)
  BY DEF IInv, QP!UplinkInv, QP!UplinksSound, QP!Sound, QP!hasUplink, QP!heardBy,
         queue!hasUplink, queue!heardBy
<1>3. SlotOf(item) \in Slots!Slot
  <2>1. /\ item.radioPacket \in Packets /\ item.delivered \in BOOLEAN
        /\ queue!heardBy(item) \in SUBSET Gateways
        /\ queue!heardBy(item) # {}
    BY <1>1, <1>2 DEF queue!UplinkItem, queue!heardBy
  <2> QED
    BY <2>1 DEF SlotOf, Slots!Slot
<1>4. slot[a] = SlotOf(item)
  BY SlotIs
<1> QED
  BY <1>1, <1>3, <1>4, NoSlotAssumption

\* A step that writes one item writes its slot.
LEMMA SlotChange ==
    ASSUME NEW a \in Addrs, queue!hasUplink(a)',
           \A b \in Addrs \ {a} : uplinkMessages'[b] = uplinkMessages[b]
    PROVE  slot' = [slot EXCEPT ![a] = SlotOf(uplinkMessages'[a])]
BY SlotIs DEF queue!hasUplink

\* A step that leaves the items' frames, reports and deliveries alone.
LEMMA SlotSame ==
    ASSUME \A a \in Addrs :
            /\ queue!hasUplink(a)' <=> queue!hasUplink(a)
            /\ queue!hasUplink(a) => SlotOf(uplinkMessages'[a]) = SlotOf(uplinkMessages[a])
    PROVE  slot' = slot
BY SlotIs

\* putUplink: a frame takes an empty slot, joins the frame that has it, or is
\* dropped.
LEMMA PutSlots ==
    ASSUME IInv, OneWaits, [Next]_vars, NEW t \in Threads, put(t)
    PROVE  [Slots!Next]_slot
<1>1. job[t] \in Reception
  BY DEF put, IInv, JobsPush
<1> PICK pkt, a, g : /\ pkt = job[t].radioPacket /\ a = pkt.addr
                    /\ g = job[t].gatewayId
  OBVIOUS
<1> DEFINE old == uplinkMessages[a]
           new == uplinkMessages'[a]
<1>2. /\ pkt \in Packets /\ a \in Addrs /\ g \in Gateways
      /\ Report(t) \in queue!Metadata /\ Report(t) # NoMeta
  BY <1>1, QueueAssumption DEF Reception, Report, queue!Metadata,
     queue!MessageQueueAssumption, queue!NoKeyAssumption
<1>3. \A b \in Addrs \ {a} : uplinkMessages'[b] = uplinkMessages[b]
  BY PutItem
<1>4. ~cleanup
  BY DEF put, cleanup, return, IInv, TypeOK, Threads
<1>5. CASE new = old
  <2>1. uplinkMessages' = uplinkMessages
    BY <1>1, <1>3, <1>5, UplinksTyped DEF put, queue!putUplink, queue!setMetadata, IInv
  <2> QED
    BY <2>1, SlotSame DEF queue!hasUplink
<1>6. CASE queue!hasUplink(a) /\ new = [old EXCEPT !.metadata[g] = Report(t)]
  <2>1. queue!hasUplink(a)'
    BY <1>2, <1>4, <1>6, StaysQueued
  <2>2. slot[a] = SlotOf(old) /\ slot[a] # NoItem /\ old \in queue!UplinkItem
    BY <1>2, <1>6, SlotUsed
  <2>3. /\ new.radioPacket = old.radioPacket /\ new.delivered = old.delivered
        /\ new.metadata = [old.metadata EXCEPT ![g] = Report(t)]
        /\ old.metadata \in [Gateways -> queue!Metadata \cup {NoMeta}]
    BY <1>6, <2>2 DEF queue!UplinkItem
  <2>4. queue!heardBy(new) = queue!heardBy(old) \cup {g}
    <3>1. \A h \in Gateways :
            new.metadata[h] = IF h = g THEN Report(t) ELSE old.metadata[h]
      BY <2>3
    <3>2. \A h \in Gateways :
            new.metadata[h] # NoMeta <=> h = g \/ old.metadata[h] # NoMeta
      BY <1>2, <3>1
    <3> QED
      BY <1>2, <3>2 DEF queue!heardBy
  <2>5. SlotOf(new) = [slot[a] EXCEPT !.heard = @ \cup {g}]
    <3>1. SlotOf(new) = [frame |-> old.radioPacket,
                         heard |-> queue!heardBy(old) \cup {g},
                         delivered |-> old.delivered]
      BY <2>3, <2>4 DEF SlotOf
    <3>2. [SlotOf(old) EXCEPT !.heard = @ \cup {g}] =
                        [frame |-> old.radioPacket,
                         heard |-> queue!heardBy(old) \cup {g},
                         delivered |-> old.delivered]
      BY DEF SlotOf
    <3> QED
      BY <2>2, <3>1, <3>2
  <2>6. slot' = [slot EXCEPT ![a] = SlotOf(new)]
    BY <1>2, <1>3, <2>1, SlotChange
  <2>7. slot' = [slot EXCEPT ![a].heard = @ \cup {g}]
    BY <2>5, <2>6
  <2> QED
    BY <1>2, <2>2, <2>7 DEF Slots!Next, Slots!Join
<1>7. CASE ~queue!hasUplink(a) /\ new = NewItem(t)
  <2>1. /\ new.radioPacket = pkt /\ new.delivered = FALSE
        /\ new.metadata = [h \in Gateways |-> IF h = g THEN Report(t) ELSE NoMeta]
    BY <1>7 DEF NewItem, queue!newItem
  <2>2. new \in queue!UplinkItem
    BY <1>1, <1>2, <1>7 DEF NewItem, queue!newItem, queue!UplinkItem, Reception
  <2>3. queue!hasUplink(a)'
    BY <2>2, QueueAssumption DEF queue!hasUplink, queue!NoKeyAssumption
  <2>4. queue!heardBy(new) = {g}
    BY <1>2, <2>1 DEF queue!heardBy
  <2>5. SlotOf(new) = [frame |-> pkt, heard |-> {g}, delivered |-> FALSE]
    BY <2>1, <2>4 DEF SlotOf
  <2>6. slot[a] = NoItem
    BY <1>2, <1>7, SlotIs
  <2>7. slot' = [slot EXCEPT ![a] = [frame |-> pkt, heard |-> {g},
                                      delivered |-> FALSE]]
    BY <1>2, <1>3, <2>3, <2>5, SlotChange
  <2> QED
    BY <1>2, <2>6, <2>7 DEF Slots!Next, Slots!Take
<1> QED
  BY <1>2, <1>5, <1>6, <1>7, PutItem DEF queue!isSame

\* readControl: the application gets a frame, for the first time or again.
LEMMA DeliverSlots ==
    ASSUME IInv, OneWaits, [Next]_vars, readControl
    PROVE  [Slots!Next]_slot
<1> PICK a : a = Head(control)
  OBVIOUS
<1> DEFINE old == uplinkMessages[a]
           new == uplinkMessages'[a]
<1>1. a \in Addrs
  BY DEF readControl, IInv, TypeOK
<1>2. CASE queue!hasUplink(a) /\ sendPayloadOverBridge(a)
  <2>1. slot[a] = SlotOf(old) /\ slot[a] # NoItem /\ old \in queue!UplinkItem
    BY <1>1, <1>2, SlotUsed
  <2>2. \A b \in Addrs \ {a} : uplinkMessages'[b] = uplinkMessages[b]
    BY <1>2, UplinksTyped DEF sendPayloadOverBridge, IInv
  <2>3. PICK p \in BOOLEAN : new = [old EXCEPT !.plain = p, !.delivered = TRUE]
    BY <1>1, <1>2, UplinksTyped DEF sendPayloadOverBridge, IInv
  <2>4. /\ new.radioPacket = old.radioPacket /\ new.metadata = old.metadata
        /\ new.delivered = TRUE /\ new \in queue!UplinkItem
        /\ old.delivered \in BOOLEAN
    BY <2>1, <2>3 DEF queue!UplinkItem
  <2>5. SlotOf(new) = [slot[a] EXCEPT !.delivered = TRUE]
    <3>1. SlotOf(new) = [frame |-> old.radioPacket, heard |-> queue!heardBy(old),
                         delivered |-> TRUE]
      BY <2>4 DEF SlotOf, queue!heardBy
    <3>2. [SlotOf(old) EXCEPT !.delivered = TRUE] =
                        [frame |-> old.radioPacket, heard |-> queue!heardBy(old),
                         delivered |-> TRUE]
      <4>1. \A d : [SlotOf(old) EXCEPT !.delivered = d] =
                        [frame |-> old.radioPacket, heard |-> queue!heardBy(old),
                         delivered |-> d]
        BY DEF SlotOf
      <4> QED
        BY <4>1, Zenon
    <3> QED
      BY <2>1, <3>1, <3>2
  <2>6. queue!hasUplink(a)'
    BY <2>4, QueueAssumption DEF queue!hasUplink, queue!NoKeyAssumption
  <2>7. slot' = [slot EXCEPT ![a].delivered = TRUE]
    BY <1>1, <2>2, <2>5, <2>6, SlotChange
  <2>8. CASE old.delivered
    <3>1. SlotOf(new) = SlotOf(old)
      BY <2>4, <2>8 DEF SlotOf, queue!heardBy
    <3>2. slot' = slot
      BY <1>2, <2>2, <2>6, <3>1, SlotSame DEF queue!hasUplink
    <3> QED
      BY <3>2
  <2>9. CASE ~old.delivered
    <3>1. ~slot[a].delivered
      BY <2>1, <2>9 DEF SlotOf
    <3> QED
      BY <1>1, <2>1, <2>7, <3>1 DEF Slots!Next, Slots!Deliver
  <2> QED
    BY <2>8, <2>9
<1>3. CASE UNCHANGED uplinkMessages
  BY <1>3, SlotSame DEF queue!hasUplink
<1> QED
  BY <1>2, <1>3 DEF readControl

\* sendQueue: a task's gateway is no part of the slot.
LEMMA SendQueueSlots ==
    ASSUME IInv, OneWaits, [Next]_vars, NEW freed, sendQueue(freed)
    PROVE  slot' = slot
<1> SUFFICES ASSUME NEW a \in Addrs
             PROVE  /\ queue!hasUplink(a)' <=> queue!hasUplink(a)
                    /\ queue!hasUplink(a) =>
                        SlotOf(uplinkMessages'[a]) = SlotOf(uplinkMessages[a])
  BY SlotSame
<1>1. CASE uplinkMessages'[a] = uplinkMessages[a]
  BY <1>1 DEF queue!hasUplink
<1>2. ASSUME queue!hasUplink(a), NEW g \in Gateways \cup {0},
             uplinkMessages'[a] = [uplinkMessages[a] EXCEPT !.gatewayId = g]
      PROVE  queue!hasUplink(a)' /\ SlotOf(uplinkMessages'[a]) = SlotOf(uplinkMessages[a])
  <2>1. uplinkMessages[a] \in queue!UplinkItem
    BY <1>2, SlotUsed
  <2>2. /\ uplinkMessages'[a] \in queue!UplinkItem
        /\ uplinkMessages'[a].radioPacket = uplinkMessages[a].radioPacket
        /\ uplinkMessages'[a].metadata = uplinkMessages[a].metadata
        /\ uplinkMessages'[a].delivered = uplinkMessages[a].delivered
    BY <1>2, <2>1 DEF queue!UplinkItem
  <2> QED
    BY <2>2, QueueAssumption
       DEF SlotOf, queue!heardBy, queue!hasUplink, queue!NoKeyAssumption
<1> QED
  BY <1>1, <1>2, SendQueueItem

\* cleanup: the slots of old frames are emptied, all of them delivered.
LEMMA CleanupSlots ==
    ASSUME Datagram = TRUE, IInv, PInv, cleanup
    PROVE  [Slots!Next]_slot
<1> DEFINE gone == queue!expired(uplinkMessages, job[Loop].t - KeepTime)
<1>1. uplinkMessages' = [a \in Addrs |-> IF a \in gone THEN NoItem
                                          ELSE uplinkMessages[a]]
  BY DEF cleanup, queue!clearOldUplinkMessages
<1>2. gone \in SUBSET Addrs
  BY DEF queue!expired
<1>3. \A a \in gone : slot[a] # NoItem /\ slot[a].delivered
  <2> SUFFICES ASSUME NEW a \in gone
               PROVE  slot[a] # NoItem /\ slot[a].delivered
    OBVIOUS
  <2>1. a \in Addrs /\ queue!hasUplink(a) /\ uplinkMessages[a].delivered
    BY <1>2, CleanupErases
  <2>2. slot[a] = SlotOf(uplinkMessages[a]) /\ slot[a] # NoItem
    BY <2>1, SlotUsed
  <2> QED
    BY <2>1, <2>2 DEF SlotOf
<1>4. slot' = [a \in Addrs |-> IF a \in gone THEN NoItem ELSE slot[a]]
  BY <1>1, SlotIs DEF queue!hasUplink
<1> QED
  BY <1>2, <1>3, <1>4 DEF Slots!Next, Slots!Forget

\* Every behaviour of the dispatcher with fast threads and a control socket that
\* keeps message boundaries is one of UplinkSlots: every step is a step of a slot
\* or leaves the slots alone.
THEOREM ImplementsSlots ==
    ASSUME Prompt = TRUE, Datagram = TRUE
    PROVE  Spec => UplinkSlotsSpec
<1>1. Init => Slots!Init
  BY DEF Init, queue!Init, Slots!Init, slot, queue!hasUplink
<1>2. ASSUME IInv, OneWaits, PInv, [Next]_vars PROVE [Slots!Next]_slot
  <2>1. CASE UNCHANGED uplinkMessages
    BY <2>1, SlotSame DEF queue!hasUplink
  <2> QED
    BY <1>2, <2>1, WhoWrites, PutSlots, DeliverSlots, SendQueueSlots, CleanupSlots
<1> QED
  BY <1>1, <1>2, PromptInvariant, PTL DEF Spec, UplinkSlotsSpec, Slots!Spec

----------------------------------------------------------------------------
(* How long a downlink waits.                                               *)

\* The frames heard and the calls made so far, at SelectTimeout + WaitTime
\* each; the downlink's own call costs WaitTime.
Level == WaitTime + (receptions + enqueues - 1) * (SelectTimeout + WaitTime)

\* Somebody has an address to announce or to push.
Busy ==
    \/ control # <<>>
    \/ \E t \in Threads : pc[t] \in {"put", "announce", "confirm"}
    \/ \E s \in Senders : enq[s].pc # "idle"

SelectInTime == waitSince <= now /\ now <= waitSince + SelectTimeout

Counted ==
    /\ receptions \in 0..MaxReceptions /\ enqueues \in 0..MaxEnqueues
    /\ \A s \in Senders : enq[s].pc # "idle" => enqueues > 0

\* At the instant x a downlink queued at since is not older than its level.
InTime(since, x) == x - since <= Level

\* The last time select() was entered, the time the timer of the waiting address
\* can enter it again, and this instant when something is under way that will.
Timely(since) ==
    /\ since <= now
    /\ InTime(since, waitSince)
    /\ \A e \in timeAddr : InTime(since, e.time + WaitTime)
    /\ Busy => InTime(since, now + WaitTime)
    /\ pc[Loop] \in {"sendQueue", "arm", "cleanup"} => InTime(since, now)

DownlinksTimely ==
    \A a \in Addrs : queue!hasDownlink(a) => enqueues > 0 /\ Timely(queuedAt[a])

DInv == SelectInTime /\ Counted /\ DownlinksTimely

----------------------------------------------------------------------------

\* One more step of the clock's unit adds the unit.
LEMMA Distributes ==
    \A m, k \in Int : (m + 1) * k = m * k + k
OBVIOUS

\* Products of natural numbers grow with their factor.
LEMMA Grows ==
    ASSUME NEW m \in Nat, NEW n \in Nat, NEW k \in Nat, m <= n
    PROVE  m * k >= 0 /\ m * k <= n * k
<1>1. PICK d \in Nat : n = m + d
  <2>1. n - m \in Nat /\ n = m + (n - m)
    OBVIOUS
  <2> QED
    BY <2>1
<1>2. m * k \in Nat /\ d * k \in Nat
  OBVIOUS
<1>3. n * k = m * k + d * k
  BY <1>1
<1> QED
  BY <1>2, <1>3

\* The numbers the bound is made of.
LEMMA LevelAt ==
    ASSUME NEW r \in Nat, NEW e \in Nat
    PROVE  /\ SelectTimeout \in Nat /\ WaitTime \in Nat
           /\ WaitTime + (r + e - 1) * (SelectTimeout + WaitTime) \in Int
           /\ e > 0 => WaitTime + (r + e - 1) * (SelectTimeout + WaitTime) >= WaitTime
<1> DEFINE m == r + e - 1
           k == SelectTimeout + WaitTime
<1>1. SelectTimeout \in Nat /\ WaitTime \in Nat
  BY DispatcherAssumption, QueueAssumption DEF queue!MessageQueueAssumption
<1>2. m \in Int /\ k \in Nat
  BY <1>1
<1>3. m * k \in Int
  BY <1>2
<1>4. ASSUME e > 0 PROVE m * k >= 0
  BY <1>1, <1>2, <1>4, Grows
<1> QED
  BY <1>1, <1>3, <1>4

LEMMA LevelTyped ==
    ASSUME IInv
    PROVE  /\ SelectTimeout \in Nat /\ WaitTime \in Nat
           /\ now \in Nat /\ waitSince \in Nat
           /\ receptions \in Nat /\ enqueues \in Nat
           /\ Level \in Int
           /\ enqueues > 0 => Level >= WaitTime
BY LevelAt DEF Level, IInv, TypeOK

\* The same, and the times of the waiting addresses, after a step.
LEMMA LevelTypedNext ==
    ASSUME IInv'
    PROVE  /\ SelectTimeout \in Nat /\ WaitTime \in Nat
           /\ now' \in Nat /\ waitSince' \in Nat
           /\ receptions' \in Nat /\ enqueues' \in Nat
           /\ Level' \in Int
           /\ enqueues' > 0 => Level' >= WaitTime
           /\ \A e \in timeAddr' : e.time \in Nat
BY LevelAt DEF Level, IInv, TypeOK, queue!TypeOK, queue!time2ResponseAddr!TypeOK,
               queue!time2ResponseAddr!Entry

\* One frame or one call more.
LEMMA LevelGrows ==
    ASSUME IInv, receptions' \in Nat, enqueues' \in Nat,
           receptions' + enqueues' = receptions + enqueues + 1
    PROVE  Level' = Level + SelectTimeout + WaitTime
<1> DEFINE m == receptions + enqueues - 1
           k == SelectTimeout + WaitTime
<1>1. m \in Int /\ k \in Int /\ WaitTime \in Nat /\ SelectTimeout \in Nat
  BY LevelTyped
<1>2. receptions' + enqueues' - 1 = m + 1
  BY LevelTyped
<1>3. (m + 1) * k = m * k + k /\ m * k \in Int
  BY <1>1, Distributes
<1>4. Level = WaitTime + m * k /\ Level' = WaitTime + (m + 1) * k
  BY <1>2 DEF Level
<1> HIDE DEF m
<1> QED
  BY <1>1, <1>3, <1>4

\* What must be known of a step for a downlink that stays to stay in time: a
\* frame heard and a call pay for what they start, and select() is entered again
\* only by what has been paid for.
LEMMA TimelyStep ==
    ASSUME IInv, IInv', SelectInTime, NEW since \in Nat, Timely(since),
           now' = now,
           Level' = Level \/ Level' = Level + SelectTimeout + WaitTime,
           waitSince' = waitSince \/ (waitSince' = now /\ InTime(since, now)),
           \A e \in timeAddr' : e \in timeAddr \/ (e.time <= now /\ Busy),
           Busy' => (Busy \/ Level' = Level + SelectTimeout + WaitTime),
           pc'[Loop] \in {"sendQueue", "arm", "cleanup"} =>
                pc[Loop] \in {"sendQueue", "arm", "cleanup"} \/ InTime(since, now)
    PROVE  Timely(since)'
<1>1. /\ SelectTimeout \in Nat /\ WaitTime \in Nat /\ now \in Nat
      /\ waitSince \in Nat /\ Level \in Int /\ Level' \in Int /\ Level' >= Level
  BY LevelTyped, LevelTypedNext
<1>2. \A x \in Int : x - since <= Level => x - since <= Level'
  BY <1>1
<1>3. InTime(since, waitSince)'
  BY <1>1, <1>2 DEF Timely, InTime
<1>4. ASSUME NEW e \in timeAddr' PROVE InTime(since, e.time + WaitTime)'
  <2>1. e.time \in Nat
    BY <1>4, LevelTypedNext
  <2>2. CASE e \in timeAddr
    <3>1. InTime(since, e.time + WaitTime)
      BY <2>2 DEF Timely
    <3> QED
      BY <1>1, <1>2, <2>1, <3>1 DEF InTime
  <2>3. CASE e.time <= now /\ Busy
    <3>1. InTime(since, now + WaitTime)
      BY <2>3 DEF Timely
    <3> QED
      BY <1>1, <1>2, <2>1, <2>3, <3>1 DEF InTime
  <2> QED
    BY <1>4, <2>2, <2>3
<1>5. ASSUME Busy' PROVE InTime(since, now + WaitTime)'
  <2>1. CASE Busy
    <3>1. InTime(since, now + WaitTime)
      BY <2>1 DEF Timely
    <3> QED
      BY <1>1, <1>2, <3>1 DEF InTime
  <2>2. CASE Level' = Level + SelectTimeout + WaitTime
    BY <1>1, <2>2 DEF Timely, InTime, SelectInTime
  <2> QED
    BY <1>5, <2>1, <2>2
<1>6. ASSUME pc'[Loop] \in {"sendQueue", "arm", "cleanup"}
      PROVE  InTime(since, now)'
  <2>1. now - since <= Level
    BY <1>6 DEF Timely, InTime
  <2> QED
    BY <1>1, <2>1 DEF InTime
<1>7. since <= now'
  BY DEF Timely
<1> QED
  BY <1>3, <1>4, <1>5, <1>6, <1>7 DEF Timely

\* A downlink that was just queued is in time.
LEMMA TimelyNew ==
    ASSUME IInv', SelectInTime', WaitersDated', NEW since,
           since = now', enqueues' > 0
    PROVE  Timely(since)'
<1>1. /\ WaitTime \in Nat /\ now' \in Nat /\ waitSince' \in Nat
      /\ Level' \in Int /\ Level' >= WaitTime
  BY LevelTypedNext
<1>2. PICK n \in Nat : n = now'
  BY <1>1
<1>3. PICK w \in Nat : w = waitSince'
  BY <1>1
<1>4. PICK l \in Int : l = Level'
  BY <1>1
<1>5. \A x \in Int : x <= n + WaitTime => x - n <= l
  BY <1>1, <1>4
<1>6. \A x \in Int : x <= n + WaitTime => InTime(since, x)'
  BY <1>2, <1>4, <1>5 DEF InTime
<1>7. ASSUME NEW e \in timeAddr' PROVE InTime(since, e.time + WaitTime)'
  <2>1. e.time \in Nat /\ e.time <= n
    BY <1>2, <1>7, LevelTypedNext DEF WaitersDated
  <2>2. PICK x \in Int : x = e.time + WaitTime
    BY <1>1, <2>1
  <2>3. x <= n + WaitTime
    BY <1>1, <2>1, <2>2
  <2>4. x - since <= Level'
    BY <1>6, <2>3 DEF InTime
  <2> QED
    BY <2>2, <2>4 DEF InTime
<1>8. w <= n + WaitTime /\ n <= n + WaitTime
  <2>1. w <= n
    BY <1>2, <1>3 DEF SelectInTime
  <2> QED
    BY <1>1, <2>1
<1>9. InTime(since, waitSince)' /\ InTime(since, now)'
  BY <1>2, <1>3, <1>6, <1>8 DEF InTime
<1>10. InTime(since, now + WaitTime)'
  <2>1. n + WaitTime \in Int /\ n + WaitTime <= n + WaitTime
    BY <1>1
  <2>2. (n + WaitTime) - since <= Level'
    BY <1>6, <2>1 DEF InTime
  <2> QED
    BY <1>2, <2>2 DEF InTime
<1>11. since <= now'
  BY <1>2
<1> QED
  BY <1>7, <1>9, <1>10, <1>11 DEF Timely

----------------------------------------------------------------------------

\* What a step pays for while a downlink stays.
Pays(since) ==
    /\ now' = now
    /\ Level' = Level \/ Level' = Level + SelectTimeout + WaitTime
    /\ waitSince' = waitSince \/ (waitSince' = now /\ InTime(since, now))
    /\ \A e \in timeAddr' : e \in timeAddr \/ (e.time <= now /\ Busy)
    /\ Busy' => (Busy \/ Level' = Level + SelectTimeout + WaitTime)
    /\ pc'[Loop] \in {"sendQueue", "arm", "cleanup"} =>
            pc[Loop] \in {"sendQueue", "arm", "cleanup"} \/ InTime(since, now)

\* Nothing is heard and nothing is called.
LEMMA LevelStays == ASSUME UNCHANGED <<receptions, enqueues>> PROVE Level' = Level
BY DEF Level

\* An instant before one in time is in time.
LEMMA InTimeBefore ==
    ASSUME IInv, NEW since \in Nat, NEW x \in Int, NEW y \in Int,
           x <= y, InTime(since, y)
    PROVE  InTime(since, x)
<1>1. Level \in Int
  BY LevelTyped
<1> QED
  BY <1>1 DEF InTime

\* Whoever has an address to announce or to push has paid for it.
LEMMA BusyInTime ==
    ASSUME IInv, NEW since \in Nat, Timely(since), Busy
    PROVE  InTime(since, now)
<1>1. now \in Int /\ now + WaitTime \in Int /\ now <= now + WaitTime
  BY LevelTyped
<1>2. InTime(since, now + WaitTime)
  BY DEF Timely
<1> QED
  BY <1>1, <1>2, InTimeBefore

LEMMA BusyPays ==
    ASSUME IInv, NEW since \in Nat, Timely(since), Busy,
           UNCHANGED <<now, receptions, enqueues>>,
           waitSince' \in {waitSince, now},
           \A e \in timeAddr' : e \in timeAddr \/ e.time <= now,
           pc'[Loop] \in {"sendQueue", "arm", "cleanup"} => pc'[Loop] = pc[Loop]
    PROVE  Pays(since)
BY BusyInTime, LevelStays DEF Pays

\* Nothing is started, and what waits waited before.
LEMMA QuietPays ==
    ASSUME NEW since,
           UNCHANGED <<now, receptions, enqueues>>, timeAddr' \subseteq timeAddr,
           waitSince' = waitSince \/ (waitSince' = now /\ InTime(since, now)),
           Busy' => Busy,
           pc'[Loop] \in {"sendQueue", "arm", "cleanup"} =>
                pc[Loop] \in {"sendQueue", "arm", "cleanup"} \/ InTime(since, now)
    PROVE  Pays(since)
BY LevelStays DEF Pays

\* A frame is heard or a call begins.
LEMMA StartPays ==
    ASSUME IInv, NEW since,
           \/ receptions' = receptions + 1 /\ enqueues' = enqueues
           \/ receptions' = receptions /\ enqueues' = enqueues + 1,
           UNCHANGED <<now, waitSince, timeAddr>>,
           pc'[Loop] \in {"sendQueue", "arm", "cleanup"} => pc'[Loop] = pc[Loop]
    PROVE  Pays(since)
<1>1. receptions \in Nat /\ enqueues \in Nat
  BY LevelTyped
<1>2. receptions' \in Nat /\ enqueues' \in Nat
  BY <1>1
<1>3. receptions' + enqueues' = receptions + enqueues + 1
  <2>1. CASE receptions' = receptions + 1 /\ enqueues' = enqueues
    <3>1. receptions' + enqueues' = (receptions + 1) + enqueues
      BY <2>1
    <3> QED
      BY <1>1, <3>1
  <2>2. CASE receptions' = receptions /\ enqueues' = enqueues + 1
    <3>1. receptions' + enqueues' = receptions + (enqueues + 1)
      BY <2>2
    <3> QED
      BY <1>1, <3>1
  <2> QED
    BY <2>1, <2>2
<1>4. Level' = Level + SelectTimeout + WaitTime
  BY <1>2, <1>3, LevelGrows
<1> QED
  BY <1>4 DEF Pays

\* Every step but the clock's and the timeout, which sends the downlink, has been
\* paid for.
LEMMA DownlinkPays ==
    ASSUME Pinging = {}, IInv, OneWaits, PInv,
           NEW since \in Nat, Timely(since),
           [Next]_vars, ~tick, ~timeout
    PROVE  Pays(since)
<1>1. /\ pc \in [Threads -> {"idle", "put", "announce", "confirm",
                             "sendQueue", "arm", "cleanup"}]
      /\ enq \in [Senders -> Enqueue] /\ Loop \in Threads
  BY DEF IInv, TypeOK, Threads
<1>2. Current /\ TimerInv
  BY DEF PInv, TimerInv
<1>3. ASSUME NEW t \in Threads, NEW g, NEW p, NEW st, NEW l, receive(t, g, p, st, l)
      PROVE  Pays(since)
  BY <1>1, <1>3, StartPays DEF receive, queueVars
<1>4. ASSUME NEW s, NEW a, NEW tim, enqueueFind(s, a, tim) \/ enqueueLookup(s, a, tim)
      PROVE  Pays(since)
  BY <1>4, StartPays DEF enqueueFind, enqueueLookup, queueVars, threadVars
<1>5. ASSUME NEW t \in Threads, put(t) PROVE Pays(since)
  <2>1. Busy
    BY <1>5 DEF put, Busy
  <2> QED
    BY <1>1, <1>5, <2>1, BusyPays DEF inputVars, put, queue!putUplink
<1>6. ASSUME NEW t \in Threads, announce(t) PROVE Pays(since)
  <2>1. Busy
    BY <1>6 DEF announce, Busy
  <2>2. CASE return(t)
    BY <1>1, <1>6, <2>1, <2>2, BusyPays DEF inputVars, announce, return, queueVars
  <2>3. CASE pc' = [pc EXCEPT ![t] = "confirm"] /\ UNCHANGED <<job, waitSince>>
    BY <1>1, <1>6, <2>1, <2>3, BusyPays DEF inputVars, announce, queueVars
  <2> QED
    BY <1>6, <2>2, <2>3 DEF announce
<1>7. ASSUME NEW t \in Threads, prepareSendConfirmation(t) PROVE Pays(since)
  <2>1. Busy
    BY <1>7 DEF prepareSendConfirmation, Busy
  <2>2. job[t].t <= now
    BY <1>2, <1>7, LevelTyped DEF prepareSendConfirmation, Current
  <2>3. \A e \in timeAddr' : e \in timeAddr \/ e.time <= now
    BY <1>7, <2>2 DEF prepareSendConfirmation, time2ResponseAddr!push,
                      time2ResponseAddr!vars
  <2> QED
    BY <1>1, <1>7, <2>1, <2>3, BusyPays DEF inputVars, prepareSendConfirmation, return
<1>8. ASSUME readControl PROVE Pays(since)
  <2>1. Busy
    BY <1>8 DEF readControl, Busy
  <2> QED
    BY <1>8, <2>1, BusyPays DEF inputVars, readControl
<1>9. ASSUME timerEvent PROVE Pays(since)
  <2>1. timer # NoTime
    BY <1>9 DEF timerEvent, timerDue
  <2>2. PICK e \in timeAddr : timer = e.time + WaitTime
    BY <1>2, <2>1 DEF TimerInv, TimerIsExact
  <2>3. e.time + WaitTime = now
    BY <1>2, <1>9, TimerFires
  <2>4. InTime(since, e.time + WaitTime)
    BY DEF Timely
  <2>5. InTime(since, now)
    BY <2>3, <2>4
  <2>6. Busy' => Busy
    BY <1>9, WakeEffect DEF timerEvent, Busy
  <2> QED
    BY <1>9, <2>5, <2>6, QuietPays DEF inputVars, timerEvent, queueVars
<1>10. ASSUME NEW freed, sendQueue(freed) PROVE Pays(since)
  <2>1. timeAddr' \subseteq timeAddr
    BY <1>2, <1>10, PopEffect
  <2>2. Busy' => Busy
    BY <1>10 DEF sendQueue, threadVars, Busy
  <2> QED
    BY <1>10, <2>1, <2>2, QuietPays DEF inputVars, sendQueue, threadVars
<1>11. ASSUME sendQueueEnd \/ arm PROVE Pays(since)
  <2>1. Busy' => Busy
    BY <1>1, <1>11 DEF sendQueueEnd, arm, Busy
  <2> QED
    BY <1>11, <2>1, QuietPays DEF inputVars, sendQueueEnd, arm, queueVars
<1>12. ASSUME cleanup PROVE Pays(since)
  <2>1. pc[Loop] = "cleanup" /\ waitSince' = now /\ InTime(since, now)
    BY <1>12 DEF cleanup, return, Timely
  <2>2. \A s \in Senders : enq'[s].pc = enq[s].pc
    <3>1. ASSUME NEW s \in Senders, enq[s].pc = "copy"
          PROVE  [enq[s] EXCEPT !.dangling = TRUE].pc = enq[s].pc
      BY <1>1, <3>1, CallTyped DEF Call
    <3> QED
      BY <1>12, <3>1 DEF cleanup
  <2>3. Busy' => Busy
    BY <1>1, <1>12, <2>2 DEF cleanup, return, Busy
  <2>4. pc'[Loop] = "idle"
    BY <1>1, <1>12 DEF cleanup, return
  <2> QED
    BY <1>12, <2>1, <2>3, <2>4, QuietPays
       DEF inputVars, cleanup, queue!clearOldUplinkMessages
<1>13. ASSUME hostArms \/ UNCHANGED vars PROVE Pays(since)
  <2>1. UNCHANGED <<timeAddr, now, waitSince, pc, control, enq, inputVars>>
    BY <1>13 DEF hostArms, vars, queueVars, threadVars
  <2>2. Busy' => Busy
    BY <2>1 DEF Busy
  <2> QED
    BY <2>1, <2>2, QuietPays DEF inputVars
<1>14. ASSUME NEW s \in Senders, enqueueCopy(s) PROVE Pays(since)
  <2>1. Busy
    BY <1>14 DEF enqueueCopy, Busy
  <2> QED
    BY <1>14, <2>1, BusyPays DEF inputVars, enqueueCopy, queueVars, threadVars
<1>15. ASSUME NEW s \in Senders, enqueuePut(s) PROVE Pays(since)
  <2>1. Busy
    BY <1>15 DEF enqueuePut, Busy
  <2>2. enq[s].tim <= now
    BY <1>2, <1>15, LevelTyped DEF enqueuePut, Current, Epoch
  <2>3. \A e \in timeAddr' : e \in timeAddr \/ e.time <= now
    BY <1>15, <2>2 DEF enqueuePut, queue!putDownlink,
       queue!time2ResponseAddr!push, queue!time2ResponseAddr!vars
  <2> QED
    BY <1>15, <2>1, <2>3, BusyPays DEF inputVars, enqueuePut, threadVars
<1> QED
  BY <1>3, <1>4, <1>5, <1>6, <1>7, <1>8, <1>9, <1>10, <1>11, <1>12, <1>13,
     <1>14, <1>15
     DEF Next, pushStep, loopStep, senderStep, onPushData, readPushData, Threads

\* select() is entered at this instant or not at all.
LEMMA Selects ==
    ASSUME [Next]_vars
    PROVE  waitSince' \in {waitSince, now} /\ (now' # now => waitSince' = waitSince)
<1>1. ASSUME NEW t, pushStep(t) PROVE waitSince' \in {waitSince, now} /\ now' = now
  BY <1>1 DEF pushStep, put, announce, prepareSendConfirmation, return
<1>2. ASSUME NEW t, NEW g, NEW p, NEW st, NEW l, receive(t, g, p, st, l)
      PROVE  waitSince' = waitSince /\ now' = now
  BY <1>2 DEF receive
<1>3. ASSUME loopStep PROVE waitSince' \in {waitSince, now} /\ now' = now
  BY <1>3 DEF loopStep, readControl, timeout, timerEvent, sendQueue, sendQueueEnd,
              arm, cleanup, return, threadVars
<1>4. ASSUME NEW s, NEW a, NEW tim,
             enqueueFind(s, a, tim) \/ enqueueLookup(s, a, tim) \/ senderStep(s)
      PROVE  waitSince' = waitSince /\ now' = now
  <2>1. enqueueFind(s, a, tim) \/ enqueueLookup(s, a, tim) => UNCHANGED <<threadVars, now>>
    BY DEF enqueueFind, enqueueLookup
  <2>2. enqueueCopy(s) => UNCHANGED <<threadVars, now>>
    BY DEF enqueueCopy
  <2>3. enqueuePut(s) => UNCHANGED <<threadVars, now>>
    BY DEF enqueuePut
  <2> QED
    BY <1>4, <2>1, <2>2, <2>3 DEF senderStep, threadVars
<1>5. ASSUME NEW g, pullData(g) PROVE waitSince' = now /\ now' = now
  BY <1>5 DEF pullData
<1>6. ASSUME hostArms \/ tick \/ UNCHANGED vars PROVE waitSince' = waitSince
  BY <1>6 DEF hostArms, tick, vars, threadVars
<1>7. ASSUME hostArms \/ UNCHANGED vars PROVE now' = now
  BY <1>7 DEF hostArms, vars
<1> QED
  BY <1>1, <1>2, <1>3, <1>4, <1>5, <1>6, <1>7 DEF Next, onPushData, readPushData

\* The clock waits for a select() that has been left alone for SelectTimeout.
LEMMA SelectInTimeStep ==
    ASSUME Prompt = TRUE, IInv, SelectInTime, [Next]_vars
    PROVE  SelectInTime'
<1>1. now \in Nat /\ waitSince \in Nat /\ SelectTimeout \in Nat
  BY LevelTyped
<1>2. CASE now' = now
  <2>1. waitSince' = waitSince \/ waitSince' = now
    BY Selects
  <2> QED
    BY <1>1, <1>2, <2>1 DEF SelectInTime
<1>3. CASE tick
  <2>1. now' = now + 1 /\ waitSince' = waitSince /\ ~(now - waitSince >= SelectTimeout)
    BY <1>3, TickSettled DEF tick, settled, timeoutDue, threadVars
  <2> QED
    BY <1>1, <2>1 DEF SelectInTime
<1> QED
  BY <1>2, <1>3, ClockMoves

\* A sender that is calling has been counted.
LEMMA CountedStep ==
    ASSUME IInv, Counted, [Next]_vars
    PROVE  Counted' /\ (enqueues > 0 => enqueues' > 0)
<1> DEFINE C == Counted' /\ (enqueues > 0 => enqueues' > 0)
<1>1. /\ enq \in [Senders -> Enqueue]
      /\ receptions \in Nat /\ enqueues \in Nat
      /\ MaxReceptions \in Nat /\ MaxEnqueues \in Nat
  BY LevelTyped, DispatcherAssumption DEF IInv, TypeOK
<1>2. ASSUME UNCHANGED <<receptions, enqueues>>,
             \A s \in Senders : enq'[s].pc # "idle" => enq[s].pc # "idle"
      PROVE  C
  BY <1>2 DEF Counted
<1>3. ASSUME NEW t, pushStep(t) PROVE C
  BY <1>2, <1>3 DEF pushStep, put, announce, prepareSendConfirmation, inputVars
<1>4. ASSUME NEW t, NEW g, NEW p, NEW st, NEW l, receive(t, g, p, st, l) PROVE C
  BY <1>1, <1>4 DEF receive, Counted
<1>5. ASSUME readControl \/ timeout \/ timerEvent \/ sendQueueEnd \/ arm PROVE C
  BY <1>2, <1>5 DEF readControl, timeout, timerEvent, sendQueueEnd, arm, inputVars
<1>6. ASSUME NEW freed, sendQueue(freed) PROVE C
  BY <1>2, <1>6 DEF sendQueue, inputVars
<1>7. ASSUME cleanup PROVE C
  <2>1. \A s \in Senders : enq'[s].pc # "idle" => enq[s].pc # "idle"
    BY <1>7 DEF cleanup
  <2> QED
    BY <1>2, <1>7, <2>1 DEF cleanup, inputVars
<1>8. ASSUME NEW s \in Senders, NEW a, NEW tim,
             enqueueFind(s, a, tim) \/ enqueueLookup(s, a, tim)
      PROVE  C
  <2>1. enqueues < MaxEnqueues /\ enqueues' = enqueues + 1 /\ receptions' = receptions
    BY <1>8 DEF enqueueFind, enqueueLookup
  <2>2. enqueues' > 0 /\ enqueues' \in 0..MaxEnqueues
    BY <1>1, <2>1
  <2> QED
    BY <2>1, <2>2 DEF Counted
<1>9. ASSUME NEW s \in Senders, enqueueCopy(s) PROVE C
  <2>1. enq[s].pc # "idle"
    BY <1>9 DEF enqueueCopy
  <2>2. \A u \in Senders : enq'[u].pc # "idle" => enq[u].pc # "idle"
    BY <1>1, <1>9, <2>1 DEF enqueueCopy
  <2> QED
    BY <1>2, <1>9, <2>2 DEF enqueueCopy, inputVars
<1>10. ASSUME NEW s \in Senders, enqueuePut(s) PROVE C
  <2>1. \A u \in Senders : enq'[u].pc # "idle" => enq[u].pc # "idle"
    BY <1>1, <1>10 DEF enqueuePut, idleEnqueue
  <2> QED
    BY <1>2, <1>10, <2>1 DEF enqueuePut
<1>11. ASSUME hostArms \/ tick \/ UNCHANGED vars PROVE C
  BY <1>2, <1>11 DEF hostArms, tick, vars, inputVars
<1>12. ASSUME NEW g, pullData(g) PROVE C
  BY <1>2, <1>12 DEF pullData, inputVars
<1> QED
  BY <1>3, <1>4, <1>5, <1>6, <1>7, <1>8, <1>9, <1>10, <1>11, <1>12
     DEF Next, loopStep, senderStep, onPushData, readPushData

\* A downlink that is queued was queued before and has not been sent, or has
\* just been written by a sender.
LEMMA WhoQueues ==
    ASSUME IInv, [Next]_vars, NEW a \in Addrs, queue!hasDownlink(a)'
    PROVE  \/ queue!hasDownlink(a) /\ queuedAt'[a] = queuedAt[a] /\ ~timeout
           \/ \E s \in Senders : enqueuePut(s) /\ queuedAt'[a] = now
<1> DEFINE Stays == queue!hasDownlink(a) /\ queuedAt'[a] = queuedAt[a]
<1>1. ~timeout
  BY DEF timeout, sendQueuedDownlinkMessages, queue!hasDownlink
<1>2. ASSUME UNCHANGED <<downlinkMessages, queuedAt>> PROVE Stays
  BY <1>2 DEF queue!hasDownlink
<1>3. ASSUME NEW t, pushStep(t) PROVE Stays
  BY <1>2, <1>3 DEF pushStep, put, queue!putUplink, announce, queueVars,
                    prepareSendConfirmation, inputVars
<1>4. ASSUME NEW t, NEW g, NEW p, NEW st, NEW l, receive(t, g, p, st, l) PROVE Stays
  BY <1>2, <1>4 DEF receive, queueVars
<1>5. ASSUME readControl \/ timerEvent \/ sendQueueEnd \/ arm \/ cleanup PROVE Stays
  BY <1>2, <1>5 DEF readControl, timerEvent, sendQueueEnd, arm, cleanup,
                    queue!clearOldUplinkMessages, queueVars, inputVars
<1>6. ASSUME NEW freed, sendQueue(freed) PROVE Stays
  BY <1>2, <1>6 DEF sendQueue, inputVars
<1>7. ASSUME NEW s, NEW b, NEW tim,
             enqueueFind(s, b, tim) \/ enqueueLookup(s, b, tim) \/ enqueueCopy(s)
      PROVE  Stays
  <2>1. enqueueFind(s, b, tim) \/ enqueueLookup(s, b, tim) =>
            UNCHANGED <<queueVars, queuedAt>>
    BY DEF enqueueFind, enqueueLookup
  <2>2. enqueueCopy(s) => UNCHANGED <<queueVars, queuedAt>>
    BY DEF enqueueCopy, inputVars
  <2> QED
    BY <1>2, <1>7, <2>1, <2>2 DEF queueVars
<1>8. ASSUME NEW g, pullData(g) PROVE Stays
  BY <1>2, <1>8 DEF pullData, queueVars, inputVars
<1>9. ASSUME hostArms \/ tick \/ UNCHANGED vars PROVE Stays
  BY <1>2, <1>9 DEF hostArms, tick, vars, queueVars, inputVars
<1>10. ASSUME NEW s \in Senders, enqueuePut(s)
       PROVE  Stays \/ queuedAt'[a] = now
  <2>1. /\ downlinkMessages \in [Addrs -> queue!DownlinkItem \cup {NoItem}]
        /\ queuedAt \in [Addrs -> Nat]
    BY DEF IInv, TypeOK, queue!TypeOK
  <2> QED
    BY <1>10, <2>1 DEF enqueuePut, queue!putDownlink, queue!hasDownlink
<1> QED
  BY <1>1, <1>3, <1>4, <1>5, <1>6, <1>7, <1>8, <1>9, <1>10
     DEF Next, loopStep, senderStep, onPushData, readPushData

\* The clock moves only when nothing is under way.
LEMMA TickTimely ==
    ASSUME Prompt = TRUE, IInv, IInv', NEW since \in Nat, Timely(since), tick
    PROVE  Timely(since)'
<1>1. /\ settled /\ now' = now + 1
      /\ UNCHANGED <<waitSince, timeAddr, control, pc, enq, inputVars>>
  BY TickSettled DEF tick, queueVars, threadVars
<1>2. Level' = Level
  BY <1>1, LevelStays DEF inputVars
<1>3. since <= now'
  <2>1. since <= now /\ now \in Nat
    BY LevelTyped DEF Timely
  <2> QED
    BY <1>1, <2>1
<1>4. InTime(since, waitSince)'
  <2>1. InTime(since, waitSince)
    BY DEF Timely
  <2> QED
    BY <1>1, <1>2, <2>1 DEF InTime
<1>5. ASSUME NEW e \in timeAddr' PROVE InTime(since, e.time + WaitTime)'
  <2>1. InTime(since, e.time + WaitTime)
    BY <1>1, <1>5 DEF Timely
  <2> QED
    BY <1>2, <2>1 DEF InTime
<1>6. ~Busy'
  BY <1>1 DEF settled, Busy
<1>7. pc'[Loop] = "idle"
  BY <1>1 DEF settled, Threads
<1> QED
  BY <1>3, <1>4, <1>5, <1>6, <1>7 DEF Timely

\* Every downlink stays in time.
LEMMA DownlinksStep ==
    ASSUME Prompt = TRUE, Pinging = {}, IInv, IInv', OneWaits, PInv, PInv', DInv,
           SelectInTime', [Next]_vars
    PROVE  DownlinksTimely'
<1> SUFFICES ASSUME NEW a \in Addrs, queue!hasDownlink(a)'
             PROVE  enqueues' > 0 /\ Timely(queuedAt[a])'
  BY DEF DownlinksTimely
<1>1. PICK since \in Nat : since = queuedAt'[a]
  BY DEF IInv, TypeOK
<1>2. CASE queue!hasDownlink(a) /\ since = queuedAt[a] /\ ~timeout
  <2>1. enqueues > 0 /\ Timely(since)
    BY <1>2 DEF DInv, DownlinksTimely
  <2>2. Timely(since)'
    <3>1. CASE tick
      BY <2>1, <3>1, TickTimely
    <3>2. CASE ~tick
      <4>1. Pays(since)
        BY <1>2, <2>1, <3>2, DownlinkPays
      <4> QED
        BY <2>1, <4>1, TimelyStep DEF Pays, DInv
    <3> QED
      BY <3>1, <3>2
  <2>3. enqueues' > 0
    BY <2>1, CountedStep DEF DInv
  <2> QED
    BY <1>1, <2>2, <2>3 DEF Timely, InTime
<1>3. ASSUME NEW s \in Senders, enqueuePut(s), since = now
      PROVE  enqueues' > 0 /\ Timely(queuedAt[a])'
  <2>1. enqueues > 0
    BY <1>3 DEF enqueuePut, DInv, Counted
  <2>2. now' = now /\ enqueues' = enqueues
    BY <1>3 DEF enqueuePut
  <2>3. Timely(since)'
    BY <1>3, <2>1, <2>2, TimelyNew DEF PInv
  <2> QED
    BY <1>1, <2>1, <2>2, <2>3 DEF Timely, InTime
<1> QED
  BY <1>1, <1>2, <1>3, WhoQueues

\* What holds of the downlinks when no gateway pings.
LEMMA DownlinkInvariant ==
    ASSUME Prompt = TRUE, Pinging = {}
    PROVE  Spec => [](IInv /\ DInv)
<1>1. Init => DInv
  <2> SUFFICES ASSUME Init PROVE DInv
    OBVIOUS
  <2>1. SelectInTime
    BY DispatcherAssumption, QueueAssumption
       DEF Init, SelectInTime, queue!MessageQueueAssumption
  <2>2. Counted
    BY DispatcherAssumption DEF Init, Counted, idleEnqueue
  <2>3. DownlinksTimely
    BY DEF Init, queue!Init, DownlinksTimely, queue!hasDownlink
  <2> QED
    BY <2>1, <2>2, <2>3 DEF DInv
<1>2. IInv /\ IInv' /\ OneWaits /\ PInv /\ PInv' /\ DInv /\ [Next]_vars => DInv'
  <2> SUFFICES ASSUME IInv, IInv', OneWaits, PInv, PInv', DInv, [Next]_vars
               PROVE  DInv'
    OBVIOUS
  <2>1. SelectInTime'
    BY SelectInTimeStep DEF DInv
  <2>2. Counted'
    BY CountedStep DEF DInv
  <2>3. DownlinksTimely'
    BY <2>1, DownlinksStep
  <2> QED
    BY <2>1, <2>2, <2>3 DEF DInv
<1> QED
  BY <1>1, <1>2, PromptInvariant, PTL DEF Spec

\* With fast threads and no gateway that pings a downlink leaves the queue in
\* bounded time (sendQueuedDownlinkMessages): it is in time at the moment select()
\* was entered, and select() times out SelectTimeout later.
THEOREM DownlinkAlwaysTimely ==
    ASSUME Prompt = TRUE, Pinging = {}
    PROVE  Spec => []DownlinkIsTimely
<1>1. IInv /\ DInv => DownlinkIsTimely
  <2> SUFFICES ASSUME IInv, DInv, NEW a \in Addrs, queue!hasDownlink(a)
               PROVE  now - queuedAt[a] <=
                        (MaxReceptions + MaxEnqueues) * (SelectTimeout + WaitTime)
    BY DEF DownlinkIsTimely
  <2>1. PICK tim \in Nat : tim = queuedAt[a]
    BY DEF IInv, TypeOK
  <2>2. /\ waitSince - tim <= Level /\ now <= waitSince + SelectTimeout
        /\ enqueues > 0
        /\ receptions \in 0..MaxReceptions /\ enqueues \in 0..MaxEnqueues
    BY <2>1 DEF DInv, DownlinksTimely, Timely, InTime, SelectInTime, Counted
  <2>3. PICK m \in Nat : m = receptions + enqueues - 1
    BY <2>2, LevelTyped
  <2>4. PICK k \in Nat : k = SelectTimeout + WaitTime
    BY LevelTyped
  <2>5. PICK n \in Nat : n = MaxReceptions + MaxEnqueues
    BY DispatcherAssumption
  <2>6. m + 1 \in Nat /\ m + 1 <= n
    BY <2>2, <2>3, <2>5, LevelTyped, DispatcherAssumption
  <2>7. (m + 1) * k <= n * k
    BY <2>6, Grows
  <2>8. (m + 1) * k = m * k + k /\ m * k \in Int /\ n * k \in Int
    BY Distributes
  <2>9. Level = WaitTime + m * k
    BY <2>3, <2>4 DEF Level
  <2>10. PICK p \in Int : p = m * k
    BY <2>8
  <2>11. now - tim <= p + k
    BY <2>2, <2>4, <2>9, <2>10, LevelTyped
  <2>12. PICK q \in Int : q = n * k
    BY <2>8
  <2>13. p + k <= q
    BY <2>7, <2>8, <2>10, <2>12
  <2>14. now - tim <= q
    BY <2>4, <2>11, <2>13, LevelTyped
  <2> QED
    BY <2>1, <2>4, <2>5, <2>12, <2>14
<1> QED
  BY <1>1, DownlinkInvariant, PTL
=============================================================================
