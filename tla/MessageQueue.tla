---------------------------- MODULE MessageQueue ----------------------------
(***************************************************************************)
(* The message queue of the dispatcher (lorawan/task/message-queue.cpp and  *)
(* message-queue-item.cpp): the last frame heard from every device with the *)
(* reception report of each gateway that heard it, the frame waiting to be  *)
(* sent to every device, and the addresses waiting for a confirmation       *)
(* (TimeAddrSet).                                                           *)
(*                                                                         *)
(* Every operator is one member function; a client of the class alone is    *)
(* the specification at the end, and Dispatcher instantiates the operators  *)
(* for its threads.  A std::map is a total function that is NoItem (NoMeta) *)
(* where the map has no key.                                                *)
(*                                                                         *)
(* A frame is abstract: whose it is, which one it is, its size, whether it  *)
(* asks for a confirmation, whether it has a payload and whether it has     *)
(* frame options.  The bytes of a queued frame change when the dispatcher   *)
(* deciphers it in place; plain says so, and a frame that is plain does not *)
(* compare equal to the frame on the air.                                   *)
(*                                                                         *)
(* A frame comes in a storage of the largest size.  Whatever was received   *)
(* into the same storage before and was longer still shows behind the frame *)
(* (setLORAWAN_MESSAGE_STORAGE copies size bytes and no more).  stale is    *)
(* the set of these longer frames, one of each size at most, and stands for *)
(* the bytes past the frame.                                                *)
(***************************************************************************)
EXTENDS Integers

CONSTANTS
    Addrs, NoAddr,      \* device addresses
    Gateways,           \* gateway identifiers, never 0
    Packets,            \* uplink frames on the air
    Lsnr,               \* LoRa signal to noise ratios
    NoItem, NoMeta, NoTime,
    WaitTime,           \* see TimeAddrSet
    MaxTime             \* bound: the last instant

ASSUME MessageQueueAssumption ==
    /\ Gateways \subseteq Nat \ {0}
    /\ Packets \subseteq [addr : Addrs, fcnt : Nat, size : Nat,
                          confirmed : BOOLEAN, payload : BOOLEAN, fopts : BOOLEAN]
    /\ Lsnr \subseteq Int
    /\ NoAddr \notin Addrs
    /\ NoTime \notin Nat
    /\ WaitTime \in Nat
    /\ MaxTime \in Nat

VARIABLES
    uplinkMessages,     \* std::map<DEVADDR, MessageQueueItem> uplinkMessages
    downlinkMessages,   \* std::map<DEVADDR, MessageQueueItem> downlinkMessages
    timeAddr, addrTime  \* TimeAddrSet time2ResponseAddr

time2ResponseAddr == INSTANCE TimeAddrSet

vars == <<uplinkMessages, downlinkMessages, timeAddr, addrTime>>

\* GatewayMetadata of one gateway.  of is the frame the report was sent with:
\* the code keeps only the report, of is what the properties compare.
Metadata == [lsnr : Lsnr, t : Nat, of : Packets]

\* What can be left behind a frame in its storage.
Stale(pkt) == {S \in SUBSET {q \in Packets : q.size > pkt.size} :
                  \A p, q \in S : p.size = q.size => p = q}

\* MessageQueueItem of an uplink.  gatewayId is task.gatewayId.  delivered is
\* a history variable: the item was passed to the application bridges.
UplinkItem == [tim : Nat, radioPacket : Packets, stale : SUBSET Packets,
               plain : BOOLEAN,
               metadata : [Gateways -> Metadata \cup {NoMeta}],
               gatewayId : Gateways \cup {0}, delivered : BOOLEAN]

\* MessageQueueItem of a downlink: when to send it and through which gateway
\* (0: not known).
DownlinkItem == [tim : Nat, gatewayId : Gateways \cup {0}]

\* An absent key is no value of its map.
ASSUME NoKeyAssumption ==
    NoItem \notin UplinkItem \cup DownlinkItem /\ NoMeta \notin Metadata

TypeOK ==
    /\ uplinkMessages \in [Addrs -> UplinkItem \cup {NoItem}]
    /\ downlinkMessages \in [Addrs -> DownlinkItem \cup {NoItem}]
    /\ time2ResponseAddr!TypeOK

Init ==
    /\ uplinkMessages = [a \in Addrs |-> NoItem]
    /\ downlinkMessages = [a \in Addrs |-> NoItem]
    /\ time2ResponseAddr!Init

----------------------------------------------------------------------------

\* getUplink(), findUplink()
hasUplink(addr) == uplinkMessages[addr] # NoItem
hasDownlink(addr) == downlinkMessages[addr] # NoItem

\* LORAWAN_MESSAGE_STORAGE::operator== of the queued frame and the one received:
\* the whole storages are compared, whatever the sizes of the frames.
isSame(addr, pkt, stale) ==
    /\ hasUplink(addr)
    /\ uplinkMessages[addr].radioPacket = pkt
    /\ uplinkMessages[addr].stale = stale
    /\ ~uplinkMessages[addr].plain

\* A new item whose task has no gateway yet.
newItem_noGateway(time, gwId, pkt, stale, meta) ==
    [tim |-> time, radioPacket |-> pkt, stale |-> stale, plain |-> FALSE,
     metadata |-> [g \in Gateways |-> IF g = gwId THEN meta ELSE NoMeta],
     gatewayId |-> 0, delivered |-> FALSE]

newItem(time, gwId, pkt, stale, meta) ==
    [tim |-> time, radioPacket |-> pkt, stale |-> stale, plain |-> FALSE,
     metadata |-> [g \in Gateways |-> IF g = gwId THEN meta ELSE NoMeta],
     gatewayId |-> gwId, delivered |-> FALSE]

setMetadata(addr, gwId, meta) ==
    uplinkMessages' = [uplinkMessages EXCEPT ![addr].metadata[gwId] = meta]

\* putUplink(GwPushData) with std::map::operator[] in place of insert(): a
\* different frame replaces the queued one but inherits nothing.
putUplink_overwrites(time, gwId, pkt, stale, lsnr) ==
    LET meta == [lsnr |-> lsnr, t |-> time, of |-> pkt]
    IN  /\ IF isSame(pkt.addr, pkt, stale)
           THEN setMetadata(pkt.addr, gwId, meta)
           ELSE uplinkMessages' = [uplinkMessages EXCEPT
                                   ![pkt.addr] = newItem(time, gwId, pkt, stale, meta)]
        /\ UNCHANGED <<downlinkMessages, timeAddr, addrTime>>

\* putUplink(GwPushData) that drops a copy.
putUplink_noCopy(time, gwId, pkt, stale, lsnr) ==
    LET meta == [lsnr |-> lsnr, t |-> time, of |-> pkt]
    IN  /\ IF hasUplink(pkt.addr)
           THEN UNCHANGED uplinkMessages
           ELSE uplinkMessages' = [uplinkMessages EXCEPT
                                   ![pkt.addr] = newItem(time, gwId, pkt, stale, meta)]
        /\ UNCHANGED <<downlinkMessages, timeAddr, addrTime>>

\* putUplink(GwPushData) that compares addresses only.
putUplink_byAddress(time, gwId, pkt, stale, lsnr) ==
    LET meta == [lsnr |-> lsnr, t |-> time, of |-> pkt]
    IN  /\ IF hasUplink(pkt.addr)
           THEN setMetadata(pkt.addr, gwId, meta)
           ELSE uplinkMessages' = [uplinkMessages EXCEPT
                                   ![pkt.addr] = newItem(time, gwId, pkt, stale, meta)]
        /\ UNCHANGED <<downlinkMessages, timeAddr, addrTime>>

\* putUplink(GwPushData): a copy of the queued frame adds its gateway's report.
\* Any other frame is inserted, and std::map::insert leaves an existing key
\* alone: while an item of the device is queued a different frame is dropped.
putUplink(time, gwId, pkt, stale, lsnr) ==
    LET meta == [lsnr |-> lsnr, t |-> time, of |-> pkt]
    IN  /\ \/ /\ isSame(pkt.addr, pkt, stale)
              /\ setMetadata(pkt.addr, gwId, meta)
           \/ /\ ~hasUplink(pkt.addr)
              /\ uplinkMessages' = [uplinkMessages EXCEPT
                                    ![pkt.addr] = newItem(time, gwId, pkt, stale, meta)]
           \/ /\ hasUplink(pkt.addr)
              /\ ~isSame(pkt.addr, pkt, stale)
              /\ UNCHANGED uplinkMessages
        /\ UNCHANGED <<downlinkMessages, timeAddr, addrTime>>

\* What putUplink(GwPushData) returns.
isNew(pkt, stale) == ~isSame(pkt.addr, pkt, stale)

\* putDownlink() that leaves the time of the item unset.
putDownlink_untimed(time, addr, gwId) ==
    /\ downlinkMessages' = IF hasDownlink(addr) THEN downlinkMessages
                           ELSE [downlinkMessages EXCEPT
                                 ![addr] = [tim |-> NoTime, gatewayId |-> gwId]]
    /\ time2ResponseAddr!push(addr, time)
    /\ UNCHANGED uplinkMessages

\* putDownlink(): one message per device, a second one is skipped; the address
\* joins the addresses that wait for a confirmation either way.
putDownlink(time, addr, gwId) ==
    /\ downlinkMessages' = IF hasDownlink(addr) THEN downlinkMessages
                           ELSE [downlinkMessages EXCEPT
                                 ![addr] = [tim |-> time, gatewayId |-> gwId]]
    /\ time2ResponseAddr!push(addr, time)
    /\ UNCHANGED uplinkMessages

rmUplink(addr) ==
    /\ uplinkMessages' = [uplinkMessages EXCEPT ![addr] = NoItem]
    /\ UNCHANGED <<downlinkMessages, timeAddr, addrTime>>

rmDownlink(addr) ==
    /\ downlinkMessages' = [downlinkMessages EXCEPT ![addr] = NoItem]
    /\ UNCHANGED <<uplinkMessages, timeAddr, addrTime>>

\* The addresses whose message is older than since.
expired(messages, since) ==
    {a \in Addrs : messages[a] # NoItem /\ messages[a].tim < since}

clearOldUplinkMessages(since) ==
    /\ uplinkMessages' = [a \in Addrs |->
            IF a \in expired(uplinkMessages, since) THEN NoItem
            ELSE uplinkMessages[a]]
    /\ UNCHANGED <<downlinkMessages, timeAddr, addrTime>>

clearOldDownlinkMessages(since) ==
    /\ downlinkMessages' = [a \in Addrs |->
            IF a \in expired(downlinkMessages, since) THEN NoItem
            ELSE downlinkMessages[a]]
    /\ UNCHANGED <<uplinkMessages, timeAddr, addrTime>>

\* LORAWAN_MESSAGE_STORAGE::decode(): the payload is XORed with the key stream
\* in place, so a second call enciphers it again.
decode(addr) ==
    /\ hasUplink(addr)
    /\ uplinkMessages' = [uplinkMessages EXCEPT
            ![addr].plain = IF uplinkMessages[addr].radioPacket.payload
                            THEN ~uplinkMessages[addr].plain
                            ELSE uplinkMessages[addr].plain]
    /\ UNCHANGED <<downlinkMessages, timeAddr, addrTime>>

\* getBestGatewayAddress(): the smallest identifier among the gateways with
\* the best signal to noise ratio, 0 without any (BestGateway shows that the
\* loop computes it).
heardBy(item) == {g \in Gateways : item.metadata[g] # NoMeta}

\* The reports of an item are finitely many, so one of them is the best.
ASSUME BestExistsAssumption ==
    \A S \in SUBSET Gateways : \A l \in [S -> Lsnr] :
        S # {} => \E g \in S : \A h \in S : \/ l[g] > l[h]
                                            \/ l[g] = l[h] /\ g <= h

bestGatewayAddress(item) ==
    IF heardBy(item) = {} THEN 0
    ELSE CHOOSE g \in heardBy(item) :
            \A h \in heardBy(item) :
                \/ item.metadata[g].lsnr > item.metadata[h].lsnr
                \/ item.metadata[g].lsnr = item.metadata[h].lsnr /\ g <= h

----------------------------------------------------------------------------

\* A client of the class: every member function that changes state and has a
\* caller (the overload of putUplink that takes the frame and its report apart
\* has none), at any instant and in any order.
Next ==
    \/ \E t \in 0..MaxTime, g \in Gateways, p \in Packets, s \in Lsnr :
            \E stale \in Stale(p) : putUplink(t, g, p, stale, s)
    \/ \E t \in 0..MaxTime, a \in Addrs, g \in Gateways : putDownlink(t, a, g)
    \/ \E a \in Addrs : rmUplink(a) \/ rmDownlink(a) \/ decode(a)
    \/ \E t \in 0..MaxTime :
            clearOldUplinkMessages(t) \/ clearOldDownlinkMessages(t)
    \/ \E t \in 0..MaxTime, freed \in Addrs \cup {NoAddr} :
            /\ time2ResponseAddr!popDue(t, freed)
            /\ UNCHANGED <<uplinkMessages, downlinkMessages>>

Spec == Init /\ [][Next]_vars

----------------------------------------------------------------------------

\* "If packet received by two or more gateways, identical messages merged into
\* the one" (README.md:89): all reception reports of an item describe one and
\* the same frame, the one the item holds, whatever mixture of frames, copies,
\* deciphering and removals came before.
MergedCopiesIdentical ==
    \A a \in Addrs : hasUplink(a) =>
        \A g \in heardBy(uplinkMessages[a]) :
            uplinkMessages[a].metadata[g].of = uplinkMessages[a].radioPacket

\* An item's frame is of the device it is filed under and "Radio metadata array
\* have at least 1 element" (README.md:90): the task's gateway has one.
ItemIsGrounded ==
    \A a \in Addrs : hasUplink(a) =>
        /\ uplinkMessages[a].radioPacket.addr = a
        /\ uplinkMessages[a].gatewayId \in heardBy(uplinkMessages[a])

\* While an item stays queued a frame never changes under the reports that were
\* merged into it: same frame, same first reception, no report lost.
ItemKeepsIdentity ==
    [][\A a \in Addrs :
        (hasUplink(a) /\ hasUplink(a)') =>
            /\ uplinkMessages'[a].radioPacket = uplinkMessages[a].radioPacket
            /\ uplinkMessages'[a].tim = uplinkMessages[a].tim
            /\ heardBy(uplinkMessages[a]) \subseteq heardBy(uplinkMessages'[a])]_vars
=============================================================================
