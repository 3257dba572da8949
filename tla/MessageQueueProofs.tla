------------------------- MODULE MessageQueueProofs -------------------------
(***************************************************************************)
(* Proofs about MessageQueue, for any devices, gateways, frames, signal     *)
(* ratios and times, and any order of calls.                                *)
(*                                                                         *)
(* The uplink invariant is about one item: its reports describe its frame   *)
(* and its task's gateway has one.  It is inductive because a report joins  *)
(* an item in two ways only, with the frame that creates the item and with  *)
(* a frame that equals the one the item holds; deciphering hides the frame  *)
(* from the comparison but does not change which frame it is.               *)
(***************************************************************************)
EXTENDS MessageQueue, TLAPS

\* One item, in one formula: the frame of device a with its reports.
Sound(a, item) ==
    /\ item.radioPacket.addr = a
    /\ item.gatewayId \in heardBy(item)
    /\ \A g \in heardBy(item) : item.metadata[g].of = item.radioPacket

UplinksSound ==
    \A a \in Addrs : hasUplink(a) => Sound(a, uplinkMessages[a])

UplinksTyped == uplinkMessages \in [Addrs -> UplinkItem \cup {NoItem}]

UplinkInv == UplinksTyped /\ UplinksSound

----------------------------------------------------------------------------

\* What is left behind a frame are frames.
LEMMA StaleTyped ==
    ASSUME NEW pkt \in Packets, NEW stale \in Stale(pkt)
    PROVE  stale \in SUBSET Packets
BY DEF Stale

\* A new item is well-typed and sound.
LEMMA NewItemSound ==
    ASSUME NEW pkt \in Packets, NEW gwId \in Gateways, NEW time \in Nat,
           NEW stale \in SUBSET Packets, NEW meta \in Metadata, meta.of = pkt
    PROVE  LET item == newItem(time, gwId, pkt, stale, meta)
           IN  item \in UplinkItem /\ Sound(pkt.addr, item)
<1> DEFINE item == newItem(time, gwId, pkt, stale, meta)
<1>1. /\ item.tim = time /\ item.radioPacket = pkt /\ item.stale = stale
      /\ item.plain = FALSE
      /\ item.gatewayId = gwId /\ item.delivered = FALSE
      /\ item.metadata = [g \in Gateways |-> IF g = gwId THEN meta ELSE NoMeta]
  BY DEF newItem
<1>2. item \in UplinkItem
  BY DEF newItem, UplinkItem
<1>3. heardBy(item) = {gwId}
  BY <1>1, NoKeyAssumption DEF heardBy
<1>4. Sound(pkt.addr, item)
  BY <1>1, <1>3 DEF Sound
<1> QED
  BY <1>2, <1>4

\* putUplink keeps every item sound.
LEMMA PutUplinkSound ==
    ASSUME UplinkInv, NEW time \in Nat, NEW gwId \in Gateways,
           NEW pkt \in Packets, NEW stale \in SUBSET Packets, NEW lsnr \in Lsnr,
           putUplink(time, gwId, pkt, stale, lsnr)
    PROVE  UplinkInv'
<1> DEFINE meta == [lsnr |-> lsnr, t |-> time, of |-> pkt]
           addr == pkt.addr
<1>1. meta \in Metadata /\ meta.of = pkt
  BY DEF Metadata
<1>2. addr \in Addrs
  BY MessageQueueAssumption
<1>3. CASE isSame(addr, pkt, stale) /\ setMetadata(addr, gwId, meta)
  <2> DEFINE old == uplinkMessages[addr]
             new == [old EXCEPT !.metadata[gwId] = meta]
  <2>1. /\ old \in UplinkItem /\ old.radioPacket = pkt /\ Sound(addr, old)
    BY <1>2, <1>3 DEF isSame, hasUplink, UplinkInv, UplinksTyped, UplinksSound
  <2>2. uplinkMessages' = [uplinkMessages EXCEPT ![addr] = new]
    BY <1>3 DEF setMetadata
  <2>3. /\ new.radioPacket = pkt /\ new.gatewayId = old.gatewayId
        /\ new.metadata = [old.metadata EXCEPT ![gwId] = meta]
        /\ new \in UplinkItem
    BY <1>1, <2>1 DEF UplinkItem
  <2>4. heardBy(new) = heardBy(old) \cup {gwId}
    BY <1>1, <2>1, <2>3, NoKeyAssumption DEF heardBy, UplinkItem
  <2>5. Sound(addr, new)
    BY <1>1, <2>1, <2>3, <2>4 DEF Sound, UplinkItem
  <2> QED
    BY <1>2, <2>2, <2>3, <2>5 DEF UplinkInv, UplinksTyped, UplinksSound, hasUplink
<1>4. CASE ~hasUplink(addr) /\ uplinkMessages' = [uplinkMessages EXCEPT
                                 ![addr] = newItem(time, gwId, pkt, stale, meta)]
  <2>1. newItem(time, gwId, pkt, stale, meta) \in UplinkItem
    BY <1>1, NewItemSound
  <2>2. Sound(addr, newItem(time, gwId, pkt, stale, meta))
    BY <1>1, NewItemSound
  <2> QED
    BY <1>2, <1>4, <2>1, <2>2 DEF UplinkInv, UplinksTyped, UplinksSound, hasUplink
<1>5. CASE UNCHANGED uplinkMessages
  BY <1>5 DEF UplinkInv, UplinksTyped, UplinksSound, hasUplink
<1> QED
  BY <1>3, <1>4, <1>5 DEF putUplink

\* Removing items keeps the others sound.
LEMMA RemoveSound ==
    ASSUME UplinkInv, NEW S \in SUBSET Addrs,
           uplinkMessages' = [a \in Addrs |-> IF a \in S THEN NoItem
                                              ELSE uplinkMessages[a]]
    PROVE  UplinkInv'
BY DEF UplinkInv, UplinksTyped, UplinksSound, hasUplink

\* Deciphering an item keeps what the item is about.
LEMMA DecodeSound ==
    ASSUME UplinkInv, NEW addr \in Addrs, decode(addr)
    PROVE  UplinkInv'
<1> DEFINE old == uplinkMessages[addr]
<1>1. old \in UplinkItem /\ Sound(addr, old) /\ old.radioPacket \in Packets
  BY DEF decode, hasUplink, UplinkInv, UplinksTyped, UplinksSound, UplinkItem
<1>2. PICK p \in BOOLEAN : uplinkMessages' = [uplinkMessages EXCEPT ![addr].plain = p]
  <2>1. old.radioPacket.payload \in BOOLEAN /\ old.plain \in BOOLEAN
    BY <1>1, MessageQueueAssumption DEF UplinkItem
  <2> QED
    BY <2>1 DEF decode
<1> DEFINE new == [old EXCEPT !.plain = p]
<1>3. new \in UplinkItem /\ new.radioPacket = old.radioPacket
      /\ new.gatewayId = old.gatewayId /\ new.metadata = old.metadata
  BY <1>1 DEF UplinkItem
<1>4. Sound(addr, new)
  BY <1>1, <1>3 DEF Sound, heardBy
<1>5. uplinkMessages' = [uplinkMessages EXCEPT ![addr] = new]
  BY <1>2
<1> QED
  BY <1>3, <1>4, <1>5 DEF UplinkInv, UplinksTyped, UplinksSound, hasUplink

----------------------------------------------------------------------------

DownlinksTyped == downlinkMessages \in [Addrs -> DownlinkItem \cup {NoItem}]

IInv == UplinkInv /\ DownlinksTyped /\ time2ResponseAddr!TypeOK

\* putDownlink keeps the types of the downlinks and of the waiting addresses.
LEMMA PutDownlinkTyped ==
    ASSUME DownlinksTyped, time2ResponseAddr!TypeOK, NEW t \in Nat,
           NEW a \in Addrs, NEW g \in Gateways, putDownlink(t, a, g)
    PROVE  DownlinksTyped' /\ time2ResponseAddr!TypeOK'
<1>1. [tim |-> t, gatewayId |-> g] \in DownlinkItem
  BY DEF DownlinkItem
<1>2. DownlinksTyped'
  BY <1>1 DEF putDownlink, DownlinksTyped
<1>3. time2ResponseAddr!push(a, t)
  BY DEF putDownlink
<1>4. CASE timeAddr # {}
  BY <1>2, <1>3, <1>4 DEF time2ResponseAddr!push, time2ResponseAddr!vars,
                    time2ResponseAddr!TypeOK
<1>5. CASE timeAddr = {}
  <2>1. /\ timeAddr' = {[time |-> t, addr |-> a]}
        /\ addrTime' = [addrTime EXCEPT ![a] = t]
    BY <1>3, <1>5 DEF time2ResponseAddr!push
  <2> QED
    BY <1>2, <2>1 DEF time2ResponseAddr!TypeOK, time2ResponseAddr!Entry
<1> QED
  BY <1>4, <1>5

\* The queue starts empty.
LEMMA InitIInv == Init => IInv
  BY DEF Init, IInv, UplinkInv, UplinksTyped, UplinksSound, DownlinksTyped,
         hasUplink, time2ResponseAddr!Init, time2ResponseAddr!TypeOK

\* Every member function keeps the invariant.
LEMMA NextIInv == IInv /\ [Next]_vars => IInv'
<1> SUFFICES ASSUME IInv, [Next]_vars PROVE IInv'
  OBVIOUS
<1> USE DEF IInv
<1>1. 0..MaxTime \subseteq Nat
  BY MessageQueueAssumption
<1>2. ASSUME NEW t \in 0..MaxTime, NEW g \in Gateways, NEW p \in Packets,
             NEW stale \in Stale(p), NEW s \in Lsnr, putUplink(t, g, p, stale, s)
      PROVE  IInv'
  <2>1. UplinkInv'
    BY <1>1, <1>2, StaleTyped, PutUplinkSound
  <2>2. UNCHANGED <<downlinkMessages, timeAddr, addrTime>>
    BY <1>2 DEF putUplink
  <2> QED
    BY <2>1, <2>2 DEF DownlinksTyped, time2ResponseAddr!TypeOK
<1>3. ASSUME NEW t \in 0..MaxTime, NEW a \in Addrs, NEW g \in Gateways,
             putDownlink(t, a, g)
      PROVE  IInv'
  <2>1. UNCHANGED uplinkMessages
    BY <1>3 DEF putDownlink
  <2>2. UplinkInv'
    BY <2>1 DEF UplinkInv, UplinksTyped, UplinksSound, hasUplink
  <2> QED
    BY <1>1, <1>3, <2>2, PutDownlinkTyped
<1>4. ASSUME NEW a \in Addrs, rmUplink(a)
      PROVE  IInv'
  <2>1. uplinkMessages' = [b \in Addrs |-> IF b \in {a} THEN NoItem
                                           ELSE uplinkMessages[b]]
    BY <1>4 DEF rmUplink, UplinkInv, UplinksTyped
  <2>2. UplinkInv'
    BY <2>1, RemoveSound
  <2> QED
    BY <1>4, <2>2 DEF rmUplink, DownlinksTyped, time2ResponseAddr!TypeOK
<1>5. ASSUME NEW a \in Addrs, rmDownlink(a)
      PROVE  IInv'
  BY <1>5 DEF rmDownlink, DownlinksTyped, UplinkInv, UplinksTyped, UplinksSound,
              hasUplink, time2ResponseAddr!TypeOK
<1>6. ASSUME NEW a \in Addrs, decode(a)
      PROVE  IInv'
  BY <1>6, DecodeSound DEF decode, DownlinksTyped, time2ResponseAddr!TypeOK
<1>7. ASSUME NEW t \in 0..MaxTime, clearOldUplinkMessages(t)
      PROVE  IInv'
  <2>1. expired(uplinkMessages, t) \in SUBSET Addrs
    BY DEF expired
  <2>2. UplinkInv'
    BY <1>7, <2>1, RemoveSound DEF clearOldUplinkMessages
  <2> QED
    BY <1>7, <2>2 DEF clearOldUplinkMessages, DownlinksTyped,
                      time2ResponseAddr!TypeOK
<1>8. ASSUME NEW t \in 0..MaxTime, clearOldDownlinkMessages(t)
      PROVE  IInv'
  BY <1>8 DEF clearOldDownlinkMessages, DownlinksTyped, UplinkInv, UplinksTyped,
              UplinksSound, hasUplink, time2ResponseAddr!TypeOK
<1>9. ASSUME NEW t \in 0..MaxTime, NEW freed \in Addrs \cup {NoAddr},
             time2ResponseAddr!popDue(t, freed),
             UNCHANGED <<uplinkMessages, downlinkMessages>>
      PROVE  IInv'
  <2>1. time2ResponseAddr!TypeOK'
    BY <1>9 DEF time2ResponseAddr!popDue, time2ResponseAddr!TypeOK
  <2> QED
    BY <1>9, <2>1 DEF DownlinksTyped, UplinkInv, UplinksTyped, UplinksSound,
                      hasUplink
<1>10. CASE UNCHANGED vars
  BY <1>10 DEF vars, DownlinksTyped, UplinkInv, UplinksTyped, UplinksSound,
               hasUplink, time2ResponseAddr!TypeOK
<1> QED
  BY <1>2, <1>3, <1>4, <1>5, <1>6, <1>7, <1>8, <1>9, <1>10 DEF Next

\* The maps of the queue have the types of their keys and values after any
\* calls in any order.
THEOREM TypeCorrect == Spec => []TypeOK
<1>1. IInv => TypeOK
  BY DEF IInv, UplinkInv, UplinksTyped, DownlinksTyped, TypeOK
<1> QED
  BY InitIInv, NextIInv, <1>1, PTL DEF Spec

\* Only reports of one and the same frame are ever merged, for any number of
\* gateways and frames (putUplink, decode, rmUplink, clearOldUplinkMessages).
THEOREM OnlyCopiesMerge == Spec => []MergedCopiesIdentical
<1>1. IInv => MergedCopiesIdentical
  BY DEF IInv, UplinkInv, UplinksSound, Sound, MergedCopiesIdentical
<1> QED
  BY InitIInv, NextIInv, <1>1, PTL DEF Spec

\* An item never loses its last report, nor its task's gateway the report that
\* brought it.
THEOREM ItemsAreGrounded == Spec => []ItemIsGrounded
<1>1. IInv => ItemIsGrounded
  BY DEF IInv, UplinkInv, UplinksSound, Sound, ItemIsGrounded
<1> QED
  BY InitIInv, NextIInv, <1>1, PTL DEF Spec

----------------------------------------------------------------------------
(* What a call does to the item of a device that has one before and after.  *)

\* Same frame, same first reception, no report lost.
Kept(old, new) ==
    /\ new.radioPacket = old.radioPacket
    /\ new.tim = old.tim
    /\ heardBy(old) \subseteq heardBy(new)

\* A further report adds its gateway and changes nothing else.
LEMMA ReportKeeps ==
    ASSUME NEW item \in UplinkItem, NEW gwId \in Gateways, NEW meta \in Metadata
    PROVE  Kept(item, [item EXCEPT !.metadata[gwId] = meta])
<1> DEFINE new == [item EXCEPT !.metadata[gwId] = meta]
<1>1. /\ new.radioPacket = item.radioPacket /\ new.tim = item.tim
      /\ new.metadata = [item.metadata EXCEPT ![gwId] = meta]
      /\ item.metadata \in [Gateways -> Metadata \cup {NoMeta}]
  BY DEF UplinkItem
<1> HIDE DEF new
<1>2. \A g \in Gateways : item.metadata[g] # NoMeta => new.metadata[g] # NoMeta
  BY <1>1, NoKeyAssumption
<1>3. heardBy(item) \subseteq heardBy(new)
  BY <1>2 DEF heardBy
<1> QED
  BY <1>1, <1>3 DEF Kept, new

\* putUplink keeps the item of every device that has one.
LEMMA PutUplinkKeeps ==
    ASSUME UplinkInv, NEW time \in Nat, NEW gwId \in Gateways,
           NEW pkt \in Packets, NEW stale \in SUBSET Packets, NEW lsnr \in Lsnr,
           putUplink(time, gwId, pkt, stale, lsnr), NEW a \in Addrs, hasUplink(a)
    PROVE  Kept(uplinkMessages[a], uplinkMessages'[a])
<1> DEFINE meta == [lsnr |-> lsnr, t |-> time, of |-> pkt]
           addr == pkt.addr
<1>1. uplinkMessages[a] \in UplinkItem
  BY DEF hasUplink, UplinkInv, UplinksTyped
<1>2. meta \in Metadata
  BY DEF Metadata
<1>3. CASE a # addr \/ UNCHANGED uplinkMessages
  <2>1. uplinkMessages'[a] = uplinkMessages[a]
    BY <1>3 DEF putUplink, setMetadata, UplinkInv, UplinksTyped
  <2> QED
    BY <2>1 DEF Kept
<1>4. CASE a = addr /\ isSame(addr, pkt, stale) /\ setMetadata(addr, gwId, meta)
  <2>1. uplinkMessages'[a] = [uplinkMessages[a] EXCEPT !.metadata[gwId] = meta]
    BY <1>4 DEF setMetadata, UplinkInv, UplinksTyped
  <2> QED
    BY <1>1, <1>2, <2>1, ReportKeeps
<1> QED
  BY <1>3, <1>4 DEF putUplink

\* While an item stays queued no call changes the frame under its reports, its
\* first reception or drops a report (putUplink, whose insert() leaves an
\* existing key alone, and decode).
THEOREM ItemsKeepIdentity == Spec => ItemKeepsIdentity
<1>1. ASSUME UplinkInv, [Next]_vars, NEW a \in Addrs, hasUplink(a), hasUplink(a)'
      PROVE  Kept(uplinkMessages[a], uplinkMessages'[a])
  <2>1. ASSUME uplinkMessages'[a] = uplinkMessages[a]
        PROVE  Kept(uplinkMessages[a], uplinkMessages'[a])
    BY <2>1 DEF Kept
  <2>2. ASSUME NEW t \in 0..MaxTime, NEW g \in Gateways, NEW p \in Packets,
               NEW stale \in Stale(p), NEW s \in Lsnr, putUplink(t, g, p, stale, s)
        PROVE  Kept(uplinkMessages[a], uplinkMessages'[a])
    BY <1>1, <2>2, StaleTyped, MessageQueueAssumption, PutUplinkKeeps
  <2>3. ASSUME NEW b \in Addrs, rmUplink(b) \/ rmDownlink(b)
        PROVE  Kept(uplinkMessages[a], uplinkMessages'[a])
    BY <1>1, <2>1, <2>3 DEF rmUplink, rmDownlink, hasUplink, UplinkInv, UplinksTyped
  <2>4. ASSUME NEW b \in Addrs, decode(b)
        PROVE  Kept(uplinkMessages[a], uplinkMessages'[a])
    <3>1. CASE a # b
      BY <1>1, <2>1, <2>4, <3>1 DEF decode, UplinkInv, UplinksTyped
    <3>2. CASE a = b
      <4>1. PICK p : uplinkMessages'[a] = [uplinkMessages[a] EXCEPT !.plain = p]
        BY <1>1, <2>4, <3>2 DEF decode, UplinkInv, UplinksTyped
      <4>2. uplinkMessages[a] \in UplinkItem
        BY <1>1 DEF hasUplink, UplinkInv, UplinksTyped
      <4> QED
        BY <4>1, <4>2 DEF Kept, heardBy, UplinkItem
    <3> QED
      BY <3>1, <3>2
  <2>5. ASSUME NEW t, clearOldUplinkMessages(t) \/ clearOldDownlinkMessages(t)
        PROVE  Kept(uplinkMessages[a], uplinkMessages'[a])
    BY <1>1, <2>1, <2>5 DEF clearOldUplinkMessages, clearOldDownlinkMessages,
                            hasUplink
  <2>6. ASSUME NEW t, NEW b, NEW g, putDownlink(t, b, g)
        PROVE  Kept(uplinkMessages[a], uplinkMessages'[a])
    BY <2>1, <2>6 DEF putDownlink
  <2> QED
    BY <1>1, <2>1, <2>2, <2>3, <2>4, <2>5, <2>6 DEF Next, vars
<1>2. IInv /\ [Next]_vars =>
        [\A a \in Addrs : (hasUplink(a) /\ hasUplink(a)') =>
            /\ uplinkMessages'[a].radioPacket = uplinkMessages[a].radioPacket
            /\ uplinkMessages'[a].tim = uplinkMessages[a].tim
            /\ heardBy(uplinkMessages[a]) \subseteq heardBy(uplinkMessages'[a])]_vars
  BY <1>1 DEF IInv, Kept
<1> QED
  BY <1>2, InitIInv, NextIInv, PTL DEF Spec, ItemKeepsIdentity
=============================================================================
