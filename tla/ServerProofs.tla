---------------------------- MODULE ServerProofs ----------------------------
(***************************************************************************)
(* Proofs about Server, for any clients, limits, settings and signals.      *)
(*                                                                         *)
(* IInv adds to TypeOK how the threads' own accounts of themselves follow    *)
(* the threads: `stopped` is true exactly while no bridge thread exists,     *)
(* TASK_STOPPED of the downlink means that its thread has gone, and where    *)
(* main() may be while each of them exists.                                  *)
(***************************************************************************)
EXTENDS Server, FiniteSetTheorems, TLAPS

\* Where main() is before the bridge may have a thread, and after it has none.
BeforeBridge == {"startTimer", "openSockets", "setRun", "initBridges"}
AfterBridge == TearDown \cup {"setStopped"}
AfterTimer == {"deleteBridge", "waitDelete", "callStop", "exit", "exited"}

BridgeInv ==
    /\ stopped <=> bridgePc \in {"none", "gone"}
    /\ mainPc \in BeforeBridge => bridgePc = "none" /\ bridgeOn
    /\ mainPc \in AfterBridge => bridgePc \in {"none", "gone"}
    /\ ~bridgeOn => bridgePc = "none"

TimerInv ==
    /\ timerState = "stopped" => timerPc \in {"none", "gone"}
    /\ timerPc = "none" => mainPc = "startTimer"
    /\ mainPc \in AfterTimer => timerPc = "gone"

\* The table of clients is typed and within its limit.
TableOK ==
    /\ tcp \subseteq Clients
    /\ udp \in [Clients -> (0..MaxTime) \cup {NoTime}]
    /\ Cardinality(tcp) + Cardinality(udpClients) <= MaxConnections

\* The rest of TypeOK.
OtherOK ==
    /\ state \in {"stopped", "run", "stop"}
    /\ mainPc \in {"startTimer", "openSockets", "setRun", "initBridges", "loop",
                   "onPayload"} \cup Leaving \cup TearDown \cup Ended
    /\ handler \in [Threads -> {"none", "enter", "request", "wait"}]
    /\ signals \in 0..config.signals
    /\ timerState \in {"stopped", "start", "run", "stop"}
    /\ timerPc \in {"none", "created", "call", "loop", "sleep", "end", "gone"}
    /\ listAlive \in BOOLEAN /\ misused \in BOOLEAN
    /\ bridgeOn \in BOOLEAN /\ running \in BOOLEAN /\ stopped \in BOOLEAN
    /\ bridgePc \in {"none", "loop", "send", "gone"}
    /\ inbox \in 0..InboxMax /\ payloads \in 0..MaxPayloads
    /\ config \in Configs /\ now \in 0..MaxTime

IInv == OtherOK /\ TableOK /\ BridgeInv /\ TimerInv

----------------------------------------------------------------------------

LEMMA IInvTyped == IInv => TypeOK
BY DEF IInv, OtherOK, TableOK, TypeOK

\* Sets of clients are finite.
LEMMA ClientsFinite ==
    ASSUME NEW S \in SUBSET Clients
    PROVE  IsFiniteSet(S) /\ Cardinality(S) \in Nat
BY ServerAssumption, FS_Subset, FS_CardinalityType

\* An element more.
LEMMA AddOne ==
    ASSUME NEW S, NEW x, IsFiniteSet(S)
    PROVE  Cardinality(S \cup {x}) <= Cardinality(S) + 1
<1>1. Cardinality(S) \in Nat
  BY FS_CardinalityType
<1>2. CASE x \in S
  <2>1. Cardinality(S \cup {x}) = Cardinality(S)
    BY <1>2, FS_AddElement
  <2> QED
    BY <1>1, <2>1
<1>3. CASE x \notin S
  <2>1. Cardinality(S \cup {x}) = Cardinality(S) + 1
    BY <1>3, FS_AddElement
  <2> QED
    BY <1>1, <2>1
<1> QED
  BY <1>2, <1>3

\* A table that lost clients is within the limit.
LEMMA TableShrinks ==
    ASSUME TableOK, tcp' \subseteq tcp,
           udp' \in [Clients -> (0..MaxTime) \cup {NoTime}],
           \A c \in Clients : udp'[c] # NoTime => udp[c] # NoTime
    PROVE  TableOK'
<1>1. /\ tcp \subseteq Clients /\ tcp' \subseteq Clients
      /\ udpClients \subseteq Clients /\ udpClients' \subseteq udpClients
  BY DEF TableOK, udpClients
<1>2. /\ IsFiniteSet(tcp) /\ IsFiniteSet(udpClients)
      /\ Cardinality(tcp) \in Nat /\ Cardinality(udpClients) \in Nat
      /\ Cardinality(tcp') \in Nat /\ Cardinality(udpClients') \in Nat
  <2>1. udpClients' \subseteq Clients
    BY <1>1
  <2> QED
    BY <1>1, <2>1, ClientsFinite
<1>3. /\ Cardinality(tcp') <= Cardinality(tcp)
      /\ Cardinality(udpClients') <= Cardinality(udpClients)
  BY <1>1, <1>2, FS_Subset
<1>4. Cardinality(tcp') + Cardinality(udpClients') <= MaxConnections
  BY <1>2, <1>3, ServerAssumption DEF TableOK
<1> QED
  BY <1>1, <1>4 DEF TableOK

\* Nothing happens to the table.
LEMMA TableSame ==
    ASSUME TableOK, UNCHANGED tableVars
    PROVE  TableOK'
BY DEF TableOK, tableVars, udpClients

----------------------------------------------------------------------------
(* The steps of main()                                                      *)

LEMMA MainTable == IInv /\ mainStep => TableOK'
<1> SUFFICES ASSUME IInv, mainStep PROVE TableOK'
  OBVIOUS
<1>1. UNCHANGED tableVars
  BY DEF mainStep, startTimer, openSockets, setRun, initBridges, onPayload, leaveLoop,
         closeSockets, stopBridge, waitBridge, setStopped, destroyList,
         stopTimer, waitTimer, callStop, exit
<1> QED
  BY <1>1, TableSame DEF IInv

LEMMA MainOther == IInv /\ mainStep => OtherOK'
<1> SUFFICES ASSUME OtherOK, mainStep PROVE OtherOK'
  BY DEF IInv
<1> USE DEF OtherOK, mainGoes, signalVars, timerVars, bridgeVars, envVars, Leaving,
            TearDown
<1>1. CASE startTimer
  BY <1>1 DEF startTimer
<1>2. CASE openSockets
  BY <1>2 DEF openSockets
<1>3. CASE setRun
  BY <1>3 DEF setRun
<1>4. CASE initBridges
  <2>1. /\ mainPc' = "loop" /\ handler' = handler /\ signals' = signals
        /\ UNCHANGED <<state, timerState, timerPc, listAlive, misused, inbox,
                       payloads, config, now>>
    BY <1>4 DEF initBridges
  <2>2. \/ /\ running' = TRUE /\ stopped' = FALSE /\ bridgePc' = "loop"
           /\ bridgeOn' = bridgeOn
        \/ /\ bridgeOn' = FALSE
           /\ UNCHANGED <<running, stopped, bridgePc>>
    BY <1>4 DEF initBridges
  <2>3. running' \in BOOLEAN /\ stopped' \in BOOLEAN /\ bridgeOn' \in BOOLEAN
    BY <2>2
  <2>4. bridgePc' \in {"none", "loop", "send", "gone"}
    BY <2>2
  <2> QED
    BY <2>1, <2>3, <2>4
<1>5. CASE onPayload
  BY <1>5, ServerAssumption DEF onPayload
<1>6. CASE leaveLoop
  BY <1>6 DEF leaveLoop
<1>7. CASE closeSockets
  BY <1>7 DEF closeSockets
<1>8. CASE stopBridge
  <2>1. \/ mainPc = "doneBridges" /\ mainPc' = "waitBridge"
        \/ mainPc = "deleteBridge" /\ mainPc' = "waitDelete"
    BY <1>8 DEF stopBridge
  <2>2. /\ running' = FALSE /\ handler' = handler /\ signals' = signals
        /\ UNCHANGED <<state, timerState, timerPc, listAlive, misused, bridgeOn,
                       stopped, bridgePc, inbox, payloads, config, now>>
    BY <1>8 DEF stopBridge
  <2>3. mainPc' \in {"waitBridge", "waitDelete"} /\ running' \in BOOLEAN
    BY <2>1, <2>2
  <2> QED
    BY <2>2, <2>3
<1>9. CASE waitBridge
  BY <1>9, ServerAssumption DEF waitBridge
<1>10. CASE setStopped
  BY <1>10 DEF setStopped
<1>11. CASE destroyList
  <2>1. /\ mainPc' = "stopTimer" /\ handler' = handler /\ signals' = signals
        /\ UNCHANGED <<state, timerState, timerPc, misused, bridgeOn, running,
                       stopped, bridgePc, inbox, payloads, config, now>>
    BY <1>11 DEF destroyList
  <2>2. listAlive' \in BOOLEAN
    BY <1>11 DEF destroyList
  <2> QED
    BY <2>1, <2>2
<1>12. CASE stopTimer
  BY <1>12 DEF stopTimer
<1>13. CASE waitTimer
  BY <1>13 DEF waitTimer
<1>14. CASE callStop
  BY <1>14 DEF callStop, Threads
<1>15. CASE exit
  BY <1>15 DEF exit
<1> QED
  BY <1>1, <1>2, <1>3, <1>4, <1>5, <1>6, <1>7, <1>8, <1>9, <1>10, <1>11,
     <1>12, <1>13, <1>14, <1>15 DEF mainStep

LEMMA MainBridge == IInv /\ mainStep => BridgeInv'
<1> SUFFICES ASSUME OtherOK, BridgeInv, mainStep PROVE BridgeInv'
  BY DEF IInv
<1> USE DEF mainGoes, OtherOK, BridgeInv, bridgeVars, BeforeBridge, AfterBridge,
            Leaving, TearDown
<1>1. CASE startTimer
  BY <1>1 DEF startTimer
<1>2. CASE openSockets
  BY <1>2 DEF openSockets
<1>3. CASE setRun
  BY <1>3 DEF setRun
<1>4. CASE initBridges
  <2>1. mainPc = "initBridges" /\ mainPc' = "loop"
    BY <1>4 DEF initBridges
  <2>2. \/ stopped' = FALSE /\ bridgePc' = "loop" /\ bridgeOn' = bridgeOn
        \/ bridgeOn' = FALSE /\ stopped' = stopped /\ bridgePc' = bridgePc
    BY <1>4 DEF initBridges
  <2>3. bridgePc = "none" /\ bridgeOn = TRUE /\ stopped = TRUE
    BY <2>1
  <2> QED
    BY <2>1, <2>2, <2>3
<1>5. CASE onPayload
  BY <1>5 DEF onPayload
<1>6. CASE leaveLoop
  BY <1>6 DEF leaveLoop
<1>7. CASE closeSockets
  BY <1>7 DEF closeSockets
<1>8. CASE stopBridge
  BY <1>8 DEF stopBridge
<1>9. CASE waitBridge
  BY <1>9 DEF waitBridge
<1>10. CASE setStopped
  BY <1>10 DEF setStopped
<1>11. CASE destroyList
  BY <1>11 DEF destroyList
<1>12. CASE stopTimer
  BY <1>12 DEF stopTimer
<1>13. CASE waitTimer
  BY <1>13 DEF waitTimer
<1>14. CASE callStop
  BY <1>14 DEF callStop
<1>15. CASE exit
  BY <1>15 DEF exit
<1> QED
  BY <1>1, <1>2, <1>3, <1>4, <1>5, <1>6, <1>7, <1>8, <1>9, <1>10, <1>11,
     <1>12, <1>13, <1>14, <1>15 DEF mainStep

LEMMA MainTimer == IInv /\ mainStep => TimerInv'
<1> SUFFICES ASSUME OtherOK, TimerInv, mainStep PROVE TimerInv'
  BY DEF IInv
<1> QED
  BY DEF mainStep, startTimer, openSockets, setRun, initBridges, onPayload, leaveLoop,
         closeSockets, stopBridge, waitBridge, setStopped, destroyList,
         stopTimer, waitTimer, callStop, exit,
         mainGoes, OtherOK, TimerInv, timerVars, AfterTimer

LEMMA MainStep == IInv /\ mainStep => IInv'
BY MainTable, MainOther, MainBridge, MainTimer DEF IInv

----------------------------------------------------------------------------
(* Payloads, signals and the clock                                          *)

LEMMA EnvStep ==
    ASSUME IInv,
           \/ deliver \/ selectFails \/ tick
           \/ \E t \in Threads : interrupt(t) \/ handlerStep(t)
    PROVE  IInv'
<1> USE ServerAssumption
<1>1. TableOK'
  <2>1. UNCHANGED tableVars
    BY DEF deliver, selectFails, interrupt, handlerStep, tick
  <2> QED
    BY <2>1, TableSame DEF IInv
<1>2. OtherOK /\ BridgeInv /\ TimerInv
  BY DEF IInv
<1> USE DEF dispatcherVars, signalVars, timerVars, bridgeVars, envVars
<1>3. CASE deliver
  BY <1>1, <1>2, <1>3
     DEF deliver, mainGoes, IInv, OtherOK, BridgeInv, TimerInv, BeforeBridge,
         AfterBridge, AfterTimer, TearDown
<1>4. CASE selectFails
  BY <1>1, <1>2, <1>4
     DEF selectFails, mainGoes, IInv, OtherOK, BridgeInv, TimerInv, BeforeBridge,
         AfterBridge, AfterTimer, TearDown, Leaving
<1>5. CASE tick
  BY <1>1, <1>2, <1>5 DEF tick, IInv, OtherOK, BridgeInv, TimerInv
<1>6. ASSUME NEW t \in Threads, interrupt(t) PROVE IInv'
  <2>1. config.signals \in Nat
    BY <1>2 DEF OtherOK
  <2> QED
    BY <1>1, <1>2, <1>6, <2>1 DEF interrupt, IInv, OtherOK, BridgeInv, TimerInv
<1>7. ASSUME NEW t \in Threads, handlerStep(t) PROVE IInv'
  BY <1>1, <1>2, <1>7 DEF handlerStep, IInv, OtherOK, BridgeInv, TimerInv
<1> QED
  BY <1>3, <1>4, <1>5, <1>6, <1>7

----------------------------------------------------------------------------
(* The periodic downlink                                                    *)

LEMMA TimerStep == IInv /\ timerStep /\ mainPc \notin Ended => IInv'
<1> SUFFICES ASSUME IInv, timerStep, mainPc \notin Ended PROVE IInv'
  OBVIOUS
<1> USE DEF dispatcherVars, signalVars, bridgeVars, envVars
<1>1. TableOK'
  <2>1. UNCHANGED tableVars
    BY DEF timerStep, timerRun, timerCall, timerSend, timerSleep, timerLeave,
           timerEnd
  <2> QED
    BY <2>1, TableSame DEF IInv
<1>2. OtherOK /\ BridgeInv /\ TimerInv
  BY DEF IInv
<1>3. mainPc' \in {mainPc, "aborted"}
  BY DEF timerStep, timerRun, timerCall, timerSend, timerSleep, timerLeave,
         timerEnd
<1>4. BridgeInv'
  BY <1>2, <1>3
     DEF timerStep, timerRun, timerCall, timerSend, timerSleep, timerLeave,
         timerEnd, BridgeInv, BeforeBridge, AfterBridge, TearDown
<1>5. TimerInv'
  BY <1>2, <1>3
     DEF timerStep, timerRun, timerCall, timerSend, timerSleep, timerLeave,
         timerEnd, timerGoes, OtherOK, TimerInv, AfterTimer
<1>6. OtherOK'
  <2>1. CASE timerRun
    BY <1>2, <1>3, <2>1 DEF timerGoes, OtherOK, timerRun
  <2>2. CASE timerCall
    BY <1>2, <1>3, <2>2 DEF timerGoes, OtherOK, Ended, timerCall
  <2>3. CASE timerSend
    BY <1>2, <1>3, <2>3 DEF timerGoes, OtherOK, Ended, timerSend
  <2>4. CASE timerSleep
    BY <1>2, <1>3, <2>4 DEF timerGoes, OtherOK, timerSleep
  <2>5. CASE timerLeave
    BY <1>2, <1>3, <2>5 DEF timerGoes, OtherOK, timerLeave
  <2>6. CASE timerEnd
    BY <1>2, <1>3, <2>6 DEF timerGoes, OtherOK, timerEnd
  <2> QED
    BY <2>1, <2>2, <2>3, <2>4, <2>5, <2>6 DEF timerStep
<1> QED
  BY <1>1, <1>4, <1>5, <1>6 DEF IInv

----------------------------------------------------------------------------
(* The bridge's thread                                                      *)

LEMMA BridgeStep == IInv /\ bridgeStep => IInv'
<1> SUFFICES ASSUME IInv, bridgeStep PROVE IInv'
  OBVIOUS
<1> USE ServerAssumption DEF dispatcherVars, signalVars, timerVars, envVars
<1>1. TableOK'
  <2>1. CASE readPayload
    BY <2>1, TableSame DEF readPayload, IInv
  <2>2. CASE sendPayload
    BY <2>2, TableShrinks DEF sendPayload, IInv, TableOK
  <2>3. CASE bridgeEnd
    BY <2>3, TableShrinks DEF bridgeEnd, IInv, TableOK
  <2> QED
    BY <2>1, <2>2, <2>3 DEF bridgeStep
<1>2. OtherOK /\ BridgeInv /\ TimerInv
  BY DEF IInv
<1>3. OtherOK'
  <2>1. CASE readPayload
    <3>1. inbox' \in 0..InboxMax
      BY <1>2, <2>1 DEF readPayload, OtherOK
    <3> QED
      BY <1>2, <2>1, <3>1 DEF readPayload, bridgeGoes, OtherOK
  <2>2. CASE sendPayload
    BY <1>2, <2>2 DEF sendPayload, bridgeGoes, OtherOK
  <2>3. CASE bridgeEnd
    BY <1>2, <2>3 DEF bridgeEnd, bridgeGoes, OtherOK
  <2> QED
    BY <2>1, <2>2, <2>3 DEF bridgeStep
<1>4. BridgeInv'
  BY <1>2
     DEF bridgeStep, readPayload, sendPayload, bridgeEnd, bridgeGoes, BridgeInv
<1>5. TimerInv'
  BY <1>2 DEF bridgeStep, readPayload, sendPayload, bridgeEnd, TimerInv
<1> QED
  BY <1>1, <1>3, <1>4, <1>5 DEF IInv

\* A client comes, leaves or sends a datagram.
LEMMA ClientStep ==
    ASSUME IInv, NEW c \in Clients, accept(c) \/ readError(c) \/ datagram(c)
    PROVE  IInv'
<1> USE ServerAssumption DEF dispatcherVars, signalVars, timerVars, envVars
<1>1. OtherOK /\ BridgeInv /\ TimerInv /\ TableOK
  BY DEF IInv
<1>2. OtherOK'
  BY <1>1 DEF accept, readError, datagram, bridgeGoes, OtherOK
<1>3. BridgeInv'
  BY <1>1 DEF accept, readError, datagram, bridgeGoes, BridgeInv
<1>4. TimerInv'
  BY <1>1 DEF accept, readError, datagram, TimerInv
<1>5. /\ IsFiniteSet(tcp) /\ IsFiniteSet(udpClients)
      /\ Cardinality(tcp) \in Nat /\ Cardinality(udpClients) \in Nat
  BY <1>1, ClientsFinite DEF TableOK, udpClients
<1>6. TableOK'
  <2>1. CASE accept(c)
    <3>1. CASE full
      BY <1>1, <2>1, <3>1 DEF accept, TableOK, udpClients
    <3>2. CASE ~full
      <4>1. tcp' = tcp \cup {c} /\ c \notin tcp /\ udp' = udp
        BY <2>1, <3>2 DEF accept
      <4>2. Cardinality(tcp') = Cardinality(tcp) + 1
        BY <1>5, <4>1, FS_AddElement
      <4>3. udpClients' = udpClients
        BY <4>1 DEF udpClients
      <4>4. Cardinality(tcp') + Cardinality(udpClients') <= MaxConnections
        BY <1>5, <3>2, <4>2, <4>3 DEF full
      <4> QED
        BY <1>1, <4>1, <4>4 DEF TableOK
    <3> QED
      BY <3>1, <3>2
  <2>2. CASE readError(c)
    BY <1>1, <2>2, TableShrinks DEF readError, TableOK
  <2>3. CASE datagram(c)
    <3> DEFINE removed == IF full THEN cleanExpired ELSE {}
               accepted == ~full \/ removed # {}
               kept == udpClients \ removed
    <3>1. /\ tcp' = tcp
          /\ udp' = [d \in Clients |->
                        IF d = c /\ accepted THEN now
                        ELSE IF d \in removed THEN NoTime ELSE udp[d]]
      BY <2>3 DEF datagram
    <3>2. now \in 0..MaxTime /\ now # NoTime
      BY <1>1 DEF OtherOK
    <3>3. udp' \in [Clients -> (0..MaxTime) \cup {NoTime}]
      BY <1>1, <3>1, <3>2 DEF TableOK
    <3>4. removed \subseteq udpClients
      BY DEF cleanExpired
    <3>5. CASE ~accepted
      BY <1>1, <3>1, <3>3, <3>5, TableShrinks DEF TableOK
    <3>6. CASE accepted
      <4>1. udpClients' = kept \cup {c}
        BY <3>1, <3>2, <3>4, <3>6 DEF udpClients
      <4>2. IsFiniteSet(kept) /\ Cardinality(kept) \in Nat
        BY <1>1, ClientsFinite DEF udpClients
      <4>3. Cardinality(udpClients') <= Cardinality(kept) + 1
        BY <4>1, <4>2, AddOne
      <4>4. Cardinality(udpClients') \in Nat
        BY <1>1, <3>1, <4>1, ClientsFinite DEF udpClients
      <4>5. Cardinality(tcp) + Cardinality(kept) + 1 <= MaxConnections
        <5>1. CASE full
          <6>1. PICK d \in removed : d \in udpClients
            BY <3>4, <3>6, <5>1
          <6>2. /\ Cardinality(udpClients \ {d}) = Cardinality(udpClients) - 1
                /\ IsFiniteSet(udpClients \ {d})
            BY <1>5, <6>1, FS_RemoveElement
          <6>3. kept \subseteq udpClients \ {d}
            BY <6>1
          <6>4. Cardinality(kept) <= Cardinality(udpClients) - 1
            BY <6>2, <6>3, FS_Subset
          <6> QED
            BY <1>1, <1>5, <4>2, <6>4 DEF TableOK
        <5>2. CASE ~full
          <6>1. kept = udpClients
            BY <5>2
          <6> QED
            BY <1>5, <5>2, <6>1 DEF full
        <5> QED
          BY <5>1, <5>2
      <4>6. Cardinality(tcp') + Cardinality(udpClients') <= MaxConnections
        BY <1>5, <3>1, <4>2, <4>3, <4>4, <4>5
      <4> QED
        BY <1>1, <3>1, <3>3, <4>6 DEF TableOK
    <3> QED
      BY <3>5, <3>6
  <2> QED
    BY <2>1, <2>2, <2>3
<1> QED
  BY <1>2, <1>3, <1>4, <1>6 DEF IInv

----------------------------------------------------------------------------

\* Initially the process has its main thread and an empty table.
LEMMA InitIInv == Init => IInv
<1> SUFFICES ASSUME Init PROVE IInv
  OBVIOUS
<1>1. udpClients = {} /\ tcp = {}
  BY DEF Init, udpClients
<1>2. TableOK
  BY <1>1, FS_EmptySet, ServerAssumption DEF Init, TableOK
<1>3. config.signals \in Nat
  BY ServerAssumption DEF Init
<1>4. signals \in 0..config.signals /\ now \in 0..MaxTime /\ inbox \in 0..InboxMax
      /\ payloads \in 0..MaxPayloads
  BY <1>3, ServerAssumption DEF Init
<1>5. handler \in [Threads -> {"none", "enter", "request", "wait"}]
  BY DEF Init
<1>6. OtherOK
  BY <1>4, <1>5 DEF Init, OtherOK
<1> QED
  BY <1>2, <1>6
     DEF Init, IInv, BridgeInv, TimerInv, BeforeBridge, AfterBridge, AfterTimer,
         TearDown

\* Every step keeps the invariant.
LEMMA NextIInv == IInv /\ [Next]_vars => IInv'
<1>1. ASSUME IInv, UNCHANGED vars PROVE IInv'
  BY <1>1
     DEF vars, dispatcherVars, signalVars, timerVars, bridgeVars, tableVars, envVars,
         IInv, OtherOK, TableOK, udpClients, BridgeInv, TimerInv
<1>2. ASSUME IInv, Next PROVE IInv'
  <2>1. config.clients \subseteq Clients
    BY <1>2, ServerAssumption DEF IInv, OtherOK
  <2> QED
    BY <1>2, <2>1, MainStep, EnvStep, TimerStep, BridgeStep, ClientStep DEF Next
<1> QED
  BY <1>1, <1>2

\* Every variable keeps its type, and the bridge never has more clients than its
\* limit (TcpUdpV4Bridge::run, UdpClients::push).
THEOREM TypeCorrect == Spec => []TypeOK
BY InitIInv, NextIInv, IInvTyped, PTL DEF Spec

\* Threads end before what they use, for any signals to any threads at any time
\* and any clients: doneBridges() waits for the bridge's thread before
\* TASK_STOPPED, and ~RunDownlink() for its own.
THEOREM UsersAlwaysEndFirst == Spec => []UsersEndFirst
<1>1. IInv => UsersEndFirst
  BY DEF IInv, BridgeInv, TimerInv, UsersEndFirst, AfterBridge, AfterTimer
<1> QED
  BY InitIInv, NextIInv, <1>1, PTL DEF Spec
=============================================================================
