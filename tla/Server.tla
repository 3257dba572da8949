------------------------------- MODULE Server -------------------------------
(***************************************************************************)
(* The server's process (gw-dev/usb/gw-dev-usb.cpp): main() creates the      *)
(* periodic downlink (lorawan/downlink), runs the dispatcher's loop on its   *)
(* own thread, with the TCP/UDP bridge (lorawan/bridge) as a plugin, and      *)
(* tears everything down when a signal ends the loop.                        *)
(*                                                                         *)
(* Four threads: "main", "timer" (the periodic downlink), "bridge", and      *)
(* "radio", one of a gateway's threads, of which only the signal handler      *)
(* matters here.  A signal is delivered to any of them.  What the loop does   *)
(* with messages is in Dispatcher.                                           *)
(***************************************************************************)
EXTENDS Integers, FiniteSets

CONSTANTS
    Clients,        \* clients of the bridge, numbers in the order of addresses
    MaxConnections, \* DEF_MAX_CONNECTIONS
    Expiration,     \* DEF_MAX_UDP_CONNECTION_EXPIRATION_SECONDS, in ticks
    InboxMax,       \* payloads that the bridge's local socket holds
    Configs,        \* instances: whether TCP clients stop reading, and the
                    \* bounds on clients and SIGINTs, see TypeOK
    MaxTime,        \* bound: ticks
    MaxPayloads,    \* bound: payloads delivered to the bridge
    NoTime

ASSUME ServerAssumption ==
    /\ Clients \subseteq Nat /\ IsFiniteSet(Clients)
    /\ MaxConnections \in Nat \ {0}
    /\ Expiration \in Nat \ {0} /\ InboxMax \in Nat \ {0}
    /\ Configs \subseteq [stall : BOOLEAN, clients : SUBSET Clients, signals : Nat]
    /\ MaxTime \in Nat /\ MaxPayloads \in Nat
    /\ NoTime \notin 0..MaxTime

Threads == {"main", "timer", "bridge", "radio"}

VARIABLES
    state,          \* the dispatcher's
    mainPc,         \* where main() is
    handler,        \* where each thread is in the handler of SIGINT
    signals,        \* SIGINTs so far
    timerState,     \* RunDownlink's state
    timerPc,
    listAlive,      \* DownlinkByTimer's own members exist
    misused,        \* history: the timer's thread used them when they did not
    bridgeOn,       \* the bridge is one of the dispatcher's
    running, stopped, bridgePc,
    tcp,            \* clients connected to the bridge
    udp,            \* UDP clients: time of the last datagram
    inbox,          \* payloads in the bridge's local socket
    payloads,       \* payloads so far
    config,         \* chosen once
    now

dispatcherVars == <<state, mainPc>>
signalVars == <<handler, signals>>
timerVars == <<timerState, timerPc, listAlive, misused>>
bridgeVars == <<bridgeOn, running, stopped, bridgePc>>
tableVars == <<tcp, udp>>
envVars == <<config, now>>
vars == <<dispatcherVars, signalVars, timerVars, bridgeVars, tableVars, inbox,
          payloads, envVars>>

\* main() after the loop has reported TASK_STOPPED, in order of execution.
TearDown == {"destroyList", "stopTimer", "waitTimer", "deleteBridge",
             "waitDelete", "callStop", "exit", "exited"}
Leaving == {"closeSockets", "doneBridges", "waitBridge", "setStopped"}
Ended == {"exited", "aborted"}

udpClients == {c \in Clients : udp[c] # NoTime}

TypeOK ==
    /\ state \in {"stopped", "run", "stop"}
    /\ mainPc \in {"startTimer", "openSockets", "setRun", "initBridges", "loop",
                   "onPayload"} \cup Leaving \cup TearDown \cup Ended
    /\ handler \in [Threads -> {"none", "enter", "request", "wait"}]
    /\ signals \in 0..config.signals
    /\ timerState \in {"stopped", "start", "run", "stop"}
    /\ timerPc \in {"none", "created", "call", "loop", "sleep", "end", "gone"}
    /\ listAlive \in BOOLEAN /\ misused \in BOOLEAN
    /\ bridgeOn \in BOOLEAN /\ running \in BOOLEAN /\ stopped \in BOOLEAN
    /\ bridgePc \in {"none", "loop", "send", "gone"}
    /\ tcp \subseteq Clients
    /\ udp \in [Clients -> (0..MaxTime) \cup {NoTime}]
    /\ Cardinality(tcp) + Cardinality(udpClients) <= MaxConnections
    /\ inbox \in 0..InboxMax /\ payloads \in 0..MaxPayloads
    /\ config \in Configs /\ now \in 0..MaxTime

Init ==
    /\ state = "stopped" /\ mainPc = "startTimer"
    /\ handler = [t \in Threads |-> "none"] /\ signals = 0
    /\ timerState = "stopped" /\ timerPc = "none"
    /\ listAlive = TRUE /\ misused = FALSE
    /\ bridgeOn = TRUE /\ running = FALSE /\ stopped = TRUE
    /\ bridgePc = "none"
    /\ tcp = {} /\ udp = [c \in Clients |-> NoTime]
    /\ inbox = 0 /\ payloads = 0
    /\ config \in Configs /\ now = 0

\* A thread does nothing else while it is in the signal handler.
awake(t) == handler[t] = "none"

mainGoes(from, to) == awake("main") /\ mainPc = from /\ mainPc' = to
timerGoes(from, to) == awake("timer") /\ timerPc = from /\ timerPc' = to
bridgeGoes(from, to) == awake("bridge") /\ bridgePc = from /\ bridgePc' = to

----------------------------------------------------------------------------
(* main()                                                                   *)

\* RunDownlink::start() on a new object
startTimer ==
    /\ mainGoes("startTimer", "openSockets")
    /\ timerState' = "start" /\ timerPc' = "created"
    /\ UNCHANGED <<state, signalVars, listAlive, misused, bridgeVars, tableVars,
                   inbox, payloads, envVars>>

\* runUplink() on the main thread
openSockets ==
    /\ \/ mainGoes("openSockets", "setRun") /\ UNCHANGED state
       \/ mainGoes("openSockets", "destroyList") /\ state' = "stopped"
    /\ UNCHANGED <<signalVars, timerVars, bridgeVars, tableVars, inbox, payloads,
                   envVars>>

setRun ==
    /\ mainGoes("setRun", "initBridges")
    /\ state' = "run"
    /\ UNCHANGED <<signalVars, timerVars, bridgeVars, tableVars, inbox, payloads,
                   envVars>>

\* TcpUdpV4Bridge::start(); a bridge that cannot open its sockets is erased from
\* the dispatcher's list.
initBridges ==
    /\ mainGoes("initBridges", "loop")
    /\ \/ /\ running' = TRUE /\ stopped' = FALSE /\ bridgePc' = "loop"
          /\ UNCHANGED bridgeOn
       \/ /\ bridgeOn' = FALSE
          /\ UNCHANGED <<running, stopped, bridgePc>>
    /\ UNCHANGED <<state, signalVars, timerVars, tableVars, inbox, payloads,
                   envVars>>

\* A payload for the bridge; its local socket is a stream that blocks when full.
deliver ==
    /\ state = "run" /\ bridgeOn
    /\ payloads < MaxPayloads /\ payloads' = payloads + 1
    /\ mainGoes("loop", "onPayload")
    /\ UNCHANGED <<state, signalVars, timerVars, bridgeVars, tableVars, inbox,
                   envVars>>

onPayload ==
    /\ mainGoes("onPayload", "loop")
    /\ inbox < InboxMax /\ inbox' = inbox + 1
    /\ UNCHANGED <<state, signalVars, timerVars, bridgeVars, tableVars, payloads,
                   envVars>>

leaveLoop ==
    /\ state # "run"
    /\ mainGoes("loop", "closeSockets")
    /\ UNCHANGED <<state, signalVars, timerVars, bridgeVars, tableVars, inbox,
                   payloads, envVars>>

\* Any other signal that has a handler (SIGHUP, SIGUSR2) interrupts select() if
\* the main thread takes it, and the loop ends.
selectFails ==
    /\ state = "run"
    /\ mainGoes("loop", "closeSockets")
    /\ UNCHANGED <<state, signalVars, timerVars, bridgeVars, tableVars, inbox,
                   payloads, envVars>>

closeSockets ==
    /\ mainGoes("closeSockets", IF bridgeOn THEN "doneBridges" ELSE "setStopped")
    /\ UNCHANGED <<state, signalVars, timerVars, bridgeVars, tableVars, inbox,
                   payloads, envVars>>

\* TcpUdpV4Bridge::stop(), called by doneBridges() and again when the plugin is
\* unloaded.
stopBridge ==
    /\ \/ mainGoes("doneBridges", "waitBridge")
       \/ mainGoes("deleteBridge", "waitDelete")
    /\ running' = FALSE
    /\ UNCHANGED <<state, signalVars, timerVars, bridgeOn, stopped, bridgePc,
                   tableVars, inbox, payloads, envVars>>

\* A stop that does not wait for the thread.
waitBridge_once ==
    /\ \/ mainGoes("waitBridge", "setStopped")
       \/ mainGoes("waitDelete", "callStop")
    /\ inbox' = 0
    /\ UNCHANGED <<state, signalVars, timerVars, bridgeVars, tableVars, payloads,
                   envVars>>

\* while (!stopped) sleep(1), then closeSockets()
waitBridge ==
    /\ \/ mainGoes("waitBridge", "setStopped")
       \/ mainGoes("waitDelete", "callStop")
    /\ stopped
    /\ inbox' = 0
    /\ UNCHANGED <<state, signalVars, timerVars, bridgeVars, tableVars, payloads,
                   envVars>>

setStopped ==
    /\ mainGoes("setStopped", "destroyList")
    /\ state' = "stopped"
    /\ UNCHANGED <<signalVars, timerVars, bridgeVars, tableVars, inbox, payloads,
                   envVars>>

\* The end of run(): DownlinkByTimer's members go first, then ~RunDownlink()
\* stops the thread that uses them.
destroyList ==
    /\ mainGoes("destroyList", "stopTimer")
    /\ listAlive' = FALSE
    /\ UNCHANGED <<state, signalVars, timerState, timerPc, misused, bridgeVars,
                   tableVars, inbox, payloads, envVars>>

stopTimer ==
    /\ mainGoes("stopTimer", "waitTimer")
    /\ timerState' = "stop"
    /\ UNCHANGED <<state, signalVars, timerPc, listAlive, misused, bridgeVars,
                   tableVars, inbox, payloads, envVars>>

waitTimer ==
    /\ mainGoes("waitTimer", "deleteBridge")
    /\ timerState = "stopped"
    /\ UNCHANGED <<state, signalVars, timerVars, bridgeVars, tableVars, inbox,
                   payloads, envVars>>

\* main() calls stop() after run(), the same function as the handler's.
callStop ==
    /\ mainGoes("callStop", "exit")
    /\ handler' = [handler EXCEPT !["main"] = "enter"]
    /\ UNCHANGED <<state, signals, timerVars, bridgeVars, tableVars, inbox,
                   payloads, envVars>>

exit ==
    /\ mainGoes("exit", "exited")
    /\ UNCHANGED <<state, signalVars, timerVars, bridgeVars, tableVars, inbox,
                   payloads, envVars>>

----------------------------------------------------------------------------
(* signalHandler()                                                          *)

aliveThread(t) ==
    CASE t = "main" -> TRUE
      [] t = "timer" -> timerPc \notin {"none", "gone"}
      [] t = "bridge" -> bridgePc \notin {"none", "gone"}
      [] t = "radio" -> mainPc \in {"setRun", "initBridges", "loop", "onPayload",
                                    "closeSockets"}

interrupt(t) ==
    /\ signals < config.signals /\ signals' = signals + 1
    /\ aliveThread(t) /\ awake(t)
    /\ handler' = [handler EXCEPT ![t] = "enter"]
    /\ UNCHANGED <<dispatcherVars, timerVars, bridgeVars, tableVars, inbox,
                   payloads, envVars>>

\* MessageTaskDispatcher::stopUplink(): the state is looked at without the mutex,
\* so that a signal before the loop runs is ignored and one that comes when the
\* loop ends may overwrite TASK_STOPPED.
handlerStep(t) ==
    /\ \/ /\ handler[t] = "enter"
          /\ handler' = [handler EXCEPT ![t] = IF state = "stopped" THEN "none"
                                               ELSE "request"]
          /\ UNCHANGED state
       \/ /\ handler[t] = "request"
          /\ handler' = [handler EXCEPT ![t] = "wait"]
          /\ state' = "stop"
       \/ /\ handler[t] = "wait" /\ state = "stopped"
          /\ handler' = [handler EXCEPT ![t] = "none"]
          /\ UNCHANGED state
    /\ UNCHANGED <<mainPc, signals, timerVars, bridgeVars, tableVars, inbox,
                   payloads, envVars>>

----------------------------------------------------------------------------
(* RunDownlink::runner() and DownlinkByTimer::run()                          *)

timerRun ==
    /\ timerGoes("created", "call")
    /\ timerState' = "run"
    /\ UNCHANGED <<dispatcherVars, signalVars, listAlive, misused, bridgeVars,
                   tableVars, inbox, payloads, envVars>>

\* run() is virtual: after ~DownlinkByTimer() it is the pure one, which aborts.
timerCall ==
    /\ timerGoes("call", "loop")
    /\ misused' = (misused \/ ~listAlive)
    /\ mainPc' = IF listAlive THEN mainPc ELSE "aborted"
    /\ UNCHANGED <<state, signalVars, timerState, listAlive, bridgeVars,
                   tableVars, inbox, payloads, envVars>>

\* One downlink, unless the state is TASK_STOP; the list may be destroyed by
\* then, and reading it ends the process or yields any address.
timerSend ==
    /\ timerState # "stop"
    /\ timerGoes("loop", "sleep")
    /\ misused' = (misused \/ ~listAlive)
    /\ mainPc' \in {mainPc} \cup (IF listAlive THEN {} ELSE {"aborted"})
    /\ UNCHANGED <<state, signalVars, timerState, listAlive, bridgeVars,
                   tableVars, inbox, payloads, envVars>>

timerSleep ==
    /\ timerGoes("sleep", "loop")
    /\ UNCHANGED <<dispatcherVars, signalVars, timerState, listAlive, misused,
                   bridgeVars, tableVars, inbox, payloads, envVars>>

timerLeave ==
    /\ timerState = "stop"
    /\ timerGoes("loop", "end")
    /\ UNCHANGED <<dispatcherVars, signalVars, timerState, listAlive, misused,
                   bridgeVars, tableVars, inbox, payloads, envVars>>

\* A runner that ends without TASK_STOPPED.
timerEnd_silent ==
    /\ timerGoes("end", "gone")
    /\ UNCHANGED <<dispatcherVars, signalVars, timerState, listAlive, misused,
                   bridgeVars, tableVars, inbox, payloads, envVars>>

timerEnd ==
    /\ timerGoes("end", "gone")
    /\ timerState' = "stopped"
    /\ UNCHANGED <<dispatcherVars, signalVars, listAlive, misused, bridgeVars,
                   tableVars, inbox, payloads, envVars>>

----------------------------------------------------------------------------
(* TcpUdpV4Bridge::run()                                                    *)

full == Cardinality(tcp) + Cardinality(udpClients) >= MaxConnections

\* A table without a limit.
accept_unlimited(c) ==
    /\ running /\ c \notin tcp
    /\ bridgeGoes("loop", "loop")
    /\ tcp' = tcp \cup {c}
    /\ UNCHANGED <<dispatcherVars, signalVars, timerVars, bridgeOn, running,
                   stopped, udp, inbox, payloads, envVars>>

\* A connection beyond the limit is closed at once.
accept(c) ==
    /\ running /\ c \notin tcp
    /\ bridgeGoes("loop", "loop")
    /\ tcp' = IF full THEN tcp ELSE tcp \cup {c}
    /\ UNCHANGED <<dispatcherVars, signalVars, timerVars, bridgeOn, running,
                   stopped, udp, inbox, payloads, envVars>>

\* An error on a client's socket.  (The end of a connection is not one: it
\* reads as an empty command.)
readError(c) ==
    /\ running /\ c \in tcp
    /\ bridgeGoes("loop", "loop")
    /\ tcp' = tcp \ {c}
    /\ UNCHANGED <<dispatcherVars, signalVars, timerVars, bridgeOn, running,
                   stopped, udp, inbox, payloads, envVars>>

\* UdpClients::cleanExpired(true): the clients it takes for expired are those
\* heard within the last hour; if there is none, the one it takes for the oldest
\* is the latest one heard, the first by address among equals.
cleanExpired ==
    LET expired == {c \in udpClients : udp[c] > now - Expiration}
    IN  IF expired # {} THEN expired
        ELSE {c \in udpClients : \A d \in udpClients :
                 udp[d] < udp[c] \/ (udp[d] = udp[c] /\ c <= d)}

\* A datagram: UdpClients::push(), then the command in it.
datagram(c) ==
    LET removed == IF full THEN cleanExpired ELSE {}
        accepted == ~full \/ removed # {}
    IN  /\ running
        /\ bridgeGoes("loop", "loop")
        /\ udp' = [d \in Clients |->
                      IF d = c /\ accepted THEN now
                      ELSE IF d \in removed THEN NoTime ELSE udp[d]]
        /\ UNCHANGED <<dispatcherVars, signalVars, timerVars, bridgeOn, running,
                       stopped, tcp, inbox, payloads, envVars>>

readPayload ==
    /\ running /\ inbox > 0
    /\ bridgeGoes("loop", "send")
    /\ inbox' \in 0..(inbox - 1)
    /\ UNCHANGED <<dispatcherVars, signalVars, timerVars, bridgeOn, running,
                   stopped, tableVars, payloads, envVars>>

\* send() to every client blocks as long as a TCP client does not read; clients
\* that cannot be reached are forgotten.
sendPayload ==
    \E lost \in SUBSET Clients :
        /\ bridgeGoes("send", "loop")
        /\ ~(config.stall /\ tcp # {})
        /\ tcp' = tcp \ lost
        /\ udp' = [c \in Clients |-> IF c \in lost THEN NoTime ELSE udp[c]]
        /\ UNCHANGED <<dispatcherVars, signalVars, timerVars, bridgeOn, running,
                       stopped, inbox, payloads, envVars>>

\* The table dies with the thread.
bridgeEnd ==
    /\ ~running
    /\ bridgeGoes("loop", "gone")
    /\ stopped' = TRUE
    /\ tcp' = {} /\ udp' = [c \in Clients |-> NoTime]
    /\ UNCHANGED <<dispatcherVars, signalVars, timerVars, bridgeOn, running,
                   inbox, payloads, envVars>>

----------------------------------------------------------------------------

tick ==
    /\ now < MaxTime /\ now' = now + 1
    /\ UNCHANGED <<dispatcherVars, signalVars, timerVars, bridgeVars, tableVars,
                   inbox, payloads, config>>

mainStep ==
    \/ startTimer \/ openSockets \/ setRun \/ initBridges \/ onPayload
    \/ leaveLoop \/ closeSockets \/ stopBridge \/ waitBridge \/ setStopped
    \/ destroyList \/ stopTimer \/ waitTimer \/ callStop \/ exit

timerStep ==
    timerRun \/ timerCall \/ timerSend \/ timerSleep \/ timerLeave \/ timerEnd

bridgeStep == readPayload \/ sendPayload \/ bridgeEnd

Next ==
    /\ mainPc \notin Ended
    /\ \/ mainStep \/ deliver \/ selectFails
       \/ \E t \in Threads : interrupt(t) \/ handlerStep(t)
       \/ timerStep
       \/ bridgeStep
       \/ \E c \in config.clients : accept(c) \/ readError(c) \/ datagram(c)
       \/ tick

Spec == Init /\ [][Next]_vars

\* The operating system schedules every thread, sleep() ends, and select()
\* returns at least every three seconds (main) and every second (bridge).
Fairness ==
    /\ WF_vars(mainStep /\ mainPc \notin Ended)
    /\ WF_vars(timerStep /\ mainPc \notin Ended)
    /\ WF_vars(bridgeStep /\ mainPc \notin Ended)
    /\ \A t \in Threads : WF_vars(handlerStep(t) /\ mainPc \notin Ended)

FairSpec == Spec /\ Fairness

----------------------------------------------------------------------------
(* Properties                                                               *)

\* What a thread uses outlives it: TASK_STOPPED is reported when the bridge's
\* thread has ended, the services are destroyed when the downlink's thread has,
\* and the plugin is unloaded when both have.
UsersEndFirst ==
    /\ mainPc \in TearDown => bridgePc \in {"none", "gone"}
    /\ mainPc \in {"deleteBridge", "waitDelete", "callStop", "exit", "exited"} =>
            timerPc = "gone"

\* A SIGINT handler that never returns: on a thread that others wait for.
hung == \E t \in {"main", "bridge"} : handler[t] = "wait"

\* The bridge waits for a client that does not read, and so may the others.
blocked == config.stall /\ tcp # {} /\ bridgePc = "send"

\* A stop request that overwrote TASK_STOPPED.
overtaken == state = "stop" /\ mainPc \in TearDown

\* The server ends once it was told to or cannot open its sockets: unless the
\* handler runs on the main or the bridge's thread, or looks at the state just
\* before the loop ends, a TCP client has stopped reading, or the downlink's
\* thread was so late that it found its object destroyed.
ShutdownCompletes ==
    (state = "stop" \/ mainPc \in Leaving \cup TearDown)
        ~> (mainPc = "exited" \/ hung \/ overtaken \/ blocked \/ misused)
=============================================================================
