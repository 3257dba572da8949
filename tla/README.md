# A TLA+ model of tlns

tlns is a small LoRaWAN network server: it collects the radio frames that
gateways hear from end devices, merges the copies of a frame heard by several
gateways, hands the deciphered payload to application bridges and sends
messages back to the devices through the gateway that hears them best.

This directory holds TLA+ specifications of the parts of the server that are
hard to test: its message queue and dispatcher with their threads, the threads
that drive a concentrator, the process that starts and tears all of it down, and
the storage service with its query tool. There are TLC configurations that
check them on small instances, and TLAPS proofs for every size. Paths below are relative to the repository.

## 1. The system

| Component | State | Operations | Talks to |
|---|---|---|---|
| Message queue (`lorawan/task/message-queue*.cpp`) | one uplink item per device (frame, time, report of each gateway, task), one downlink item per device | put, find, remove, clear old, best gateway | dispatcher calls it, under `queueMutex` only in `pushData()` |
| `TimeAddrSet` (`task-time-addr.cpp`) | two maps: time to address, address to time | push, two pops, clear, wait time | member of the queue |
| Dispatcher, running (`message-task-dispatcher.cpp`) | sockets, timer, control socket, queue | the `select()` loop, `pushData()`, `enqueueDownlink()` | radio threads, senders and bridges call it; it calls bridges and services |
| Dispatcher, start and stop | `state`, thread object, `mutexState`, `cvState` | `start()`, `stop()`, phases of `runUplink()` | any thread, the loop's own included |
| Task sockets (`task-*-socket.cpp`) | a descriptor, `lastError` | open, close, custom write | dispatcher |
| USB gateway (`gw-dev/usb/rak2287.cpp`, `task-usb-socket.cpp`) | a flag per kind of thread, a stop request, the concentrator's mutex | start, stop, fetch, scan, write a downlink | calls `pushData()` on its own thread; the dispatcher opens, closes and writes to it |
| Just-in-time queue (`third-party/jitqueue`) | an array sorted by the counter, a mutex | enqueue, peek, dequeue | the dispatcher's thread and the jit thread |
| Server process (`gw-dev/usb/gw-dev-usb.cpp`) | objects with an order of destruction, signal handlers | run, stop | owns dispatcher, plugins, services, periodic downlink |
| Gateway protocols (`lorawan/proto/gw`) | a parse result that is reused | parse, acknowledge, make a downlink datagram | dispatcher |
| Application bridges (`lorawan/bridge`, `bridge/mqtt`) | client table, sockets, a thread (TCP/UDP bridge) | `init`, `onPayload`, `done` | called by the loop, call `enqueueDownlink()` |
| Periodic downlink (`lorawan/downlink`) | `state`, a thread | start, stop, send every period | calls `enqueueDownlink()` |
| Services (`lorawan/storage/service`) | identities, gateways, best gateways | get, put, rm, list | dispatcher, clients, listeners |
| Storage service and query tool (`storage/cli-main.cpp`, `cli-query-main.cpp`, `lorawan/storage`) | the stores and their file, a pending query | query, answer, time out, flush, load | each other, by datagrams |
| Threaded response (`task-response-threaded.cpp`) | a flag, a thread, a condition variable | start, stop | nobody yet |
| Regional parameters, MAC commands, keys, helpers, tools | tables | conversions | everybody |

What is hard about it:

- **Threads.** A USB gateway's radio thread runs the whole of `pushData()`;
  the loop reads, deciphers, re-dates and frees the same items without taking
  `queueMutex`; `enqueueDownlink()` runs on a bridge's or a timer's thread and
  keeps a pointer into the map.
- **Announcements.** An item reaches the application only because its address
  is written to a control socket the loop reads later. The item may be merged,
  deciphered or erased between the two.
- **Time.** An item lives a second, a confirmation waits half a second, a
  downlink waits for three seconds of silence.
- **Start and stop.** `state` is a plain variable written by three parties,
  only two of them under the lock. The concentrator's `stop()` polls flags that
  the threads clear themselves, and gives up. `main()` destroys objects that
  threads use, and SIGINT runs `stop()` on whichever thread it meets.
- **The counter of the concentrator** wraps, and two threads take the
  queue's mutex one operation at a time.
- **Datagrams** between the query tool and the storage service are lost, late
  or doubled, and the service keeps its answers in memory until SIGINT.

What makes each component correct is the list of properties in section 3; the
hazards they were chosen for are in `PROJECT.json`, each at its line.

## 2. The modules

    UplinkSlots  <---- implemented by ----  Dispatcher      DispatcherLifecycle
                                               |
                                          MessageQueue  <-- result of -- BestGateway
                                               |
                                          TimeAddrSet

    LoraGatewayListener            Server            IdentityStorage
            |
         JitQueue

- **`TimeAddrSet`**: one operator per member function over the two maps. `first` is
  `timeAddr.begin()`. `pop(TimeAddr&, TASK_TIME)` reads the address from the
  node it has just erased, so the index key it cleans is a parameter, `freed`, that
  ranges over every address and "none". The other pop (`popFirst`) looks for an index entry by a freed
  node, too, and erases the end of the map when there is none: any index may result. The module's own `Next` is a client that
  calls everything in any order.
- **`MessageQueue`**: `uplinkMessages` and `downlinkMessages` as total
  functions with a value for "no key". A frame is a record of the facts the
  code branches on (device, identity, size, confirmed, has a payload, has options); `plain`
  is the effect of `decode()` on its bytes, `stale` what the storage it came in still holds behind it:
  frames are compared as whole storages of 262 bytes, and a storage is not cleared
  between frames. Every report remembers the frame it came with
  (`of`) and every item whether it was delivered: history the properties need
  and the code does not keep.
- **`BestGateway`**: the loop of `getBestGatewayAddress()` as a state machine,
  one iteration a step. `MessageQueue` uses its result as one operator.
- **`Dispatcher`**: the threads. `pc[t]` says where a thread is between the
  parts of `pushData()` (`put` under the lock, then `announce`, then
  `confirm`), and where the loop is in its timer and timeout branches
  (`sendQueue`, `arm`, `cleanup`). `control` is the control socket. `pr` is what the one
  parse result of the loop has held since the loop began; a radio thread's storage starts from zero
  (`task-usb-socket.cpp:29`). `matchMic` is the integrity check as it is computed, without the frame's
  options. A sender is between finding the item, copying its task and queueing the message; the time it
  passes is the present one (`DownlinkByTimer`) or `Epoch` (the TCP/UDP bridge's default-constructed
  `TASK_TIME`, `tcp-udp-v4-bridge.cpp:623`). `queuedAt` is history.
- **`UplinkSlots`**: the promise to the application. One slot per device: taken
  by a frame, joined by copies, delivered, and only then emptied. `Dispatcher`
  implements it with the mapping `slot`.
- **`DispatcherLifecycle`**: callers of `start()` and `stop()` and the loop
  threads they create, with the mutex, the condition variable and the wake-up
  byte. A `stop()` looks at `state` before it takes the mutex, and `select()` may fail and end
  the loop at any time; `overwrote` remembers that a stop request replaced a `TASK_STOPPED`.
- **`JitQueue`**: the just-in-time queue as operators over a set of nodes; the
  index of a node is the number of smaller ones. `jit_peek` keeps its slip: after
  it drops the first packet it does not look at the new first one.
- **`LoraGatewayListener`**: the host (the dispatcher's thread in `openSocket()`,
  `closeSocket()` and `customWriteSocket()`) and the upstream, just-in-time and spectral scan threads,
  numbered by the `start()` that made them. A thread is between two
  acquisitions of a mutex: `lgw_status()` and `lgw_send()` are two steps, and either may fail, as may
  `lgw_stop()`, which switches the radio off even then. `outcome` says why `stop()` failed, which the
  code's one number does not. `fate` is the history of each downlink. The settings of
  the gateway (`noSend`, `noBeacon`, `scan`), whether threads are slow and whether fetches fail are
  chosen in the initial state, so that one run covers the combinations worth having.
- **`Server`**: `main()` as a sequence of steps from the creation of the periodic downlink to
  `exit`, the signal handler on any thread, the downlink's thread and
  the TCP/UDP bridge's thread with its table of clients. It leaves out what
  the loop does with messages, which is `Dispatcher`.
- **`IdentityStorage`**: runs of the query tool, the network, and the service with its
  memory and its file. `wanted` is what all handled queries have ever asked for, and `lost` the
  identities that a failure has hit since their last change. SIGINT comes between the steps of the
  service (`interrupt`) or in the middle of a change of the map (`interruptChange`).
- **`MC*`**: constant values for TLC. **`*Proofs`**: theorems and lemmas.

Conventions. An action is a piece of code between two points at which another
thread can get in between, including everything that piece calls. Work done by the loop for
several ready sockets in one turn of `select()` is several turns in the model,
which adds interleavings and removes none; `receivedTime` is the instant of
the turn. Operator names are the code's names; a name with an underscore and
a suffix is a deliberately wrong variant used to show that a property can fail.

Time. `now` counts ticks. `WaitTime` = 0.5 s, `KeepTime` = 1 s and
`SelectTimeout` = 3 s become 1, 2 and 3 ticks: their order and the fact that an item can
survive a wait but not a timeout are what the code depends on, not their ratio. Two clocks are
used, chosen by `Prompt`: any delay anywhere, or no tick while something is to be done.

## 3. What is checked

Every run's instance is in its `.cfg`; numbers are distinct states.

| Run | Shows | Instance |
|---|---|---|
| `TimeAddrSet` | a queued address is indexed with its time, an accepted one keeps its place | 3 addresses, instants 0..3; 425 |
| `MessageQueue` | reports of different frames are never merged; an item's frame, time and reports are stable; it always has a report | 1 device, 2 frames of different sizes, 2 gateways, instants 0..1; 2,420 |
| `BestGateway` | the loop finds the best gateway, the smallest among equals | 3 gateways, 3 ratios; 208 |
| `DispatcherUplink` | at any speed of the threads: no undelivered item is forgotten, no copy that compares equal is lost before the delivery, the first delivery is plain and checked over the bytes on the air | 1 device, 2 frames (the longer one with options), two USB gateways and a UDP gateway, one pings, 3 receptions, 3 ticks; 1,138,318 |
| `DispatcherPrompt` | nothing undelivered is freed; refinement of `UplinkSlots`, and every frame that took a slot is delivered | 2 devices, 3 frames, 2 gateways, 3 receptions, 7 ticks; 174,539 |
| `DispatcherDownlink` | a downlink leaves in bounded time after it was queued when no gateway pings; the timer is armed again for whatever waits since a present time | 1 device, a sender that passes the present time or the epoch, the host, 2 receptions, 13 ticks; 650,994 |
| `DispatcherLifecycle` | no wake-up is lost, whoever calls what; for a careful host: one loop, a quiet `TASK_STOPPED`, a stop request is kept, every stop returns unless it overwrote the end of the loop, every start runs | 2 callers, 2 loops, sockets and `select()` may fail; 30,847 |
| `Concentrator` | until a stop gave up or a fetch failed: one thread of a kind, stops that say the truth; the packet peeked is the packet taken; each accepted downlink is on air in the end, but for the cases below; threads told to stop end | counter modulo 24 from 16, queue of 2, up to 3 downlinks, 2 starts, 10 settings; 395,775 |
| `Server` | threads end before what they use; the server ends once told to | 3 clients, 2 connections, up to 2 signals, 2 payloads, 2 ticks, 3 settings; 292,473 |
| `IdentityStorage` | a tool that ends well had its queries handled; the store holds what was ever asked for, down to what a named failure has hit | 2 processes with 5 programs, 2 identities, a gateway, 1 duplicate, 3 starts; 4,309,817 up to the order of the processes |
| `DispatcherReencipher` | (counterexample) a second delivery is not plain | 1 device, 2 frames, 2 gateways |
| `LifecycleStopHangs` | (counterexample) a stop during the start never returns | 1 caller, 1 loop |

Why these bounds: the interesting cases need a copy and a different frame to
meet a queued item, a third reception after a delivery or a cleanup, and enough ticks for one whole
`SelectTimeout` after the last reception. A third device, gateway or sender
adds no new kind of interference, because items of different devices share only the control
socket and `TimeAddrSet`, for which two are in the runs; the theorems of section 5 remove the bounds for
the safety part. The bound of `DownlinkIsTimely` is 12 ticks in its instance; a
downlink that is 12 ticks old does occur there, and none of 13, so the bound is exact and
the clock, which starts at `WaitTime` and ends 13 ticks later, goes beyond it. In `DispatcherUplink` two USB
gateways and a UDP one make copies that compare equal and copies that do not. Two loops are the two that can
meet, one that ends or fails and one that starts; the theorems are for any number.

A careful host, in `DispatcherLifecycle`, starts a stopped dispatcher and stops a
running one, one call at a time and from a thread of its own. Whether the host is careful is
chosen in the initial state, so that one run covers both: `NoLostWakeup` is about any
host (as long as no socket failed to open), the other properties are about the careful one.

`Concentrator`: a queue of two is full with one waiting behind the first, and three downlinks
overfill it. A tick is 10 ms, the period of `jitRunner()`: `TX_JIT_DELAY` (40 ms) is 4 ticks, and the margins
of 2.5 ms round to 0. The advances of 4, 5, 9 and 12 are at and inside the two limits (`tooLate` up to 4,
`MaxAdvance` 12), and the counter starts at 16 of 24 so that the last two wrap. All of
that is smaller than the program's, and it matters: the theorems of section 5 have no such bounds. Two starts are needed for a stop
to meet threads of an earlier start, and a third adds none that the second did not.
`Server`: two connections and three clients are a full table and a newcomer;
three ages (0, 1, 2 ticks with an expiration of 1) are the two sides of the comparison. Two signals are
the second one that meets a handler that waits. `IdentityStorage`: two
processes can overwrite each other's entry or take each other's place; three starts are a
first, one after a save and one after a crash. The processes are interchangeable, because
each may be given every program, and the run uses that symmetry; it checks no liveness.

`CHECK_DEADLOCK FALSE` is set where the bounds (ticks, receptions, calls, loop
threads) stop the system, which is every dispatcher and lifecycle run, and in
the three runs above, where processes end and a stopped concentrator rests.

### Where code and documentation disagree

Two runs state a sentence of the repository and end in a counterexample.
`PROJECT.json` quotes the sentence and the line of code.

- `DispatcherReencipher`: "decoded true - message decoded"
  (`app-bridge.h:28`). Every copy of a frame announces its address again, every
  announcement delivers the item and deciphers it in place, and the second
  time the same key stream enciphers it. The application gets cipher text with `decoded`
  set. `FirstDeliveryIsPlain` is what is left of the sentence.
- `LifecycleStopHangs`: "Then wait until dispatcher loop finished"
  (`message-task-dispatcher.cpp:163`). A `stop()` between the creation of the
  thread and its first write of `state` is overwritten by `TASK_RUN`; the
  caller waits for ever. `StopReturns` is what is left of it.

The models also contain, without a run of their own, these differences between
the code and its comments:

- "identical messages merged into the one" (`README.md:89`): frames are compared with everything their
  storage holds, and the loop parses all of them into one storage, so that a copy heard before and one heard
  after a longer frame differ, and so may a copy over UDP and one over USB; the copy and its report are
  dropped. A copy that comes after the delivery no longer compares equal, either. A different frame
  of a device with a queued item is dropped, and `putUplink()` returns true as for an added
  one (`message-queue.cpp:92`);
- the integrity code is looked for and computed as if a frame had no options, and a port without a payload
  for a payload of one byte (`lorawan-packet-storage.cpp:349-411`), so that good frames of these kinds are
  announced to the bridges as not matching, from the first delivery on (`FirstDeliveryIsPlain`);
- the time of an item is that of whichever thread locked `queueMutex` first: it is taken before the
  lock, by threads that race for it, and need not be the "receiving time of the first
  received packet" (`message-queue-item.h:45`). No property says that it is;
- a message that a client of the TCP/UDP bridge sends has the beginning of time for its time
  (`tcp-udp-v4-bridge.cpp:623`). It is sent like any other, but the address it leaves in `TimeAddrSet` has
  waited long enough at once: if it is pushed while the loop processes the queue, or before the host calls
  `isTimeProcessQueueOrSetTimer()`, no timer is armed for it, the collection stays closed and later confirmations
  are not sent until something else arms the timer (`TimerRearmed`);
- no code arms the confirmation timer (`message-task-dispatcher.cpp:569`);
  the host must do it (`HostArmsTimer`). One address waits at a time: `push()` drops
  the others. The best gateway is settled for whatever item the device has when
  the timer fires;
- over a stream socket (`Datagram = FALSE`) two addresses read together are lost;
- a downlink copies the gateway that reported first, or whatever a freed item
  left behind, and is erased whether or not a gateway took it; a gateway
  that pings more often than every three seconds postpones it for ever;
- `has()` of `TimeAddrSet` keeps answering true for some popped addresses
  (`task-time-addr.h:57`);
- `stop()` on the loop's own thread waits for itself, a failed
  `openSockets()` notifies nobody, and a dispatcher that had accepted a
  connection cannot be started again. A loop whose `select()` fails ends by itself; a `stop()` that had
  just seen it running (`message-task-dispatcher.cpp:134`) then writes `TASK_STOP` over its `TASK_STOPPED` and
  waits for ever, even for a careful host (`overwrote` in `StopReturns`).

About the concentrator:

- only the last frame of a batch is handed over, whether or not it passed the
  filter (`rak2287.h:47`);
- `jit_enqueue()` accepts exactly `TX_MAX_ADVANCE_DELAY`, and any advance of an immediate downlink, which may
  queue behind others; `jit_peek()` then drops the packet as missed (`misfit` in `NoDownlinkDropped`);
- `jit_enqueue()` looks at the queue only. A downlink that comes too close to one that has left the
  queue is accepted, and then dropped because the radio emits, or it replaces the earlier one in the
  radio. "Once the packet is queued, it has to be sent over the air. So all checks should happen before the
  packet being actually in the queue" (`jitqueue.h:117`). Both packets are in `misfit`;
- when `jit_peek()` drops the first packet as missed it does not look at the new first one, which may be
  due and is then late (`passed`);
- a packet whose instant has wrapped sorts before the one peeked, and when it is queued between
  the two locks `jit_dequeue()` takes it instead (`PeekedIsDequeued`, `raced`);
- a gateway that may not send accepts downlinks and never sends them, and
  nobody looks at the result of `customWriteSocket()`;
- `stop()` answers that the shutdown timed out, too, when every thread has ended and `lgw_stop()` failed
  (`rak2287.cpp:1790`); a downlink that `lgw_send()` refuses is counted and gone;
- when it has dropped the last packet `jit_peek()` compares the node before the array. Whatever it finds, it
  returns the index -1, so that the model leaves the comparison out;
- with the beacon enabled `stop()` always times out, because its thread leaves
  the flag set; an upstream thread whose fetch failed waits for itself, and closes a
  concentrator that was started again meanwhile.

About the server's process:

- SIGINT handled on the main or the bridge's thread waits for that very
  thread; one that comes before `TASK_RUN` is ignored; one that looks at the state
  just before the loop ends overwrites `TASK_STOPPED` and waits for ever. SIGHUP and SIGUSR2 on the
  main thread end the loop;
- the members of `DownlinkByTimer` are destroyed before `~RunDownlink()` stops
  the thread that uses them;
- "service forgot "oldest" client" (`tcp-udp-v4-bridge.h:29`): the comparison in `cleanExpired()` is
  inverted, and it forgets the clients heard last. `cleanExpired` models it; no property is about
  it, since what remains true, that someone is forgotten, is its definition; a TCP client that does not read stops bridge,
  dispatcher and shutdown.

About the storage service:

- "Identities stored in JSON text files", `identity.json` and `gateway.json` (`storage/README.storage.md:222-225`):
  gateways are never written, and without `--id-json` the identities go to a stub that says yes and keeps
  nothing. `StoreIsTrue` is about identities in a JSON store;
- a query that is denied is answered with an empty list, and the tool ends well;
- answers do not name their query, so that a doubled answer is taken for the one
  to the next query; `OkMeansApplied` is about networks that double nothing, and tools whose
  access codes are right;
- identities are written at SIGINT only: SIGTERM and a crash lose everything changed since the start, a crash
  during the write loses the file, and a name that JSON cannot quote spoils all of it. Regions are not read
  back;
- the SIGINT handler writes the map while the service may be changing it: an identity may be
  saved half assigned, and others may be missed while the tree is changed (`interruptChange`);
- without a model: the handler calls functions that a handler may not call, and may wait for a lock of the
  thread it interrupted; an assignment is 119 bytes long and serialized into a buffer of 110
  (`udp-client.cpp:122`); the commands save and close make no request, and the tool ends well without
  having sent one (`cli-query-main.cpp:268-271`).

## 4. Assumptions of the environment

- **Fairness.** `DispatcherPrompt`: weak fairness of each thread's steps, of the
  loop, of the senders and of the clock. The operating system schedules every
  runnable thread, `queueMutex` is held for one bounded operation, and
  `select()` reports what is readable. The loop's fairness is for its steps
  together: it promises that the loop goes on, not which ready socket it takes
  first. `DispatcherLifecycle` and `LifecycleStopHangs`: weak
  fairness of each loop thread (`select()` returns at least every three
  seconds) and of each call under way. Nobody is assumed to call anything.
  `Concentrator`: weak fairness of each thread, of a call of the host under way and of
  time; the host is not assumed to start, stop or send. `Server`: weak
  fairness of `main()`, the downlink's thread, the bridge's own steps and each thread's signal
  handler; clients, signals and payloads may never come. `IdentityStorage` checks safety only and assumes none.
- **Datagram control socket.** `NoSilentLoss` holds for
  `TaskUdpControlSocket`, not for `TaskUnixControlSocket` (a stream). A write
  is not lost: loopback with an empty buffer.
- **Memory.** Each operation on a container is one step. The unlocked accesses to the maps are data
  races that the C++ standard leaves undefined; the models show what goes wrong even
  when each operation is whole, and a read through a freed node or item
  yields any value.
- **Prompt.** The properties of `DispatcherPrompt` and `DispatcherDownlink` are
  about a machine that finishes the work of an instant before the next tick.
  Without it a radio thread preempted for a second between put and announce
  loses its frame.
- **Pings.** `DownlinkIsTimely` is checked without PULL_DATA.

## 5. What is proved

All theorems are checked by TLAPS, from the named assumptions on the
constants (`...Assumption`), which say what the constants are and that the
values standing for "no key" are not keys' values.

- **`TimeAddrSetProofs`**: `TypeCorrect` (which no run repeats), `QueuedAlwaysIndexed`,
  `AcceptedStays`. `QueuedIsIndexed` is not inductive: a pop may clean any
  index entry. The invariant adds that the collection never holds two entries
  (`AtMostOne`), which is what the early return of `push()` amounts to;
  then a pop leaves nothing behind that could be misindexed.
- **`MessageQueueProofs`**: `TypeCorrect`, `OnlyCopiesMerge`,
  `ItemsAreGrounded`, `ItemsKeepIdentity`. The invariant says of each item that it is filed under
  its frame's device, that its reports were sent with its frame and that its
  task's gateway is one of them. Lemmas about put, erase, decode and the best
  gateway are stated once and used again for the dispatcher.
- **`BestGatewayProofs`**: `TypeCorrect`, `ResultIsAlwaysBest`. The loop
  invariant: `r` is best among the reports already visited, and everything
  visited has a smaller identifier than everything to come.
- **`DispatcherProofs`**, threads of any speed: `TypeCorrect`, `NothingForgotten` (`NoSilentLoss`, for a datagram control socket), `CopiesAreKept` and
  `FirstDeliveryAlwaysPlain`, for any number of radio threads, senders, devices, gateways and frames. The
  invariant joins the queue's invariant, what each thread holds at each point
  of `pushData()` and, when the control socket keeps datagrams, that every
  undelivered item has its address in the socket or in a thread about to write
  it. The last two, properties of steps, rest on `Fresh`: an
  item that has not been delivered holds the bytes that were on the air. It is
  kept because `ItemStep` lists all that a step can do to an item, and only the delivery
  changes its bytes. The first needs `Clean`, too: a frame heard over USB, or one that no other frame
  exceeds, comes with nothing behind it, so that two copies of it compare equal.
- **`DispatcherProofs`**, threads that finish the work of an instant before the next tick (`Prompt = TRUE`):
  `TimerAlwaysRearmed`; `ErasedAfterDelivery` and `ImplementsSlots` (with
  a datagram control socket); `DownlinkAlwaysTimely` (with no gateway that pings). `PInv` says that what a thread
  carries is of this instant, that items and waiting addresses are of no later one, and that
  the timer is armed for the address that waits, unless it has waited since `Epoch`. `ImplementsSlots` is the refinement of `UplinkSlots`: a lemma
  per action says which step of a slot it is, or that it leaves the slots alone. `DInv` bounds
  the age a queued downlink can have when `select()` is entered again: `SelectTimeout + WaitTime` for each
  reception and message so far (`Level`), since nothing else starts `select()` again. The
  bound that follows, `(MaxReceptions + MaxEnqueues) * (SelectTimeout + WaitTime)`, is for every value
  of the constants; a smaller one, which no run with one message could refute, failed in the proof.
- **`DispatcherLifecycleProofs`**: `TypeCorrect`, `WakeupNeverLost`,
  `OneLoopAlways`, `StoppedAlwaysClosed`, `StopAlwaysKept`, for any number of
  callers and loops. `NoLostWakeup` is inductive with the types alone. The
  other three need `CarefulInv`: a careful host has one call under way and one loop, and from that
  loop's place follow `state` and whether the sockets are open.
- **`LoraGatewayListenerProofs`**, the threads: `OneThreadAlways`, `StopAlwaysTruthful`, for
  any settings, packets and number of starts. `Truthful` says that a flag is set
  exactly while one thread of its kind lives; it is kept until the history `tainted` is set, and `Grounded`
  adds who may hold the mutex and that `start()` numbers its threads anew.
- **`LoraGatewayListenerProofs`**, the queue: `TypeCorrect`, `QueueAlwaysSpaced`, for any
  delays (`JitAssumption`: a jit delay larger than the margins and smaller than half the largest advance, itself at
  most half of the counter's range). Nodes that do not collide have different instants, so that the index of a node
  names one node (`IndexNamesOne`), which is what makes a set of nodes a faithful picture of the array.
- **`LoraGatewayListenerProofs`**, from the queue to the radio: `PeekedAlwaysDequeued` and
  `NoDownlinkEverDropped`, for any delays, queue size, counter, packets and advances. Between peek and dequeue
  (`Watchful`) the packet is in the queue, at its index or behind, because only later packets
  were added, and no other one is due: two that are due at once collide (`DueCollide`). `Apart` says that what waits, what
  the jit thread carries and what the radio holds do not collide unless both are known misfits. `OnTime`
  says that a packet in the queue is at most `MaxAdvance` ahead and not due once the thread has
  looked, and that the radio's packet begins within `TX_JIT_DELAY` or is on air. Then the radio can only be
  busy with, or be taken from, a packet that collides. The arithmetic of the wrapping
  counter is in four lemmas (`SubIs`, `SubSplits`, `Triangle`, `NextInstant`). These two properties have the conditions they
  state: threads that keep the pace, no older thread left over, and for the second the first `start()`.
- **`ServerProofs`**: `TypeCorrect`, `UsersAlwaysEndFirst`, for any finite set of clients, any limits and signals.
  The invariant ties `stopped` and `TASK_STOPPED` to the existence of the two threads and says where `main()` may be
  while each exists. The limit of clients rests on the cardinality of finite
  sets.
- **`IdentityStorageProofs`**: `TypeCorrect`, `OkAlwaysApplied`, `StoreAlwaysTrue`, for any
  processes, programs, identities and gateways, and any losses, crashes and restarts. The first promise rests on
  an account of the datagrams on their way: while nothing is duplicated there is one request
  or answer for each query at most, so that the answer a tool takes is the one to its query. The second
  is inductive with the file's promise (`StoreInv`): what is in the file agrees with all that was ever asked for, but for
  the identities in `lost` and those changed since the start.

The proofs changed the model where it was wrong. Three properties held in their runs
only because the instances were small: the bound of `DownlinkIsTimely`; `PeekedIsDequeued`, which
slow threads break and which must allow for a packet passed over; and `NoDownlinkDropped`, which
did not know of packets accepted over one that has left the queue. The instance of `Concentrator` now reaches
all of these.

Only model-checked: the liveness properties (`UplinkSlotsLive`, `StopReturns`, `StartRuns`, `StopEndsThreads`,
`AcceptedIsAired`, `ShutdownCompletes`), because TLAPS does not reason about fairness or ENABLED. Every
safety property that a passing run checks is a theorem.

## 6. Not modelled, and the plan

`PROJECT.json` lists every component with what is left out of it. Most of the
repository's lines are conversions and tables: byte layouts and text of frames and MAC commands
(`lorawan-types.cpp`, `lorawan-mac.cpp`, `lorawan-string.cpp`), JSON of gateways and
identities, encodings of queries, regional parameters, generated settings of
concentrators (`src/gen`), command line tools and vendored libraries. They keep no state between calls and
have no behaviour that interleaves or fails half-way, so that a test
reaches what can be wrong in them and a model would restate them. This is why the
definitions here stand for a small share of the lines.

Left out of the components that are modelled:

- `UsbListener` and the GPS threads: only a tool uses the one, nothing
  enables the other. The beacon's thread ends at once for the same reason; only its flag is modelled.
- Signal 42, which runs the loop again from within the handler, and a handler that waits for a lock
  of the thread it interrupted: both call what a handler may not call, and anything may follow.
- `TaskResponseThreaded`: nothing creates one.
- TCP, HTTP and libuv transports of the storage service, and its SQLite, LMDB and generated stores.
- Descriptors and `lastError` of the task sockets; `timerSocket` across a restart.
- The composition of `LoraGatewayListener` with `Dispatcher`: `fetchFrames` hands over to
  `receive` of `Dispatcher`, which takes any reception at any time, so that nothing is lost by
  keeping them apart; `enqueueTxPacket` takes any downlink at any time likewise.

What is left to prove is what makes the liveness properties true and can be said without fairness:
that a step of a jit thread, of the loop or of `main()` is always possible where the properties need one (no
deadlock but the listed ones), and that each step brings the end nearer; that `NoDownlinkDropped` holds after a
restart too, when the queue still has packets of the earlier start; and the invariant of `UplinkSlots` itself.
