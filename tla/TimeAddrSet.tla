---------------------------- MODULE TimeAddrSet ----------------------------
(***************************************************************************)
(* The collection of device addresses that wait for a confirmation         *)
(* (class TimeAddrSet, lorawan/task/task-time-addr.cpp).  The class keeps   *)
(* two std::map members that must agree:                                    *)
(*   timeAddr : time -> address   (the queue, ordered by time)              *)
(*   addrTime : address -> time   (the index behind has() and taskTime())   *)
(*                                                                         *)
(* timeAddr is the set of its pairs, addrTime a total function that is      *)
(* NoTime where the map has no key.  Each operator below is one member      *)
(* function; the module is a specification of its own (a client that calls *)
(* the member functions in any order) and a component that the dispatcher  *)
(* instantiates.                                                           *)
(***************************************************************************)
EXTENDS Integers

CONSTANTS
    Addrs,      \* device addresses (DEVADDR)
    NoAddr,     \* an address no device has
    NoTime,     \* "no key" in addrTime
    WaitTime,   \* WAIT_TIME_FOR_ALL_GATEWAYS_IN_MICROSECONDS, in ticks
    MaxTime     \* bound: the last instant a client of this module passes

ASSUME TimeAddrSetAssumption ==
    /\ WaitTime \in Nat
    /\ MaxTime \in Nat
    /\ NoTime \notin Nat
    /\ NoAddr \notin Addrs

VARIABLES
    timeAddr,   \* the pairs of std::map<TASK_TIME, DEVADDR> timeAddr
    addrTime    \* std::map<DEVADDR, TASK_TIME> addrTime

vars == <<timeAddr, addrTime>>

Entry == [time : Nat, addr : Addrs]

TypeOK ==
    /\ timeAddr \subseteq Entry
    /\ addrTime \in [Addrs -> Nat \cup {NoTime}]

Init ==
    /\ timeAddr = {}
    /\ addrTime = [a \in Addrs |-> NoTime]

----------------------------------------------------------------------------

\* timeAddr.begin(): the entry with the smallest key.
first == CHOOSE e \in timeAddr : \A f \in timeAddr : e.time <= f.time

\* push() that forgets the index.
push_unindexed(addr, time) ==
    IF timeAddr # {}
    THEN UNCHANGED vars
    ELSE /\ timeAddr' = {[time |-> time, addr |-> addr]}
         /\ UNCHANGED addrTime

\* push() without the early return.
push_always(addr, time) ==
    /\ timeAddr' = timeAddr \cup {[time |-> time, addr |-> addr]}
    /\ addrTime' = [addrTime EXCEPT ![addr] = time]

\* push(): an address is accepted only by an empty collection; otherwise the
\* early return drops it.
push(addr, time) ==
    IF timeAddr # {}
    THEN UNCHANGED vars
    ELSE /\ timeAddr' = {[time |-> time, addr |-> addr]}
         /\ addrTime' = [addrTime EXCEPT ![addr] = time]

\* has() and taskTime() answer from the index.
has(addr) == addrTime[addr] # NoTime
taskTime(addr) == addrTime[addr]

\* pop(TimeAddr*): removes the first entry.  The address to clean the index by
\* is read from the freed node: freed is whatever the allocator has left there,
\* the popped address as a rule, any other bytes when the node is in use again.
\* An address that the index has stays there; for one that it has not the code
\* erases end(), which is undefined: the index may be anything afterwards.
popFirst(freed) ==
    /\ timeAddr # {}
    /\ timeAddr' = timeAddr \ {first}
    /\ IF freed \in Addrs /\ has(freed)
       THEN UNCHANGED addrTime
       ELSE addrTime' \in [Addrs -> 0..MaxTime \cup {NoTime}]

\* pop(TimeAddr&, TASK_TIME): the first entry, if it has waited WaitTime.
isDue(now) == timeAddr # {} /\ first.time <= now - WaitTime

\* The index entry of the address left in the freed node is erased.
popDue(now, freed) ==
    /\ isDue(now)
    /\ timeAddr' = timeAddr \ {first}
    /\ addrTime' = [a \in Addrs |-> IF a = freed THEN NoTime ELSE addrTime[a]]

\* waitTimeForAllGatewaysInMicroseconds(): -1 for an empty collection.
waitTimeForAllGateways(since) ==
    IF timeAddr = {} THEN -1
    ELSE IF first.time + WaitTime < since THEN 0
    ELSE first.time + WaitTime - since

\* clear(nullptr)
clearAll ==
    /\ timeAddr' = {}
    /\ addrTime' = [a \in Addrs |-> NoTime]

\* clear(expiration): the entries at or after expiration go, with their index
\* entries.
clear(expiration) ==
    LET gone == {e \in timeAddr : e.time >= expiration}
    IN  /\ timeAddr' = timeAddr \ gone
        /\ addrTime' = [a \in Addrs |-> IF \E e \in gone : e.addr = a
                                        THEN NoTime ELSE addrTime[a]]

Next ==
    \/ \E a \in Addrs, t \in 0..MaxTime : push(a, t)
    \/ \E freed \in Addrs \cup {NoAddr} : popFirst(freed)
    \/ \E t \in 0..MaxTime, freed \in Addrs \cup {NoAddr} : popDue(t, freed)
    \/ clearAll
    \/ \E t \in 0..MaxTime : clear(t)

Spec == Init /\ [][Next]_vars

----------------------------------------------------------------------------

\* The index never loses or misdates an address that is still queued: whatever
\* push, the two pops (which read freed memory) and clear did before, every
\* queued entry is found by has() with exactly its own time by taskTime().
QueuedIsIndexed ==
    \A e \in timeAddr : has(e.addr) /\ taskTime(e.addr) = e.time

\* An address that was accepted keeps its place and its time until it is popped
\* or cleared: no later push displaces it or moves its 0.5 s start.
AcceptedIsKept ==
    [][timeAddr' = {} \/ timeAddr' = timeAddr \/ timeAddr = {}]_vars
=============================================================================
