------------------------- MODULE TimeAddrSetProofs -------------------------
(***************************************************************************)
(* Proofs about TimeAddrSet, for any addresses and any times.               *)
(*                                                                         *)
(* The argument rests on one fact: push() accepts an address only when the  *)
(* collection is empty, so it never holds two entries (AtMostOne).  Popping *)
(* or clearing then leaves nothing queued, and whatever the freed node made *)
(* of the index, no queued entry depends on it.                             *)
(***************************************************************************)
EXTENDS TimeAddrSet, TLAPS

AtMostOne == \A d, e \in timeAddr : d = e

IInv == TypeOK /\ AtMostOne /\ QueuedIsIndexed

\* Every entry of a collection with at most one is its first.
LEMMA FirstIsAll ==
    ASSUME AtMostOne, timeAddr # {}, TypeOK
    PROVE  timeAddr = {first} /\ timeAddr \ {first} = {}
<1>1. PICK e \in timeAddr : TRUE
  OBVIOUS
<1>2. timeAddr = {e}
  BY <1>1 DEF AtMostOne
<1>3. e.time \in Nat
  BY <1>1 DEF TypeOK, Entry
<1>4. first \in timeAddr
  BY <1>2, <1>3 DEF first
<1> QED
  BY <1>2, <1>4

\* Initially there is nothing queued.
LEMMA InitIInv == Init => IInv
  BY DEF Init, IInv, TypeOK, AtMostOne, QueuedIsIndexed

\* Every member function keeps the invariant.
LEMMA NextIInv == IInv /\ [Next]_vars => IInv'
<1> SUFFICES ASSUME IInv, [Next]_vars PROVE IInv'
  OBVIOUS
<1> USE TimeAddrSetAssumption DEF IInv, has, taskTime
<1>1. ASSUME NEW a \in Addrs, NEW t \in 0..MaxTime, push(a, t)
      PROVE IInv'
  <2>1. CASE timeAddr # {}
    BY <1>1, <2>1 DEF push, vars, TypeOK, AtMostOne, QueuedIsIndexed
  <2>2. CASE timeAddr = {}
    <3>1. /\ timeAddr' = {[time |-> t, addr |-> a]}
          /\ addrTime' = [addrTime EXCEPT ![a] = t]
      BY <1>1, <2>2 DEF push
    <3>2. t \in Nat
      OBVIOUS
    <3> QED
      BY <3>1, <3>2 DEF TypeOK, AtMostOne, QueuedIsIndexed, Entry
  <2> QED
    BY <2>1, <2>2
<1>2. ASSUME NEW freed \in Addrs \cup {NoAddr}, popFirst(freed)
      PROVE IInv'
  <2>1. timeAddr' = {}
    BY <1>2, FirstIsAll DEF popFirst
  <2>2. addrTime' \in [Addrs -> Nat \cup {NoTime}]
    <3>1. 0..MaxTime \cup {NoTime} \subseteq Nat \cup {NoTime}
      OBVIOUS
    <3>2. CASE UNCHANGED addrTime
      BY <3>2 DEF TypeOK
    <3>3. CASE addrTime' \in [Addrs -> 0..MaxTime \cup {NoTime}]
      BY <3>1, <3>3
    <3> QED
      BY <1>2, <3>2, <3>3 DEF popFirst
  <2> QED
    BY <2>1, <2>2 DEF TypeOK, AtMostOne, QueuedIsIndexed
<1>3. ASSUME NEW t \in 0..MaxTime, NEW freed \in Addrs \cup {NoAddr},
             popDue(t, freed)
      PROVE IInv'
  <2>1. timeAddr' = {}
    BY <1>3, FirstIsAll DEF popDue, isDue
  <2>2. addrTime' \in [Addrs -> Nat \cup {NoTime}]
    BY <1>3 DEF popDue, TypeOK
  <2> QED
    BY <2>1, <2>2 DEF TypeOK, AtMostOne, QueuedIsIndexed
<1>4. CASE clearAll
  BY <1>4 DEF clearAll, TypeOK, AtMostOne, QueuedIsIndexed
<1>5. ASSUME NEW t \in 0..MaxTime, clear(t)
      PROVE IInv'
  <2> DEFINE gone == {e \in timeAddr : e.time >= t}
  <2>1. /\ timeAddr' = timeAddr \ gone
        /\ addrTime' = [a \in Addrs |-> IF \E e \in gone : e.addr = a
                                        THEN NoTime ELSE addrTime[a]]
    BY <1>5 DEF clear
  <2>2. TypeOK'
    BY <2>1 DEF TypeOK
  <2>3. AtMostOne'
    BY <2>1 DEF AtMostOne
  <2>4. QueuedIsIndexed'
    <3> SUFFICES ASSUME NEW e \in timeAddr' PROVE addrTime'[e.addr] = e.time /\ e.time \in Nat
      BY TimeAddrSetAssumption DEF QueuedIsIndexed
    <3>1. /\ e \in timeAddr /\ e \notin gone
          /\ e.addr \in Addrs /\ e.time \in Nat
      BY <2>1 DEF TypeOK, Entry
    <3>2. gone = {}
      BY <3>1 DEF AtMostOne
    <3> QED
      BY <2>1, <3>1, <3>2 DEF QueuedIsIndexed
  <2> QED
    BY <2>2, <2>3, <2>4
<1>6. CASE UNCHANGED vars
  BY <1>6 DEF vars, TypeOK, AtMostOne, QueuedIsIndexed
<1> QED
  BY <1>1, <1>2, <1>3, <1>4, <1>5, <1>6 DEF Next

\* The two maps have the types of their keys and values after any calls.
THEOREM TypeCorrect == Spec => []TypeOK
<1>1. IInv => TypeOK
  BY DEF IInv
<1> QED
  BY InitIInv, NextIInv, <1>1, PTL DEF Spec

\* For any number of addresses and any times, every queued entry is indexed
\* with its own time, although both pops may read freed memory
\* (TimeAddrSet::push, pop, clear).
THEOREM QueuedAlwaysIndexed == Spec => []QueuedIsIndexed
<1>1. IInv => QueuedIsIndexed
  BY DEF IInv
<1> QED
  BY InitIInv, NextIInv, <1>1, PTL DEF Spec

\* No call but a pop or a clear moves an accepted address or its time: a step
\* empties the collection, leaves it alone, or fills an empty one
\* (TimeAddrSet::push).
THEOREM AcceptedStays == Spec => AcceptedIsKept
<1>1. IInv /\ [Next]_vars => [timeAddr' = {} \/ timeAddr' = timeAddr \/ timeAddr = {}]_vars
  <2> SUFFICES ASSUME IInv, Next
               PROVE  timeAddr' = {} \/ timeAddr' = timeAddr \/ timeAddr = {}
    OBVIOUS
  <2>1. ASSUME NEW t \in 0..MaxTime, clear(t)
        PROVE  timeAddr' = {} \/ timeAddr' = timeAddr
    BY <2>1 DEF clear, IInv, AtMostOne
  <2>2. ASSUME NEW t \in 0..MaxTime, NEW freed \in Addrs \cup {NoAddr},
               popDue(t, freed)
        PROVE  timeAddr' = {}
    BY <2>2, FirstIsAll DEF popDue, isDue, IInv
  <2>3. ASSUME NEW freed \in Addrs \cup {NoAddr}, popFirst(freed)
        PROVE  timeAddr' = {}
    BY <2>3, FirstIsAll DEF popFirst, IInv
  <2> QED
    BY <2>1, <2>2, <2>3 DEF Next, push, clearAll, vars
<1> QED
  BY InitIInv, NextIInv, <1>1, PTL DEF Spec, AcceptedIsKept
=============================================================================
