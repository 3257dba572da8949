------------------------------ MODULE JitQueue ------------------------------
(***************************************************************************)
(* The just-in-time queue of one radio chain (third-party/jitqueue): the    *)
(* downlinks that wait for their instant.  Operators over its value; the    *)
(* threads that use it are in LoraGatewayListener.                          *)
(*                                                                         *)
(* A queue is a set of nodes [pkt, at, post]: the packet, count_us and the  *)
(* time on air.  The code keeps the array sorted by count_us and no two     *)
(* nodes have the same (they would collide), so that the index of a node is *)
(* the number of smaller ones.  Only downlinks are queued: no code queues   *)
(* a beacon, see LoraGatewayListener.                                       *)
(***************************************************************************)
EXTENDS Integers, FiniteSets

CONSTANTS
    Modulus,        \* the concentrator's counter wraps, 2^32 in the code
    StartDelay,     \* TX_START_DELAY
    MarginDelay,    \* TX_MARGIN_DELAY
    JitDelay,       \* TX_JIT_DELAY
    MaxAdvance,     \* TX_MAX_ADVANCE_DELAY
    QueueMax        \* JIT_QUEUE_MAX

ASSUME JitAssumption ==
    /\ {Modulus, JitDelay, MaxAdvance, QueueMax} \subseteq Nat \ {0}
    /\ {StartDelay, MarginDelay} \subseteq Nat
    /\ StartDelay + MarginDelay < JitDelay
    /\ 2 * JitDelay < MaxAdvance /\ 2 * MaxAdvance <= Modulus

Count == 0..(Modulus - 1)

\* uint32_t arithmetic
Sub(a, b) == (a - b) % Modulus
Add(a, b) == (a + b) % Modulus

\* packet_pre_delay
PreDelay == StartDelay + JitDelay

earliest(Q) == {q \in Q : \A r \in Q : q.at <= r.at}
indexOf(Q, q) == Cardinality({r \in Q : r.at < q.at})
nodeAt(Q, i) == {q \in Q : indexOf(Q, q) = i}

----------------------------------------------------------------------------

\* A test that forgets that p may come first.
jit_collision_test_oneSided(p, q) == Sub(p.at, q.at) <= PreDelay + q.post + MarginDelay

jit_collision_test(p, q) ==
    \/ Sub(p.at, q.at) <= PreDelay + q.post + MarginDelay
    \/ Sub(q.at, p.at) <= PreDelay + p.post + MarginDelay

\* The instant of an immediate (class C) downlink: as soon as possible, or after
\* the first queued one that leaves room before the next.
asapCount(Q, time, pkt, post) ==
    LET node(t) == [pkt |-> pkt, at |-> t, post |-> post]
        asap == Add(time, 2 * JitDelay)
        after(q) == Add(q.at, q.post + PreDelay + JitDelay + MarginDelay)
        next(q) == earliest({r \in Q : r.at > q.at})
        roomAfter == {q \in Q : \A r \in next(q) :
                                    ~jit_collision_test(node(after(q)), r)}
    IN  IF \A q \in Q : ~jit_collision_test(node(asap), q) THEN asap
        ELSE after(CHOOSE q \in earliest(roomAfter) : TRUE)

\* criteria 1 and 2 of jit_enqueue()
tooLate(time, at) == Sub(at, time) <= StartDelay + MarginDelay + JitDelay
tooEarly(time, at) == Sub(at, time) > MaxAdvance

\* jit_enqueue() under mx_jit_queue; the queue is unchanged when the packet is
\* refused.  class "A": timestamped, "C": immediate.
jit_enqueue(Q, time, pkt, class, at, post) ==
    LET n == [pkt |-> pkt, post |-> post,
              at |-> IF class = "C" THEN asapCount(Q, time, pkt, post) ELSE at]
    IN  IF \/ tooLate(time, n.at)
           \/ class = "A" /\ tooEarly(time, n.at)
           \/ \E q \in Q : jit_collision_test(n, q)
        THEN Q ELSE Q \cup {n}

outdated(time, q) == Sub(q.at, time) >= MaxAdvance

\* jit_peek(): outdated packets are dropped.  When the first of the array is,
\* the scan goes on at index 1, so that the new first one is neither dropped
\* nor looked at this time, which matters when it is due.  index -1: nothing is
\* due.
jit_peek(Q, time) ==
    LET gone == {q \in earliest(Q) : outdated(time, q)}
        skipped == IF gone = {} THEN {} ELSE earliest(Q \ gone)
        kept == skipped \cup {q \in Q : ~outdated(time, q)}
        due == {q \in kept \ skipped :
                    /\ Sub(q.at, time) < JitDelay
                    /\ \A r \in kept \ skipped :
                            Sub(q.at, time) <= Sub(r.at, time)}
    IN  [queue |-> kept,
         passed |-> {q \in skipped : Sub(q.at, time) < JitDelay},
         index |-> IF due = {} THEN -1
                   ELSE indexOf(kept, CHOOSE q \in due : TRUE)]

\* A dequeue that copies the packet after it has closed the gap.
jit_dequeue_shifted(Q, i) == [taken |-> nodeAt(Q, i + 1),
                              queue |-> Q \ nodeAt(Q, i)]

\* jit_dequeue() of an index that was peeked earlier: what is there now.  An
\* index past the end takes a cleared node and forgets the last packet.
jit_dequeue(Q, i) ==
    LET taken == nodeAt(Q, i)
    IN  [taken |-> taken,
         queue |-> IF taken # {} THEN Q \ taken
                   ELSE {q \in Q : \E r \in Q : r.at > q.at}]
=============================================================================
