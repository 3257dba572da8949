---------------------------- MODULE BestGateway ----------------------------
(***************************************************************************)
(* MessageQueueItem::getBestGatewayAddress()                                *)
(* (lorawan/task/message-queue-item.cpp): one pass over the reception       *)
(* reports of an item, in the order of the map's keys, that keeps the       *)
(* gateway with the greatest LoRa signal to noise ratio so far.             *)
(*                                                                         *)
(* The pass is a state machine with one step per iteration; MessageQueue    *)
(* uses its result.                                                         *)
(***************************************************************************)
EXTENDS Integers

CONSTANTS
    Gateways,   \* gateway identifiers, never 0
    Lsnr,       \* LoRa signal to noise ratios
    NoMeta,     \* the map has no key
    Floor       \* -3.402823466E+38f

ASSUME BestGatewayAssumption ==
    /\ Gateways \subseteq Nat \ {0}
    /\ Lsnr \subseteq Int
    /\ NoMeta \notin Lsnr
    /\ Floor \in Int
    /\ \A l \in Lsnr : l > Floor

VARIABLES
    metadata,   \* the lsnr of each report
    todo,       \* keys the iterator has not reached
    f, r        \* greatest ratio so far, and its gateway

vars == <<metadata, todo, f, r>>

heardBy == {g \in Gateways : metadata[g] # NoMeta}

TypeOK ==
    /\ metadata \in [Gateways -> Lsnr \cup {NoMeta}]
    /\ todo \subseteq heardBy
    /\ f \in Lsnr \cup {Floor}
    /\ r \in Gateways \cup {0}

Init ==
    /\ metadata \in [Gateways -> Lsnr \cup {NoMeta}]
    /\ todo = heardBy
    /\ f = Floor
    /\ r = 0

\* An iteration that writes the two variables the other way round.
step_swapped(it) ==
    /\ todo' = todo \ {it}
    /\ r' = IF metadata[it] > f THEN metadata[it] ELSE r
    /\ f' = IF metadata[it] > f THEN metadata[it] ELSE f
    /\ UNCHANGED metadata

\* An iteration that replaces the gateway on a tie.
step_tie(it) ==
    /\ todo' = todo \ {it}
    /\ r' = IF metadata[it] >= f THEN it ELSE r
    /\ f' = IF metadata[it] >= f THEN metadata[it] ELSE f
    /\ UNCHANGED metadata

\* One iteration.
step(it) ==
    /\ todo' = todo \ {it}
    /\ r' = IF metadata[it] > f THEN it ELSE r
    /\ f' = IF metadata[it] > f THEN metadata[it] ELSE f
    /\ UNCHANGED metadata

Next ==
    \/ \E it \in todo : (\A k \in todo : it <= k) /\ step(it)
    \/ todo = {} /\ UNCHANGED vars

Spec == Init /\ [][Next]_vars

----------------------------------------------------------------------------

\* At the end r is the gateway that heard the device best, the one with the
\* smallest identifier among equals, and 0 exactly when no gateway heard it:
\* ties, and the order in which reports arrived, do not matter
\* (getBestGatewayAddress).
ResultIsBest ==
    todo = {} =>
        IF heardBy = {} THEN r = 0
        ELSE /\ r \in heardBy
             /\ \A g \in heardBy : \/ metadata[r] > metadata[g]
                                   \/ metadata[r] = metadata[g] /\ r <= g
=============================================================================
