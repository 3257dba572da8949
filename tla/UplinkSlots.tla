---------------------------- MODULE UplinkSlots ----------------------------
(***************************************************************************)
(* What the dispatcher promises the application about uplinks, without its  *)
(* threads, its queue or its control socket.  Every device has one slot.    *)
(* A frame heard while the slot is empty takes it; the copies of the same   *)
(* frame heard by other gateways join it; the application gets the frame    *)
(* while it holds the slot, and the slot is emptied only after that.  A     *)
(* different frame of the device finds the slot taken and is not kept.      *)
(*                                                                         *)
(* Dispatcher implements this specification (UplinkSlotsSpec there).        *)
(***************************************************************************)
CONSTANTS Addrs, Gateways, Frames, Empty

VARIABLE slot

Slot == [frame : Frames, heard : (SUBSET Gateways) \ {{}},
         delivered : BOOLEAN]

SlotTypeOK == slot \in [Addrs -> Slot \cup {Empty}]

Init == slot = [a \in Addrs |-> Empty]

\* A gateway hears a frame of a device whose slot is empty.
Take(a, f, g) ==
    /\ slot[a] = Empty
    /\ f.addr = a
    /\ slot' = [slot EXCEPT ![a] = [frame |-> f, heard |-> {g},
                                    delivered |-> FALSE]]

\* Another gateway hears a copy.
Join(a, g) ==
    /\ slot[a] # Empty
    /\ slot' = [slot EXCEPT ![a].heard = @ \cup {g}]

\* The application gets the frame for the first time.
Deliver(a) ==
    /\ slot[a] # Empty
    /\ ~slot[a].delivered
    /\ slot' = [slot EXCEPT ![a].delivered = TRUE]

\* The slots of old frames are emptied together, each of them delivered.
Forget(S) ==
    /\ \A a \in S : slot[a] # Empty /\ slot[a].delivered
    /\ slot' = [a \in Addrs |-> IF a \in S THEN Empty ELSE slot[a]]

Next ==
    \/ \E a \in Addrs, f \in Frames, g \in Gateways : Take(a, f, g)
    \/ \E a \in Addrs, g \in Gateways : Join(a, g)
    \/ \E a \in Addrs : Deliver(a)
    \/ \E S \in SUBSET Addrs : Forget(S)

Spec == Init /\ [][Next]_slot

\* And the application does get every frame that took a slot.
LiveSpec == Spec /\ \A a \in Addrs : WF_slot(Deliver(a))
=============================================================================
