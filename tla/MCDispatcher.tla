--------------------------- MODULE MCDispatcher ---------------------------
(***************************************************************************)
(* Instances of Dispatcher for TLC.  Device d1 sends a frame that asks for  *)
(* a confirmation and carries a payload, and a longer one of neither kind   *)
(* that has options; d2 one with a payload, as long as d1's second.         *)
(***************************************************************************)
EXTENDS Dispatcher

CONSTANTS d1, d2

Frame(addr, n, size, confirmed, payload, fopts) ==
    [addr |-> addr, fcnt |-> n, size |-> size, confirmed |-> confirmed,
     payload |-> payload, fopts |-> fopts]

OneDevice == {Frame(d1, 1, 1, TRUE, TRUE, FALSE), Frame(d1, 2, 2, FALSE, FALSE, TRUE)}

ThreeFrames == OneDevice \cup {Frame(d2, 1, 2, FALSE, TRUE, FALSE)}

OneFrame == {Frame(d1, 1, 1, TRUE, TRUE, FALSE)}
=============================================================================
