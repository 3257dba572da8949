-------------------------- MODULE MCMessageQueue ---------------------------
(***************************************************************************)
(* Instance of MessageQueue for TLC.  One device with two frames, so that a *)
(* copy, a different frame and a frame without payload all meet the queued  *)
(* item, and two gateways.  The second frame is the longer one and may show *)
(* behind the first.                                                        *)
(***************************************************************************)
EXTENDS MessageQueue

CONSTANT d1

Frame(n, confirmed, payload, fopts) ==
    [addr |-> d1, fcnt |-> n, size |-> n, confirmed |-> confirmed,
     payload |-> payload, fopts |-> fopts]

MCPackets == {Frame(1, TRUE, TRUE, FALSE), Frame(2, FALSE, FALSE, TRUE)}
=============================================================================
