------------------------------ MODULE MCServer ------------------------------
(* A crowded bridge that nobody interrupts, and one or two signals. *)
EXTENDS Server

MCConfigs == {[stall |-> FALSE, clients |-> {1, 2, 3}, signals |-> 0],
              [stall |-> FALSE, clients |-> {1}, signals |-> 2],
              [stall |-> TRUE, clients |-> {1}, signals |-> 1]}
=============================================================================
