-------------------------- MODULE MCTimeAddrSet ---------------------------
(* Instance of TimeAddrSet for TLC: three addresses, instants 0..3. *)
EXTENDS TimeAddrSet
=============================================================================
