----------------------- MODULE MCDispatcherLifecycle -----------------------
(* Instance of DispatcherLifecycle for TLC. *)
EXTENDS DispatcherLifecycle
=============================================================================
