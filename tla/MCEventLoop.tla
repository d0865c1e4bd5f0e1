---------------------------- MODULE MCEventLoop ----------------------------
(* The event loop for TLC: see the MCEventLoop*.cfg files for the sizes. *)
EXTENDS EventLoop

=============================================================================
