--------------------------- MODULE MCDispatcher ---------------------------
(* A server for TLC: see the MCDispatcher*.cfg files for the sizes. *)
EXTENDS Dispatcher

=============================================================================
