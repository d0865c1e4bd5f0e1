--------------------------- MODULE MCConnection ---------------------------
(* One connection for TLC: see the MCConnection*.cfg files for the sizes. *)
EXTENDS Connection

\* Every kind of message; interests are changed one at a time.
MCRequests ==
  {Write(n) : n \in Sizes} \cup {SetContext, Stop}
    \cup {Enable({m}) : m \in Modes} \cup {Disable({m}) : m \in Modes}
    \cup {Shutdown({"R"}), Shutdown({"W"}), Shutdown(Modes)}

=============================================================================
