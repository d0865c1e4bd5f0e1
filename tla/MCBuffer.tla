------------------------------ MODULE MCBuffer ------------------------------
(* The buffer for TLC: all byte strings up to a length. *)
EXTENDS Buffer

CONSTANT MaxChunk

MCChunks == UNION {[1 .. n -> Byte] : n \in 0 .. MaxChunk}

\* The byte 1 is no UTF-8: it is replaced by something that is no byte.
MCLossy(bytes) == [i \in DOMAIN bytes |-> IF bytes[i] = 1 THEN 2 ELSE bytes[i]]

=============================================================================
