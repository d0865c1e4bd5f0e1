----------------------------- MODULE ByteQueue -----------------------------
(***************************************************************************)
(* What Buffer (src/buffer.rs) promises, without indices: a string of bytes *)
(* that grows at both ends and is consumed from the front.                  *)
(***************************************************************************)
EXTENDS Naturals, Sequences

CONSTANTS
  Chunks,    \* the byte strings that are appended and prepended
  Lossy(_)   \* the conversion to a String

VARIABLES
  content,   \* the readable bytes
  result     \* what the last retrieving call returned

vars == <<content, result>>

Init == content = <<>> /\ result = <<>>

AppendBytes == \E c \in Chunks : content' = content \o c /\ UNCHANGED result

PrependBytes == \E c \in Chunks : content' = c \o content /\ UNCHANGED result

RetrieveBytes ==
  \E n \in 0 .. Len(content) :
    /\ LET bytes == SubSeq(content, 1, n) IN result' \in {bytes, Lossy(bytes)}
    /\ content' = SubSeq(content, n + 1, Len(content))

Next == AppendBytes \/ PrependBytes \/ RetrieveBytes

Spec == Init /\ [][Next]_vars
=============================================================================
