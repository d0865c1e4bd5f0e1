------------------------------- MODULE Buffer -------------------------------
(***************************************************************************)
(* The byte buffer of src/buffer.rs: readable bytes between two indices of  *)
(* a vector, with room kept free in front of them (CheapPrepend) and reused *)
(* before the vector grows.  Numbers are byte strings here, and so is what  *)
(* is appended of a string; what is retrieved as one is converted.          *)
(***************************************************************************)
EXTENDS Naturals, Sequences

CONSTANTS
  CheapPrepend,   \* K_CHEAP_PREPEND_SIZE
  InitialSize,    \* Builder::size
  Byte,           \* the values of a byte
  Chunks,         \* the byte strings that are appended and prepended
  Lossy(_),       \* String::from_utf8_lossy of a byte string
  MaxReadable     \* bound: readable bytes

ASSUME BufferAssumption ==
  /\ CheapPrepend \in Nat /\ InitialSize \in Nat /\ MaxReadable \in Nat
  /\ 0 \in Byte
  /\ Chunks \subseteq Seq(Byte)

VARIABLES
  cap,        \* data.len()
  data,       \* the vector, from index 0
  readIdx,
  writeIdx,
  result      \* what the last retrieving call returned

vars == <<cap, data, readIdx, writeIdx, result>>

ReadableBytes == writeIdx - readIdx
WritableBytes == cap - writeIdx
PrependableBytes == readIdx

Peek == [i \in 1 .. ReadableBytes |-> data[readIdx + i - 1]]

----------------------------------------------------------------------------
\* Vec::splice of as many bytes as it replaces.
Splice(d, size, at, bytes) ==
  [i \in 0 .. size - 1 |->
     IF i \in at .. at + Len(bytes) - 1 THEN bytes[i - at + 1] ELSE d[i]]

\* ensure_writable(n), its three cases.
Fits(n) == n <= WritableBytes

GrowsTooLate(n) == ~Fits(n) /\ WritableBytes + PrependableBytes < n

Grows(n) == ~Fits(n) /\ WritableBytes + PrependableBytes < n + CheapPrepend

Compacts(n) == ~Fits(n) /\ ~Grows(n)

Resized(n) ==
  [i \in 0 .. writeIdx + n - 1 |-> IF i < cap THEN data[i] ELSE 0]

CompactsToTheFront ==
  [i \in 0 .. cap - 1 |-> IF i < ReadableBytes THEN data[i + readIdx] ELSE data[i]]

Compacted ==
  [i \in 0 .. cap - 1 |->
     IF i \in CheapPrepend .. CheapPrepend + ReadableBytes - 1
       THEN data[i - CheapPrepend + readIdx]
       ELSE data[i]]

\* append, and read_from, append_as, append_string by way of it.
AppendBytes(c) ==
  /\ ReadableBytes + Len(c) <= MaxReadable
  /\ \/ /\ Fits(Len(c))
        /\ data' = Splice(data, cap, writeIdx, c)
        /\ writeIdx' = writeIdx + Len(c)
        /\ UNCHANGED <<cap, readIdx>>
     \/ /\ Grows(Len(c))
        /\ cap' = writeIdx + Len(c)
        /\ data' = Splice(Resized(Len(c)), writeIdx + Len(c), writeIdx, c)
        /\ writeIdx' = writeIdx + Len(c)
        /\ UNCHANGED readIdx
     \/ /\ Compacts(Len(c))
        /\ readIdx' = CheapPrepend
        /\ writeIdx' = CheapPrepend + ReadableBytes + Len(c)
        /\ data' = Splice(Compacted, cap, CheapPrepend + ReadableBytes, c)
        /\ UNCHANGED cap
  /\ UNCHANGED result

\* prepend, whose assert bounds the call.
Prepend(c) ==
  /\ Len(c) <= PrependableBytes
  /\ ReadableBytes + Len(c) <= MaxReadable
  /\ readIdx' = readIdx - Len(c)
  /\ data' = Splice(data, cap, readIdx - Len(c), c)
  /\ UNCHANGED <<cap, writeIdx, result>>

\* What the retrieving calls return of n bytes: peek_as, retrieve_as, and those
\* that return a String.
Retrieved(n) == LET bytes == SubSeq(Peek, 1, n) IN {bytes, Lossy(bytes)}

WriteIndexResetAlone(n) ==
  /\ n <= ReadableBytes
  /\ result' \in Retrieved(n)
  /\ readIdx' = readIdx + n
  /\ writeIdx' = IF n < ReadableBytes THEN writeIdx ELSE CheapPrepend
  /\ UNCHANGED <<cap, data>>

\* retrieve, retrieve_all, and the retrieving calls that return bytes.  With
\* the last byte the indices go back to the start.
Retrieve(n) ==
  /\ n <= ReadableBytes
  /\ result' \in Retrieved(n)
  /\ IF n < ReadableBytes
       THEN readIdx' = readIdx + n /\ UNCHANGED writeIdx
       ELSE readIdx' = CheapPrepend /\ writeIdx' = CheapPrepend
  /\ UNCHANGED <<cap, data>>

----------------------------------------------------------------------------
Init ==
  /\ cap = CheapPrepend + InitialSize
  /\ data = [i \in 0 .. CheapPrepend + InitialSize - 1 |-> 0]
  /\ readIdx = CheapPrepend /\ writeIdx = CheapPrepend
  /\ result = <<>>

Next ==
  \/ \E c \in Chunks : AppendBytes(c) \/ Prepend(c)
  \/ \E n \in 0 .. ReadableBytes : Retrieve(n)

Spec == Init /\ [][Next]_vars

----------------------------------------------------------------------------
(* Properties *)

\* The indices are in order and inside the vector, and there is always room
\* for the cheap prepend of an empty buffer.
TypeOK ==
  /\ cap \in Nat /\ readIdx \in Nat /\ writeIdx \in Nat
  /\ CheapPrepend <= cap
  /\ readIdx <= writeIdx /\ writeIdx <= cap
  /\ data \in [0 .. cap - 1 -> Byte]

\* The asserts inside ensure_writable hold, whatever comes next: content moves
\* only towards the front, and then there is room for the new bytes.
AssertsHold ==
  \A c \in Chunks :
    Compacts(Len(c)) =>
      /\ CheapPrepend < readIdx
      /\ CheapPrepend + ReadableBytes + Len(c) <= cap

\* "we don't want to alloc more space but move content-already ahead": the
\* vector grows only for content that it cannot hold from CheapPrepend on, and
\* never shrinks.
GrowsOnlyWhenFull ==
  [][cap' # cap => cap' > cap /\ CheapPrepend + (writeIdx' - readIdx') > cap]_vars

\* The buffer is a queue of bytes: nothing is lost, changed or reordered by
\* growing, by moving the content, or by writing over the old bytes.
Queue == INSTANCE ByteQueue WITH content <- Peek

ImplementsQueue == Queue!Spec

=============================================================================
