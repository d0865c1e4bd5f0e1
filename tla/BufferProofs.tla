---------------------------- MODULE BufferProofs ----------------------------
(***************************************************************************)
(* Theorems about the buffer, for any sizes and any bytes.                  *)
(***************************************************************************)
EXTENDS Buffer, SequenceTheorems, TLAPS

\* A splice keeps a vector a vector, and puts the bytes where it says.
LEMMA SpliceType ==
  ASSUME NEW c \in Seq(Byte), NEW at \in Nat, NEW size \in Nat, NEW d,
         \A i \in 0 .. size - 1 : i \notin at .. at + Len(c) - 1 => d[i] \in Byte
  PROVE  Splice(d, size, at, c) \in [0 .. size - 1 -> Byte]
<1>1. Len(c) \in Nat /\ \A j \in 1 .. Len(c) : c[j] \in Byte
  BY LenProperties, ElementOfSeq
<1>2. ASSUME NEW i \in 0 .. size - 1
      PROVE  (IF i \in at .. at + Len(c) - 1 THEN c[i - at + 1] ELSE d[i]) \in Byte
  <2>1. CASE i \in at .. at + Len(c) - 1
    <3>1. i - at + 1 \in 1 .. Len(c)
      BY <1>1, <2>1
    <3> QED  BY <1>1, <2>1, <3>1
  <2>2. CASE i \notin at .. at + Len(c) - 1
    BY <2>2
  <2> QED  BY <2>1, <2>2
<1> QED  BY <1>2 DEF Splice

LEMMA TypeInit == Init => TypeOK
<1> SUFFICES ASSUME Init  PROVE TypeOK
  OBVIOUS
<1>1. data \in [0 .. cap - 1 -> Byte]
  BY BufferAssumption DEF Init
<1> QED  BY <1>1, BufferAssumption DEF Init, TypeOK

LEMMA ChunkType == ASSUME NEW c \in Chunks  PROVE c \in Seq(Byte) /\ Len(c) \in Nat
  BY BufferAssumption, LenProperties

\* The readable bytes are bytes.
LEMMA PeekType == TypeOK => Peek \in Seq(Byte) /\ Len(Peek) = ReadableBytes
<1> SUFFICES ASSUME TypeOK  PROVE Peek \in Seq(Byte) /\ Len(Peek) = ReadableBytes
  OBVIOUS
<1>1. ReadableBytes \in Nat
  BY DEF TypeOK, ReadableBytes
<1>2. ASSUME NEW i \in 1 .. ReadableBytes  PROVE data[readIdx + i - 1] \in Byte
  <2>1. readIdx + i - 1 \in 0 .. cap - 1
    BY <1>1 DEF TypeOK, ReadableBytes
  <2> QED  BY <2>1 DEF TypeOK
<1> QED  BY <1>1, <1>2 DEF Peek

\* append, each of its cases.
LEMMA AppendType ==
  ASSUME TypeOK, NEW c \in Chunks, AppendBytes(c)
  PROVE  TypeOK'
<1>0. c \in Seq(Byte) /\ Len(c) \in Nat
  BY ChunkType
<1>1. UNCHANGED result
  BY DEF AppendBytes
<1>2. CASE Fits(Len(c)) /\ data' = Splice(data, cap, writeIdx, c) /\ writeIdx' = writeIdx + Len(c)
           /\ UNCHANGED <<cap, readIdx>>
  <2>1. data' \in [0 .. cap - 1 -> Byte]
    BY <1>0, <1>2, SpliceType DEF TypeOK
  <2> QED  BY <1>0, <1>1, <1>2, <2>1 DEF TypeOK, Fits, WritableBytes
<1>3. CASE Grows(Len(c)) /\ cap' = writeIdx + Len(c)
           /\ data' = Splice(Resized(Len(c)), writeIdx + Len(c), writeIdx, c)
           /\ writeIdx' = writeIdx + Len(c) /\ UNCHANGED readIdx
  <2>1. writeIdx + Len(c) \in Nat /\ writeIdx <= cap /\ writeIdx \in Nat /\ cap \in Nat
    BY <1>0 DEF TypeOK
  <2>2. ASSUME NEW i \in 0 .. writeIdx + Len(c) - 1  PROVE Resized(Len(c))[i] \in Byte
    <3>1. Resized(Len(c))[i] = IF i < cap THEN data[i] ELSE 0
      BY DEF Resized
    <3>2. i < cap => data[i] \in Byte
      BY <2>1 DEF TypeOK
    <3> QED  BY <3>1, <3>2, BufferAssumption
  <2>3. data' \in [0 .. writeIdx + Len(c) - 1 -> Byte]
    BY <1>0, <1>3, <2>1, <2>2, SpliceType
  <2>4. cap <= cap'
    BY <1>0, <1>3 DEF TypeOK, Grows, Fits, WritableBytes
  <2> QED  BY <1>0, <1>1, <1>3, <2>3, <2>4, BufferAssumption DEF TypeOK
<1>4. CASE Compacts(Len(c)) /\ readIdx' = CheapPrepend
           /\ writeIdx' = CheapPrepend + ReadableBytes + Len(c)
           /\ data' = Splice(Compacted, cap, CheapPrepend + ReadableBytes, c)
           /\ UNCHANGED cap
  <2>1. /\ ReadableBytes \in Nat /\ CheapPrepend \in Nat
        /\ CheapPrepend + ReadableBytes + Len(c) <= cap
    BY <1>0, <1>4, BufferAssumption
       DEF TypeOK, Compacts, Grows, Fits, WritableBytes, PrependableBytes, ReadableBytes
  <2>2. ASSUME NEW i \in 0 .. cap - 1  PROVE Compacted[i] \in Byte
    <3>1. CASE i \in CheapPrepend .. CheapPrepend + ReadableBytes - 1
      <4>1. i - CheapPrepend + readIdx \in 0 .. cap - 1
        BY <2>1, <3>1 DEF TypeOK, ReadableBytes
      <4> QED  BY <3>1, <4>1 DEF TypeOK, Compacted
    <3>2. CASE i \notin CheapPrepend .. CheapPrepend + ReadableBytes - 1
      BY <3>2 DEF TypeOK, Compacted
    <3> QED  BY <3>1, <3>2
  <2>3. data' \in [0 .. cap - 1 -> Byte]
    BY <1>0, <1>4, <2>1, <2>2, SpliceType DEF TypeOK
  <2> QED  BY <1>0, <1>1, <1>4, <2>1, <2>3, BufferAssumption DEF TypeOK
<1> QED  BY <1>2, <1>3, <1>4 DEF AppendBytes

LEMMA PrependType ==
  ASSUME TypeOK, NEW c \in Chunks, Prepend(c)
  PROVE  TypeOK'
<1>1. c \in Seq(Byte) /\ Len(c) \in Nat
  BY ChunkType
<1>2. readIdx - Len(c) \in Nat /\ cap \in Nat
  BY <1>1 DEF TypeOK, Prepend, PrependableBytes
<1>3. data' \in [0 .. cap - 1 -> Byte]
  BY <1>1, <1>2, SpliceType DEF TypeOK, Prepend
<1> QED  BY <1>1, <1>2, <1>3 DEF TypeOK, Prepend

LEMMA RetrieveType ==
  ASSUME TypeOK, NEW n \in 0 .. ReadableBytes, Retrieve(n)
  PROVE  TypeOK'
<1>1. ReadableBytes \in Nat /\ n \in Nat
  BY DEF TypeOK, ReadableBytes
<1> QED  BY <1>1, BufferAssumption DEF TypeOK, Retrieve, ReadableBytes

LEMMA TypeStep == TypeOK /\ [Next]_vars => TypeOK'
<1> SUFFICES ASSUME TypeOK, [Next]_vars  PROVE TypeOK'
  OBVIOUS
<1>1. CASE UNCHANGED vars
  BY <1>1 DEF vars, TypeOK
<1> QED  BY <1>1, AppendType, PrependType, RetrieveType DEF Next

\* The indices stay in order and inside the vector.
THEOREM TypeCorrect == Spec => []TypeOK
  BY TypeInit, TypeStep, PTL DEF Spec

\* The asserts of ensure_writable never fail.
THEOREM AssertsNeverFail == Spec => []AssertsHold
<1>1. TypeOK => AssertsHold
  BY ChunkType, BufferAssumption
     DEF TypeOK, AssertsHold, Compacts, Grows, Fits, WritableBytes, PrependableBytes,
         ReadableBytes
<1> QED  BY <1>1, TypeCorrect, PTL

\* The vector grows only when moving its content would not have been enough.
THEOREM GrowthIsNeeded == Spec => GrowsOnlyWhenFull
<1>1. TypeOK /\ [Next]_vars
        => [cap' # cap => cap' > cap /\ CheapPrepend + (writeIdx' - readIdx') > cap]_vars
  <2> SUFFICES ASSUME TypeOK, Next, cap' # cap
               PROVE  cap' > cap /\ CheapPrepend + (writeIdx' - readIdx') > cap
    BY DEF vars
  <2>1. ASSUME NEW c \in Chunks, AppendBytes(c)
        PROVE  cap' > cap /\ CheapPrepend + (writeIdx' - readIdx') > cap
    BY <2>1, ChunkType, BufferAssumption
       DEF TypeOK, AppendBytes, Grows, Fits, WritableBytes, PrependableBytes
  <2> QED  BY <2>1 DEF Next, Prepend, Retrieve
<1> QED  BY <1>1, TypeCorrect, PTL DEF Spec, GrowsOnlyWhenFull

----------------------------------------------------------------------------
(* The refinement: each call changes the readable bytes as ByteQueue says.    *)

PeekTyped == Peek \in Seq(Byte) /\ Len(Peek) = ReadableBytes

LEMMA PeekTypePrime == TypeOK' => PeekTyped'
<1>1. TypeOK => PeekTyped
  BY PeekType DEF PeekTyped
<1> QED  BY <1>1, PTL

\* What Peek shows is determined by the bytes between the indices.
LEMMA PeekIs ==
  ASSUME TypeOK', NEW s \in Seq(Byte),
         Len(s) = writeIdx' - readIdx',
         \A i \in 1 .. Len(s) : data'[readIdx' + i - 1] = s[i]
  PROVE  Peek' = s
<1>1. Peek' \in Seq(Byte) /\ Len(Peek') = Len(s)
  BY PeekTypePrime DEF PeekTyped, ReadableBytes
<1>2. \A i \in 1 .. Len(s) : Peek'[i] = s[i]
  BY DEF Peek, ReadableBytes
<1> QED  BY <1>1, <1>2, SeqEqual

LEMMA PeekByte ==
  ASSUME TypeOK, NEW i \in 1 .. ReadableBytes
  PROVE  Peek[i] = data[readIdx + i - 1]
  BY DEF Peek

\* append puts the bytes behind the readable ones, in each of its cases.
LEMMA AppendAppends ==
  ASSUME TypeOK, NEW c \in Chunks, AppendBytes(c)
  PROVE  Peek' = Peek \o c
<1>1. c \in Seq(Byte) /\ Len(c) \in Nat /\ Peek \in Seq(Byte) /\ Len(Peek) = ReadableBytes
  BY ChunkType, PeekType
<1>2. ReadableBytes \in Nat /\ CheapPrepend \in Nat
  BY BufferAssumption DEF TypeOK, ReadableBytes
<1>3. /\ Peek \o c \in Seq(Byte) /\ Len(Peek \o c) = ReadableBytes + Len(c)
      /\ \A i \in 1 .. ReadableBytes + Len(c) :
           (Peek \o c)[i] = IF i <= ReadableBytes THEN Peek[i] ELSE c[i - ReadableBytes]
  BY <1>1, ConcatProperties
<1>4. writeIdx' - readIdx' = ReadableBytes + Len(c)
  BY <1>1, <1>2 DEF TypeOK, AppendBytes, ReadableBytes
<1>5. ASSUME NEW i \in 1 .. ReadableBytes + Len(c)
      PROVE  data'[readIdx' + i - 1] = (Peek \o c)[i]
  <2>1. (Peek \o c)[i] = IF i <= ReadableBytes THEN data[readIdx + i - 1] ELSE c[i - ReadableBytes]
    BY <1>1, <1>2, <1>3, PeekByte
  <2>2. CASE Fits(Len(c)) /\ data' = Splice(data, cap, writeIdx, c) /\ UNCHANGED readIdx
    <3>1. readIdx + i - 1 \in 0 .. cap - 1
      BY <1>1, <1>2, <2>2 DEF TypeOK, Fits, WritableBytes, ReadableBytes
    <3> QED  BY <1>1, <2>1, <2>2, <3>1 DEF TypeOK, Splice, ReadableBytes
  <2>3. CASE Grows(Len(c)) /\ UNCHANGED readIdx
             /\ data' = Splice(Resized(Len(c)), writeIdx + Len(c), writeIdx, c)
    <3>1. readIdx + i - 1 \in 0 .. writeIdx + Len(c) - 1
      BY <1>1, <1>2 DEF TypeOK, ReadableBytes
    <3>2. PICK d : d = Resized(Len(c))
      OBVIOUS
    <3>3. PICK m : m = writeIdx + Len(c)
      OBVIOUS
    <3>4. data'[readIdx + i - 1] =
            IF i > ReadableBytes THEN c[i - ReadableBytes] ELSE d[readIdx + i - 1]
      <4>1. data' = Splice(d, m, writeIdx, c)
        BY <2>3, <3>2, <3>3
      <4>2. readIdx + i - 1 \in 0 .. m - 1
        BY <1>1, <1>2, <3>3 DEF TypeOK, ReadableBytes
      <4>3. data'[readIdx + i - 1] =
              IF readIdx + i - 1 \in writeIdx .. writeIdx + Len(c) - 1
                THEN c[(readIdx + i - 1) - writeIdx + 1]
                ELSE d[readIdx + i - 1]
        BY <4>1, <4>2 DEF Splice
      <4>4. /\ readIdx + i - 1 \in writeIdx .. writeIdx + Len(c) - 1 <=> i > ReadableBytes
            /\ (readIdx + i - 1) - writeIdx + 1 = i - ReadableBytes
        BY <1>1, <1>2 DEF TypeOK, ReadableBytes
      <4> QED  BY <4>3, <4>4
    <3>5. i <= ReadableBytes => d[readIdx + i - 1] = data[readIdx + i - 1]
      BY <1>1, <3>1, <3>2 DEF TypeOK, Resized, ReadableBytes
    <3> QED  BY <1>1, <1>2, <2>1, <2>3, <3>4, <3>5
  <2>4. CASE Compacts(Len(c)) /\ readIdx' = CheapPrepend
             /\ data' = Splice(Compacted, cap, CheapPrepend + ReadableBytes, c)
    <3>1. CheapPrepend + i - 1 \in 0 .. cap - 1
      BY <1>1, <1>2, <2>4
         DEF TypeOK, Compacts, Grows, Fits, WritableBytes, PrependableBytes, ReadableBytes
    <3>2. data'[CheapPrepend + i - 1] =
            IF i > ReadableBytes THEN c[i - ReadableBytes] ELSE Compacted[CheapPrepend + i - 1]
      BY <1>1, <1>2, <2>4, <3>1 DEF Splice
    <3>3. i <= ReadableBytes => Compacted[CheapPrepend + i - 1] = data[readIdx + i - 1]
      BY <1>2, <3>1 DEF TypeOK, Compacted
    <3> QED  BY <1>1, <1>2, <2>1, <2>4, <3>2, <3>3
  <2> QED  BY <2>2, <2>3, <2>4 DEF AppendBytes
<1> QED  BY <1>3, <1>4, <1>5, AppendType, PeekIs

\* prepend puts them in front.
LEMMA PrependPrepends ==
  ASSUME TypeOK, NEW c \in Chunks, Prepend(c)
  PROVE  Peek' = c \o Peek
<1>1. c \in Seq(Byte) /\ Len(c) \in Nat /\ Peek \in Seq(Byte) /\ Len(Peek) = ReadableBytes
  BY ChunkType, PeekType
<1>2. ReadableBytes \in Nat
  BY DEF TypeOK, ReadableBytes
<1>3. /\ c \o Peek \in Seq(Byte) /\ Len(c \o Peek) = Len(c) + ReadableBytes
      /\ \A i \in 1 .. Len(c) + ReadableBytes :
           (c \o Peek)[i] = IF i <= Len(c) THEN c[i] ELSE Peek[i - Len(c)]
  BY <1>1, ConcatProperties
<1>4. writeIdx' - readIdx' = Len(c) + ReadableBytes
  BY <1>1 DEF TypeOK, Prepend, ReadableBytes
<1>5. ASSUME NEW i \in 1 .. Len(c) + ReadableBytes
      PROVE  data'[readIdx' + i - 1] = (c \o Peek)[i]
  <2>1. readIdx' = readIdx - Len(c) /\ readIdx' + i - 1 \in 0 .. cap - 1
    BY <1>1 DEF TypeOK, Prepend, PrependableBytes, ReadableBytes
  <2>2. data'[readIdx' + i - 1] =
          IF i <= Len(c) THEN c[i] ELSE data[readIdx + (i - Len(c)) - 1]
    BY <1>1, <2>1 DEF TypeOK, Prepend, Splice
  <2>3. i > Len(c) => Peek[i - Len(c)] = data[readIdx + (i - Len(c)) - 1]
    BY <1>1, <1>2, PeekByte
  <2> QED  BY <1>3, <2>2, <2>3
<1> QED  BY <1>3, <1>4, <1>5, PrependType, PeekIs

\* A retrieval leaves the rest.
LEMMA RetrieveLeaves ==
  ASSUME TypeOK, NEW n \in 0 .. ReadableBytes, Retrieve(n)
  PROVE  Peek' = SubSeq(Peek, n + 1, Len(Peek))
<1>1. /\ Peek \in Seq(Byte) /\ Len(Peek) = ReadableBytes
      /\ ReadableBytes \in Nat /\ n \in Nat
  BY PeekType DEF TypeOK, ReadableBytes
<1>2. \A i \in n + 1 .. Len(Peek) : Peek[i] \in Byte
  BY <1>1, ElementOfSeq
<1>3. /\ SubSeq(Peek, n + 1, Len(Peek)) \in Seq(Byte)
      /\ Len(SubSeq(Peek, n + 1, Len(Peek))) = ReadableBytes - n
      /\ \A i \in 1 .. ReadableBytes - n : SubSeq(Peek, n + 1, Len(Peek))[i] = Peek[n + i]
  BY <1>1, <1>2, SubSeqProperties
<1>4. writeIdx' - readIdx' = ReadableBytes - n
  BY <1>1, BufferAssumption DEF TypeOK, Retrieve, ReadableBytes
<1>5. ASSUME NEW i \in 1 .. ReadableBytes - n
      PROVE  data'[readIdx' + i - 1] = SubSeq(Peek, n + 1, Len(Peek))[i]
  <2>1. n < ReadableBytes /\ n + i \in 1 .. ReadableBytes
    BY <1>1
  <2>2. readIdx' = readIdx + n /\ data' = data
    BY <2>1 DEF Retrieve
  <2>3. Peek[n + i] = data[readIdx + (n + i) - 1]
    BY <2>1, PeekByte
  <2>4. readIdx' + i - 1 = readIdx + (n + i) - 1
    BY <1>1, <2>2 DEF TypeOK
  <2> QED  BY <1>3, <2>2, <2>3, <2>4
<1> QED  BY <1>3, <1>4, <1>5, RetrieveType, PeekIs

LEMMA RefinesInit == Init => Queue!Init
<1> SUFFICES ASSUME Init  PROVE Peek = <<>> /\ result = <<>>
  BY DEF Queue!Init
<1>1. TypeOK
  BY TypeInit
<1>2. ReadableBytes = 0
  BY BufferAssumption DEF Init, ReadableBytes
<1>3. Peek \in Seq(Byte) /\ Len(Peek) = 0
  BY <1>1, <1>2, PeekType
<1> QED  BY <1>3, EmptySeq DEF Init

LEMMA RefinesStep == TypeOK /\ [Next]_vars => [Queue!Next]_(Queue!vars)
<1> SUFFICES ASSUME TypeOK, [Next]_vars  PROVE [Queue!Next]_(Queue!vars)
  OBVIOUS
<1>1. ASSUME NEW c \in Chunks, AppendBytes(c)  PROVE Queue!AppendBytes
  <2>1. UNCHANGED result
    BY <1>1 DEF AppendBytes
  <2> QED  BY <1>1, <2>1, AppendAppends DEF Queue!AppendBytes
<1>2. ASSUME NEW c \in Chunks, Prepend(c)  PROVE Queue!PrependBytes
  <2>1. UNCHANGED result
    BY <1>2 DEF Prepend
  <2> QED  BY <1>2, <2>1, PrependPrepends DEF Queue!PrependBytes
<1>3. ASSUME NEW n \in 0 .. ReadableBytes, Retrieve(n)  PROVE Queue!RetrieveBytes
  <2>1. n \in 0 .. Len(Peek)
    BY PeekType
  <2>2. result' \in {SubSeq(Peek, 1, n), Lossy(SubSeq(Peek, 1, n))}
    BY <1>3 DEF Retrieve, Retrieved
  <2> QED  BY <1>3, <2>1, <2>2, RetrieveLeaves DEF Queue!RetrieveBytes
<1>4. CASE UNCHANGED vars
  <2>1. Peek' = Peek /\ result' = result
    BY <1>4 DEF vars, Peek, ReadableBytes
  <2> QED  BY <2>1 DEF Queue!vars
<1> QED  BY <1>1, <1>2, <1>3, <1>4 DEF Next, Queue!Next

\* The buffer with its indices, growth and moves is a queue of bytes.
THEOREM BufferIsAQueue == Spec => ImplementsQueue
  BY RefinesInit, RefinesStep, TypeCorrect, PTL DEF Spec, ImplementsQueue, Queue!Spec

=============================================================================
