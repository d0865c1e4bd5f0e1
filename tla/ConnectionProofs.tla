-------------------------- MODULE ConnectionProofs --------------------------
(***************************************************************************)
(* Theorems about a connection, for any sizes of writes, any send buffer    *)
(* and any number of messages.                                              *)
(***************************************************************************)
EXTENDS Connection, SequenceTheorems, FiniteSetTheorems, FunctionTheorems, TLAPS

Phases == {"poll", "read", "write", "drain", "timers", "spinning", "panicked", "no peer"}

----------------------------------------------------------------------------
(* Types *)

LEMMA BoundTypes == Room \in Nat /\ MaxInputs \in Nat /\ \A n \in Sizes : n \in Nat
  BY ConnectionAssumption

LEMMA TypeInit == Init => TypeOK
<1> SUFFICES ASSUME Init  PROVE TypeOK
  OBVIOUS
<1>1. output \in Seq(Nat) /\ wire \in Seq(Nat) /\ queue \in Seq(Message)
  BY EmptySeq DEF Init
<1>2. inputs \in 0 .. MaxInputs /\ room \in 0 .. Room
  BY BoundTypes DEF Init
<1> QED  BY <1>1, <1>2 DEF Init, TypeOK, Modes

\* What TypeOK says of the bytes.
LEMMA OutputTypes ==
  ASSUME TypeOK
  PROVE  /\ output \in Seq(Nat) /\ wire \in Seq(Nat)
         /\ given \in Nat /\ room \in Nat /\ room <= Room
<1>1. room \in 0 .. Room /\ given \in Nat /\ output \in Seq(Nat) /\ wire \in Seq(Nat)
  BY DEF TypeOK
<1> QED  BY <1>1, BoundTypes

LEMMA MessageTypes ==
  /\ WriteComplete \in Message /\ Removed \in Message
  /\ \A msg \in Request : msg \in Message
  BY DEF Message

\* The next message of the channel, and what stays in it.
LEMMA TakesType ==
  ASSUME TypeOK, NEW kinds, Takes(kinds)
  PROVE  Head(queue) \in Message /\ Tail(queue) \in Seq(Message)
<1>1. queue \in Seq(Message) /\ queue # <<>>
  BY DEF TypeOK, Takes
<1> QED  BY <1>1, HeadTailProperties

\* A shutdown names sides of the stream.
LEMMA TakesShutdown ==
  ASSUME TypeOK, Takes({"shutdown"})
  PROVE  Head(queue).sides \in SUBSET Modes
<1>1. Head(queue) \in Message /\ Head(queue).kind = "shutdown"
  BY TakesType DEF Takes
<1>2. PICK m \in SUBSET Modes : Head(queue) = Shutdown(m)
  BY <1>1 DEF Message, Request, Write, Enable, Disable, SetContext, Stop, Shutdown, WriteComplete, Removed
<1> QED  BY <1>2 DEF Shutdown

LEMMA AppendMessage ==
  ASSUME NEW q \in Seq(Message), NEW msg \in Message
  PROVE  Append(q, msg) \in Seq(Message)
  BY AppendProperties

\* What the selector and the loop's phase become when the interests change.
IoTypes == /\ interests' \subseteq Modes /\ reg' \subseteq Modes
           /\ edge' \in BOOLEAN /\ phase' \in Phases

LEMMA SetInterestsType ==
  ASSUME TypeOK, NEW modes \in SUBSET Modes, NEW then \in Phases, SetInterests(modes, then)
  PROVE  IoTypes
  BY DEF TypeOK, SetInterests, KeepIo, ioVars, IoTypes, Phases

LEMMA KeepIoType ==
  ASSUME TypeOK, NEW then \in Phases, KeepIo(then)
  PROVE  IoTypes
  BY DEF TypeOK, KeepIo, ioVars, IoTypes

LEMMA EnableIoType ==
  ASSUME TypeOK, NEW modes \in SUBSET Modes, NEW then \in Phases, EnableIo(modes, then)
  PROVE  IoTypes
<1>1. interests \cup modes \in SUBSET Modes
  BY DEF TypeOK
<1> QED  BY <1>1, SetInterestsType DEF EnableIo

LEMMA DisableIoType ==
  ASSUME TypeOK, NEW modes \in SUBSET Modes, NEW then \in Phases, DisableIo(modes, then)
  PROVE  IoTypes
<1>1. interests \ modes \in SUBSET Modes
  BY DEF TypeOK
<1> QED  BY <1>1, SetInterestsType, KeepIoType DEF DisableIo

\* What the socket has taken and what it has left room for.
LEMMA SocketTakesType ==
  ASSUME TypeOK, NEW data \in Seq(Nat), SocketTakes(data)
  PROVE  wire' \in Seq(Nat) /\ room' \in 0 .. Room
<1>1. room \in Nat /\ Room \in Nat /\ room <= Room /\ Len(data) \in Nat /\ wire \in Seq(Nat)
  BY BoundTypes, OutputTypes, LenProperties
<1>2. Least(room, Len(data)) \in 0 .. Len(data) /\ Least(room, Len(data)) <= room
  BY <1>1 DEF Least
<1>3. SubSeq(data, 1, Least(room, Len(data))) \in Seq(Nat)
  BY <1>1, <1>2, SubSeqProperties
<1>4. room' = room - Least(room, Len(data)) /\ wire' = wire \o SubSeq(data, 1, Least(room, Len(data)))
  BY DEF SocketTakes
<1>5. wire' \in Seq(Nat)
  BY <1>1, <1>3, <1>4, ConcatProperties
<1> QED  BY <1>1, <1>2, <1>4, <1>5

LEMMA RestType ==
  ASSUME TypeOK, NEW data \in Seq(Nat)
  PROVE  Rest(data) \in Seq(Nat)
<1>1. room \in Nat /\ Len(data) \in Nat
  BY OutputTypes, LenProperties
<1> QED  BY <1>1, SubSeqProperties DEF Rest

LEMMA NewBytesType ==
  ASSUME TypeOK, NEW n \in Sizes
  PROVE  [i \in 1 .. n |-> given + i] \in Seq(Nat) /\ Len([i \in 1 .. n |-> given + i]) = n
         /\ n \in Nat
<1>1. n \in Nat /\ given \in Nat
  BY BoundTypes, OutputTypes
<1>2. [i \in 1 .. n |-> given + i] \in Seq(Nat)
  BY <1>1
<1> QED  BY <1>1, <1>2

OutTypes == /\ output' \in Seq(Nat) /\ given' \in Nat /\ wire' \in Seq(Nat) /\ room' \in 0 .. Room
            /\ queue' \in Seq(Message) /\ rst' \in {"no", "new", "told"}

\* send, each of its cases.
LEMMA SendType ==
  ASSUME TypeOK, NEW n \in Sizes, NEW q \in Seq(Message), NEW then \in Phases, Send(n, q, then)
  PROVE  IoTypes /\ OutTypes
<1> DEFINE data == [i \in 1 .. n |-> given + i]
<1>1. data \in Seq(Nat) /\ Len(data) = n /\ n \in Nat
  BY NewBytesType
<1> HIDE DEF data
<1>2. output \o data \in Seq(Nat) /\ Rest(data) \in Seq(Nat)
  BY <1>1, RestType, ConcatProperties DEF TypeOK
<1>3. given' \in Nat
  BY <1>1, OutputTypes DEF Send
<1>4. Append(q, WriteComplete) \in Seq(Message)
  BY AppendMessage, MessageTypes
<1>5. {"W"} \in SUBSET Modes
  BY DEF Modes
<1>6. Told \in {"no", "new", "told"} /\ rst \in {"no", "new", "told"}
  BY DEF Told, TypeOK
<1>7. CASE /\ "W" \in interests
           /\ output' = output \o data
           /\ queue' = q
           /\ UNCHANGED <<wire, room, rst>>
           /\ KeepIo(then)
  BY <1>2, <1>3, <1>7, KeepIoType DEF TypeOK, OutTypes
<1>8. CASE /\ output' = output \o data
           /\ queue' = q
           /\ rst' = IF output = <<>> THEN Told ELSE rst
           /\ UNCHANGED <<wire, room>>
           /\ EnableIo({"W"}, then)
  <2>1. rst' \in {"no", "new", "told"}
    BY <1>6, <1>8
  <2> QED  BY <1>2, <1>3, <1>5, <1>8, <2>1, EnableIoType DEF TypeOK, OutTypes
<1>9. CASE /\ SocketTakes(data)
           /\ output' = Rest(data)
           /\ queue' = IF n <= room THEN Append(q, WriteComplete) ELSE q
           /\ UNCHANGED rst
           /\ IF n <= room THEN KeepIo(then) ELSE EnableIo({"W"}, then)
  <2>1. wire' \in Seq(Nat) /\ room' \in 0 .. Room
    BY <1>1, <1>9, SocketTakesType
  <2>2. IoTypes
    BY <1>5, <1>9, KeepIoType, EnableIoType
  <2>3. queue' \in Seq(Message)
    BY <1>4, <1>9
  <2>4. output' \in Seq(Nat) /\ rst' \in {"no", "new", "told"}
    BY <1>2, <1>6, <1>9
  <2> QED  BY <1>3, <2>1, <2>2, <2>3, <2>4 DEF OutTypes
<1>10. CASE /\ SocketTakes(data)
            /\ output' = data
            /\ queue' = q
            /\ rst' = "told"
            /\ EnableIo({"W"}, then)
  <2>1. wire' \in Seq(Nat) /\ room' \in 0 .. Room
    BY <1>1, <1>10, SocketTakesType
  <2>2. IoTypes
    BY <1>5, <1>10, EnableIoType
  <2> QED  BY <1>1, <1>3, <1>10, <2>1, <2>2 DEF OutTypes
<1> QED  BY <1>7, <1>8, <1>9, <1>10 DEF Send, data

LEMMA ShutDownType ==
  ASSUME TypeOK, NEW then \in Phases, NEW sides \in SUBSET Modes, ShutDown(sides, then)
  PROVE  IoTypes /\ shut' \subseteq Modes
<1>1. "no peer" \in Phases
  BY DEF Phases
<1>2. CASE Unconnected
  BY <1>1, <1>2, KeepIoType DEF ShutDown, TypeOK
<1>3. CASE ~Unconnected
  BY <1>3 DEF ShutDown, Happens, TypeOK, IoTypes
<1> QED  BY <1>2, <1>3

LEMMA CallbackType ==
  ASSUME TypeOK, NEW q \in Seq(Message), NEW then \in Phases, Callback(q, then)
  PROVE  IoTypes /\ OutTypes /\ shut' \subseteq Modes
<1>1. CASE queue' = q /\ KeepIo(then) /\ UNCHANGED <<outVars, rst, shut>>
  BY <1>1, KeepIoType DEF OutTypes, outVars, TypeOK
<1>2. CASE \E n \in Sizes : given + n <= MaxBytes /\ UNCHANGED shut /\ Send(n, q, then)
  BY <1>2, SendType DEF TypeOK
<1>3. CASE queue' = q /\ ShutDown({"W"}, then) /\ UNCHANGED <<outVars, rst>>
  BY <1>3, ShutDownType DEF OutTypes, outVars, TypeOK, Modes
<1> QED  BY <1>1, <1>2, <1>3 DEF Callback

\* A step of which the rest is known.
LEMMA TypeFromParts ==
  ASSUME IoTypes, OutTypes, shut' \subseteq Modes, present' \in BOOLEAN, fin' \in BOOLEAN,
         events' \subseteq Modes, inputs' \in 0 .. MaxInputs, unread' \in Nat
  PROVE  TypeOK'
  BY DEF IoTypes, OutTypes, TypeOK, Phases

LEMMA QuietTypes ==
  ASSUME TypeOK
  PROVE  /\ UNCHANGED outVars => /\ output' \in Seq(Nat) /\ given' \in Nat
                                 /\ wire' \in Seq(Nat) /\ room' \in 0 .. Room
         /\ UNCHANGED queue => queue' \in Seq(Message)
         /\ UNCHANGED rst => rst' \in {"no", "new", "told"}
         /\ UNCHANGED shut => shut' \subseteq Modes
         /\ UNCHANGED fin => fin' \in BOOLEAN
         /\ UNCHANGED present => present' \in BOOLEAN
         /\ UNCHANGED events => events' \subseteq Modes
         /\ UNCHANGED inputs => inputs' \in 0 .. MaxInputs
         /\ UNCHANGED unread => unread' \in Nat
  BY DEF TypeOK, outVars

LEMMA PhaseTypes == \A p \in {"poll", "read", "write", "drain", "timers", "spinning"} : p \in Phases
  BY DEF Phases

LEMMA InputsType ==
  ASSUME TypeOK, inputs < MaxInputs, inputs' = inputs + 1
  PROVE  inputs' \in 0 .. MaxInputs
<1>1. inputs \in 0 .. MaxInputs
  BY DEF TypeOK
<1> QED  BY <1>1, BoundTypes

LEMMA OthersType ==
  ASSUME TypeOK, OthersStep \/ PeerReads
  PROVE  TypeOK'
<1>1. CASE PeerSends
  <2>1. inputs' \in 0 .. MaxInputs
    BY <1>1, InputsType DEF PeerSends
  <2>2. edge' \in BOOLEAN
    BY <1>1 DEF PeerSends, Happens, TypeOK
  <2>3. unread \in Nat
    BY DEF TypeOK
  <2>4. unread' \in Nat
    BY <1>1, <2>3 DEF PeerSends
  <2> QED  BY <1>1, <2>1, <2>2, <2>4 DEF PeerSends, Env, TypeOK
<1>2. CASE PeerCloses
  BY <1>2 DEF PeerCloses, Env, Happens, TypeOK
<1>3. CASE PeerResets
  BY <1>3 DEF PeerResets, Env, Happens, TypeOK
<1>4. ASSUME NEW msg \in Requests, Post(msg)  PROVE TypeOK'
  <2>1. inputs' \in 0 .. MaxInputs
    BY <1>4, InputsType DEF Post
  <2>2. queue' \in Seq(Message)
    BY <1>4, RequestAssumption, MessageTypes, AppendMessage DEF Post, TypeOK
  <2> QED  BY <1>4, <2>1, <2>2 DEF Post, ioVars, outVars, socketVars, TypeOK
<1>5. CASE PeerReads
  <2>1. room' \in 0 .. Room
    BY <1>5, BoundTypes DEF PeerReads
  <2>2. edge' \in BOOLEAN
    BY <1>5 DEF PeerReads, Happens, TypeOK
  <2> QED  BY <1>5, <2>1, <2>2 DEF PeerReads, Env, socketVars, TypeOK
<1> QED  BY <1>1, <1>2, <1>3, <1>4, <1>5 DEF OthersStep

LEMMA ReadType ==
  ASSUME TypeOK, ReadBlocks \/ ReadEof \/ ReadError
  PROVE  TypeOK'
<1>1. CASE ReadBlocks
  <2>1. IoTypes /\ OutTypes /\ shut' \subseteq Modes
    BY <1>1, CallbackType, PhaseTypes DEF ReadBlocks, TypeOK
  <2>2. unread' \in Nat /\ UNCHANGED <<present, events, inputs, fin>>
    BY <1>1 DEF ReadBlocks
  <2> QED  BY <2>1, <2>2, QuietTypes, TypeFromParts
<1>2. CASE ReadEof
  <2>1. IoTypes
    BY <1>2, DisableIoType, PhaseTypes DEF ReadEof
  <2>2. queue' \in Seq(Message)
    BY <1>2, MessageTypes, AppendMessage DEF ReadEof, TypeOK
  <2>3. unread' \in Nat /\ UNCHANGED <<present, outVars, events, inputs, fin, rst, shut>>
    BY <1>2 DEF ReadEof
  <2>4. OutTypes
    BY <2>2, <2>3, QuietTypes DEF OutTypes
  <2> QED  BY <2>1, <2>3, <2>4, QuietTypes, TypeFromParts
<1>3. CASE ReadError
  <2>1. IoTypes
    BY <1>3, KeepIoType, PhaseTypes DEF ReadError
  <2>2. rst' \in {"no", "new", "told"} /\ unread' \in Nat
    BY <1>3 DEF ReadError, Told
  <2>3. UNCHANGED <<present, outVars, queue, events, inputs, fin, shut>>
    BY <1>3 DEF ReadError
  <2>4. OutTypes
    BY <2>2, <2>3, QuietTypes DEF OutTypes
  <2> QED  BY <2>1, <2>2, <2>3, <2>4, QuietTypes, TypeFromParts
<1> QED  BY <1>1, <1>2, <1>3

LEMMA WriteType ==
  ASSUME TypeOK, WriteOutput \/ WriteError
  PROVE  TypeOK'
<1>0. output \in Seq(Nat) /\ given \in Nat
  BY OutputTypes
<1>1. CASE WriteOutput
  <2>1. wire' \in Seq(Nat) /\ room' \in 0 .. Room /\ output' \in Seq(Nat)
    BY <1>0, <1>1, SocketTakesType, RestType DEF WriteOutput
  <2>2. IoTypes
    <3>1. DisableIo({"W"}, "drain") \/ KeepIo("drain")
      BY <1>1 DEF WriteOutput
    <3>2. {"W"} \in SUBSET Modes
      BY DEF Modes
    <3> QED  BY <3>1, <3>2, DisableIoType, KeepIoType, PhaseTypes
  <2>3. queue' \in Seq(Message)
    BY <1>1, MessageTypes, AppendMessage DEF WriteOutput, TypeOK
  <2>4. UNCHANGED <<present, given, events, inputs, unread, fin, rst, shut>>
    BY <1>1 DEF WriteOutput, socketVars
  <2>5. OutTypes
    BY <1>0, <2>1, <2>3, <2>4, QuietTypes DEF OutTypes
  <2> QED  BY <2>2, <2>4, <2>5, QuietTypes, TypeFromParts
<1>2. CASE WriteError
  <2>1. UNCHANGED <<present, given, queue, events, inputs, unread, fin, shut>> /\ KeepIo("spinning")
    BY <1>2 DEF WriteError
  <2>2. IoTypes
    BY <2>1, KeepIoType, PhaseTypes
  <2>3. rst' \in {"no", "new", "told"}
    BY <1>2 DEF WriteError, Told, TypeOK
  <2>4. wire' \in Seq(Nat) /\ room' \in 0 .. Room /\ output' \in Seq(Nat)
    <3>1. CASE UNCHANGED <<output, wire, room>>
      BY <3>1 DEF TypeOK
    <3>2. CASE SocketTakes(output) /\ output' = Rest(output)
      BY <1>0, <3>2, SocketTakesType, RestType
    <3> QED  BY <1>2, <3>1, <3>2 DEF WriteError
  <2>5. OutTypes
    BY <1>0, <2>1, <2>3, <2>4, QuietTypes DEF OutTypes
  <2> QED  BY <2>1, <2>2, <2>5, QuietTypes, TypeFromParts
<1> QED  BY <1>1, <1>2

LEMMA PollType ==
  ASSUME TypeOK, Poll \/ NotReady \/ DrainEmpty \/ TimersDone
  PROVE  TypeOK'
<1>1. CASE Poll
  BY <1>1 DEF Poll, TypeOK, Readiness, outVars, socketVars
<1>2. CASE NotReady
  BY <1>2 DEF NotReady, KeepIo, ioVars, TypeOK, outVars, socketVars
<1>3. CASE DrainEmpty
  BY <1>3 DEF DrainEmpty, KeepIo, ioVars, TypeOK, outVars, socketVars
<1>4. CASE TimersDone
  BY <1>4 DEF TimersDone, KeepIo, ioVars, TypeOK, outVars, socketVars
<1> QED  BY <1>1, <1>2, <1>3, <1>4

HandleCallback == HandleWriteComplete \/ HandleSetContext
HandleIo == HandleEnable \/ HandleDisable \/ HandleStop

LEMMA DrainType ==
  ASSUME TypeOK,
         HandleForNobody \/ HandleWrite \/ HandleCallback \/ HandleIo \/ HandleShutdown \/ HandleRemoved
  PROVE  TypeOK'
<1>1. CASE HandleForNobody
  <2>1. queue' \in Seq(Message) /\ IoTypes
    BY <1>1, TakesType, KeepIoType, PhaseTypes DEF HandleForNobody
  <2>2. UNCHANGED <<present, outVars, events, inputs, unread, fin, rst, shut>>
    BY <1>1 DEF HandleForNobody, socketVars
  <2> QED  BY <2>1, <2>2, QuietTypes, TypeFromParts DEF OutTypes
<1>2. CASE HandleWrite
  <2>1. Head(queue) \in Message /\ Tail(queue) \in Seq(Message) /\ Head(queue).kind = "write"
    BY <1>2, TakesType DEF HandleWrite, Takes
  <2>2. Head(queue).size \in Sizes
    BY <2>1 DEF Message, Request, Write, Shutdown, SetContext, Stop, Enable, Disable,
                WriteComplete, Removed
  <2>3. IoTypes /\ OutTypes
    BY <1>2, <2>1, <2>2, SendType, PhaseTypes DEF HandleWrite
  <2>4. UNCHANGED <<present, events, inputs, unread, fin, shut>>
    BY <1>2 DEF HandleWrite
  <2> QED  BY <2>3, <2>4, QuietTypes, TypeFromParts
<1>3. CASE HandleCallback
  <2>1. Tail(queue) \in Seq(Message)
    BY <1>3, TakesType DEF HandleCallback, HandleWriteComplete, HandleSetContext
  <2>2. UNCHANGED <<present, events, inputs, unread, fin>>
    BY <1>3 DEF HandleCallback, HandleWriteComplete, HandleSetContext
  <2>3. CASE Callback(Tail(queue), "drain")
    BY <2>1, <2>2, <2>3, CallbackType, PhaseTypes, QuietTypes, TypeFromParts
  <2>4. CASE queue' = Tail(queue) /\ UNCHANGED <<outVars, rst, shut>> /\ DisableIo({"W"}, "drain")
    <3>1. {"W"} \in SUBSET Modes
      BY DEF Modes
    <3>2. IoTypes
      BY <2>4, <3>1, DisableIoType, PhaseTypes
    <3> QED  BY <2>1, <2>2, <2>4, <3>2, QuietTypes, TypeFromParts DEF OutTypes
  <2> QED  BY <1>3, <2>3, <2>4 DEF HandleCallback, HandleWriteComplete, HandleSetContext
<1>4. CASE HandleIo
  <2>1. Head(queue) \in Message /\ Tail(queue) \in Seq(Message)
    BY <1>4, TakesType DEF HandleIo, HandleEnable, HandleDisable, HandleStop
  <2>2. Head(queue).kind \in {"enable", "disable"} => Head(queue).modes \in SUBSET Modes
    BY <2>1 DEF Message, Request, Write, Shutdown, SetContext, Stop, Enable, Disable,
                WriteComplete, Removed
  <2>3. IoTypes
    <3>1. CASE HandleEnable
      BY <2>2, <3>1, EnableIoType, PhaseTypes DEF HandleEnable, Takes
    <3>2. CASE HandleDisable
      BY <2>2, <3>2, DisableIoType, PhaseTypes DEF HandleDisable, Takes
    <3>3. CASE HandleStop
      BY <3>3, DisableIoType, PhaseTypes DEF HandleStop
    <3> QED  BY <1>4, <3>1, <3>2, <3>3 DEF HandleIo
  <2>4. UNCHANGED <<present, outVars, events, inputs, unread, fin, rst, shut>>
        /\ queue' = Tail(queue)
    BY <1>4 DEF HandleIo, HandleEnable, HandleDisable, HandleStop, socketVars
  <2> QED  BY <2>1, <2>3, <2>4, QuietTypes, TypeFromParts DEF OutTypes
<1>5. CASE HandleShutdown
  <2>1. queue' \in Seq(Message)
    BY <1>5, TakesType DEF HandleShutdown
  <2>2. IoTypes /\ shut' \subseteq Modes
    <3>1. "drain" \in Phases
      BY PhaseTypes
    <3>2. CASE KeepIo("drain") /\ UNCHANGED shut
      BY <3>1, <3>2, KeepIoType, QuietTypes
    <3>3. CASE ShutDown(Head(queue).sides, "drain")
      <4>1. Head(queue).sides \in SUBSET Modes
        BY <1>5, TakesShutdown DEF HandleShutdown
      <4> QED  BY <3>1, <3>3, <4>1, ShutDownType
    <3> QED  BY <1>5, <3>2, <3>3 DEF HandleShutdown
  <2>3. UNCHANGED <<present, outVars, events, inputs, unread, fin, rst>>
    BY <1>5 DEF HandleShutdown
  <2> QED  BY <2>1, <2>2, <2>3, QuietTypes, TypeFromParts DEF OutTypes
<1>6. CASE HandleRemoved
  <2>1. queue' \in Seq(Message)
    BY <1>6, TakesType DEF HandleRemoved
  <2>2. IoTypes /\ present' \in BOOLEAN
    BY <1>6 DEF HandleRemoved, IoTypes, Phases
  <2>3. UNCHANGED <<outVars, events, inputs, unread, fin, rst, shut>>
    BY <1>6 DEF HandleRemoved, socketVars
  <2> QED  BY <2>1, <2>2, <2>3, QuietTypes, TypeFromParts DEF OutTypes
<1> QED  BY <1>1, <1>2, <1>3, <1>4, <1>5, <1>6

LEMMA TimerType ==
  ASSUME TypeOK, TimerFires
  PROVE  TypeOK'
<1>1. IoTypes /\ OutTypes /\ shut' \subseteq Modes
  BY CallbackType, PhaseTypes DEF TimerFires, TypeOK
<1>2. inputs' \in 0 .. MaxInputs
  BY InputsType DEF TimerFires
<1>3. UNCHANGED <<present, events, unread, fin>>
  BY DEF TimerFires
<1> QED  BY <1>1, <1>2, <1>3, QuietTypes, TypeFromParts

LEMMA TypeNext == TypeOK /\ [Next]_vars => TypeOK'
<1> SUFFICES ASSUME TypeOK, [Next]_vars  PROVE TypeOK'
  OBVIOUS
<1>1. CASE Next
  BY <1>1, OthersType, ReadType, WriteType, PollType, DrainType, TimerType
     DEF Next, LoopStep, HandleCallback, HandleIo
<1>2. CASE UNCHANGED vars
  BY <1>2 DEF vars, ioVars, outVars, socketVars, TypeOK
<1> QED  BY <1>1, <1>2

\* The connection, its socket and the loop keep their types.
THEOREM TypeCorrect == Spec => []TypeOK
  BY TypeInit, TypeNext, PTL DEF Spec

----------------------------------------------------------------------------
(* The bytes *)

Counts(s) == s = [i \in 1 .. Len(s) |-> i]

LEMMA CountsByIndex ==
  ASSUME NEW s \in Seq(Nat)
  PROVE  Counts(s) <=> \A i \in 1 .. Len(s) : s[i] = i
<1>1. s \in [1 .. Len(s) -> Nat]
  BY LenProperties
<1> QED  BY <1>1 DEF Counts

\* The bytes up to any point are in order if all are.
LEMMA CountsPrefix ==
  ASSUME NEW s \in Seq(Nat), NEW t \in Seq(Nat), Counts(s \o t)
  PROVE  Counts(s)
<1>1. s \o t \in Seq(Nat) /\ Len(s \o t) = Len(s) + Len(t) /\ Len(s) \in Nat /\ Len(t) \in Nat
  BY ConcatProperties, LenProperties
<1>2. ASSUME NEW i \in 1 .. Len(s)  PROVE s[i] = i
  <2>1. i \in 1 .. Len(s \o t) /\ (s \o t)[i] = s[i]
    BY <1>1, ConcatProperties
  <2> QED  BY <1>1, <2>1, CountsByIndex
<1> QED  BY <1>2, CountsByIndex

\* The bytes that send is given come next.
LEMMA CountsGrows ==
  ASSUME NEW s \in Seq(Nat), NEW n \in Nat, Counts(s)
  PROVE  LET data == [i \in 1 .. n |-> Len(s) + i]
         IN  Counts(s \o data) /\ Len(s \o data) = Len(s) + n
<1> DEFINE data == [i \in 1 .. n |-> Len(s) + i]
<1>0. Len(s) \in Nat
  BY LenProperties
<1>1. data \in Seq(Nat) /\ Len(data) = n /\ \A i \in 1 .. n : data[i] = Len(s) + i
  BY <1>0
<1> HIDE DEF data
<1>2. s \o data \in Seq(Nat) /\ Len(s \o data) = Len(s) + Len(data)
  BY <1>1, ConcatProperties
<1>3. ASSUME NEW i \in 1 .. Len(s \o data)  PROVE (s \o data)[i] = i
  <2>0. i \in 1 .. Len(s) + Len(data)
    BY <1>2
  <2>1. (s \o data)[i] = IF i <= Len(s) THEN s[i] ELSE data[i - Len(s)]
    BY <1>1, <2>0, ConcatProperties
  <2>2. CASE i <= Len(s)
    <3>1. i \in 1 .. Len(s)
      BY <1>0, <1>1, <2>0, <2>2
    <3> QED  BY <2>1, <2>2, <3>1, CountsByIndex
  <2>3. CASE ~(i <= Len(s))
    <3>1. i - Len(s) \in 1 .. n /\ Len(s) + (i - Len(s)) = i
      BY <1>0, <1>1, <2>0, <2>3
    <3> QED  BY <1>1, <2>1, <2>3, <3>1
  <2> QED  BY <2>2, <2>3
<1>4. Counts(s \o data)
  BY <1>2, <1>3, CountsByIndex
<1> QED  BY <1>1, <1>2, <1>4 DEF data

\* What the socket takes and what it leaves are the data.
LEMMA RestOfData ==
  ASSUME TypeOK, NEW data \in Seq(Nat)
  PROVE  SubSeq(data, 1, Least(room, Len(data))) \o Rest(data) = data
<1>1. room \in Nat /\ Len(data) \in Nat
  BY OutputTypes, LenProperties
<1>2. CASE room < Len(data)
  <2>1. Least(room, Len(data)) = room
    BY <1>1, <1>2 DEF Least
  <2>2. 1 \in 1 .. Len(data) + 1 /\ room \in 1 - 1 .. Len(data) /\ Len(data) \in room .. Len(data)
    BY <1>1, <1>2
  <2>3. SubSeq(data, 1, room) \o SubSeq(data, room + 1, Len(data)) = SubSeq(data, 1, Len(data))
    BY <2>2, ConcatAdjacentSubSeq
  <2> QED  BY <2>1, <2>3, SubSeqFull DEF Rest
<1>3. CASE ~(room < Len(data))
  <2>1. Least(room, Len(data)) = Len(data)
    BY <1>1, <1>3 DEF Least
  <2>2. Rest(data) = <<>>
    BY <1>1, <1>3, SubSeqEmpty DEF Rest
  <2>3. SubSeq(data, 1, Len(data)) = data /\ data \o <<>> = data
    BY SubSeqFull, ConcatEmptySeq
  <2> QED  BY <2>1, <2>2, <2>3
<1> QED  BY <1>2, <1>3

\* A write keeps the bytes in order, however much of them the socket takes.
LEMMA SocketTakesInOrder ==
  ASSUME TypeOK, NEW data \in Seq(Nat), SocketTakes(data), Counts(wire \o data)
  PROVE  Counts(wire') /\ wire' \o Rest(data) = wire \o data
<1> DEFINE taken == SubSeq(data, 1, Least(room, Len(data)))
<1>1. room \in Nat /\ Len(data) \in Nat /\ wire \in Seq(Nat)
  BY OutputTypes, LenProperties
<1>2. Least(room, Len(data)) \in 0 .. Len(data)
  BY <1>1 DEF Least
<1>3. taken \in Seq(Nat)
  BY <1>1, <1>2, SubSeqProperties
<1>4. taken \o Rest(data) = data /\ wire' = wire \o taken
  BY RestOfData DEF SocketTakes
<1>5. Rest(data) \in Seq(Nat)
  BY RestType
<1> HIDE DEF taken
<1>6. wire \o taken \in Seq(Nat)
  BY <1>1, <1>3, ConcatProperties
<1>7. (wire \o taken) \o Rest(data) = wire \o (taken \o Rest(data))
  BY SMTT(30), <1>1, <1>3, <1>5, ConcatAssociative
<1>8. wire' \in Seq(Nat) /\ wire' \o Rest(data) = wire \o data
  BY <1>4, <1>6, <1>7
<1> QED  BY <1>5, <1>8, CountsPrefix

LEMMA IntegrityMeans ==
  StreamIntegrity <=> /\ Counts(wire)
                      /\ rst = "no" => wire \o output = [i \in 1 .. given |-> i]
  BY DEF StreamIntegrity, Counts

LEMMA IntegrityInit == Init => StreamIntegrity
<1> SUFFICES ASSUME Init  PROVE StreamIntegrity
  OBVIOUS
<1>1. wire = <<>> /\ output = <<>> /\ given = 0 /\ Len(<<>>) = 0 /\ <<>> \o <<>> = <<>>
  BY DEF Init
<1>2. <<>> = [i \in 1 .. 0 |-> i]
  OBVIOUS
<1> QED  BY <1>1, <1>2 DEF StreamIntegrity

LEMMA AllCounts ==
  ASSUME TypeOK, wire \o output = [i \in 1 .. given |-> i]
  PROVE  Counts(wire \o output) /\ Len(wire \o output) = given
<1>1. Len([i \in 1 .. given |-> i]) = given
  BY OutputTypes
<1> QED  BY <1>1 DEF Counts

LEMMA SendIntegrity ==
  ASSUME TypeOK, StreamIntegrity, NEW n \in Sizes, NEW q, NEW then, Send(n, q, then)
  PROVE  StreamIntegrity'
<1> DEFINE data == [i \in 1 .. n |-> given + i]
<1>1. data \in Seq(Nat) /\ Len(data) = n /\ n \in Nat
  BY NewBytesType
<1>2. wire \in Seq(Nat) /\ output \in Seq(Nat) /\ given \in Nat
  BY OutputTypes
<1>3. wire \o output \in Seq(Nat)
  BY <1>2, ConcatProperties
<1>4. ASSUME rst = "no"  PROVE wire \o (output \o data) = [i \in 1 .. given + n |-> i]
  <2>1. Counts(wire \o output) /\ Len(wire \o output) = given
    <3>1. wire \o output = [i \in 1 .. given |-> i]
      BY <1>4 DEF StreamIntegrity
    <3> QED  BY <1>2, <3>1, AllCounts
  <2>2. Counts((wire \o output) \o data) /\ Len((wire \o output) \o data) = given + n
    BY <1>1, <1>3, <2>1, CountsGrows
  <2>3. (wire \o output) \o data = [i \in 1 .. given + n |-> i]
    BY <2>2 DEF Counts
  <2>4. (wire \o output) \o data = wire \o (output \o data)
    BY <1>1, <1>2, ConcatAssociative
  <2> QED  BY <2>3, <2>4
<1> HIDE DEF data
<1>6. given' = given + n
  BY DEF Send
<1>7. CASE /\ output' = output \o data
           /\ UNCHANGED wire
           /\ rst' = "no" => rst = "no"
  <2>1. rst' = "no" => wire' \o output' = [i \in 1 .. given' |-> i]
    BY <1>4, <1>6, <1>7
  <2> QED  BY <1>7, <2>1 DEF StreamIntegrity
<1>8. CASE output = <<>> /\ ~WriteFails /\ SocketTakes(data)
           /\ (rst' = "no" => output' = Rest(data))
  <2>1. output \o data = data
    BY <1>1, <1>8, ConcatEmptySeq
  <2>2. wire \o data = [i \in 1 .. given + n |-> i]
    BY <1>4, <1>8, <2>1 DEF WriteFails
  <2>3. Counts(wire \o data)
    <3>1. Len([i \in 1 .. given + n |-> i]) = given + n
      BY <1>1, <1>2
    <3> QED  BY <2>2, <3>1 DEF Counts
  <2>4. Counts(wire') /\ wire' \o Rest(data) = wire \o data
    BY <1>1, <1>8, <2>3, SocketTakesInOrder
  <2>5. rst' = "no" => wire' \o output' = [i \in 1 .. given' |-> i]
    BY <1>6, <1>8, <2>2, <2>4
  <2> QED  BY <2>4, <2>5 DEF StreamIntegrity, Counts
<1> QED  BY <1>7, <1>8 DEF Send, Told, data

LEMMA QuietIntegrity ==
  ASSUME StreamIntegrity, UNCHANGED outVars, rst' = "no" => rst = "no"
  PROVE  StreamIntegrity'
  BY DEF StreamIntegrity, outVars

LEMMA CallbackIntegrity ==
  ASSUME TypeOK, StreamIntegrity, NEW q, NEW then, Callback(q, then)
  PROVE  StreamIntegrity'
  BY SendIntegrity, QuietIntegrity DEF Callback

LEMMA WriteIntegrity ==
  ASSUME TypeOK, StreamIntegrity, WriteOutput \/ WriteError
  PROVE  StreamIntegrity'
<1>1. output \in Seq(Nat) /\ given' = given
  BY OutputTypes DEF WriteOutput, WriteError
<1>2. CASE UNCHANGED <<output, wire, room>> /\ rst' = Told
  BY <1>1, <1>2, QuietIntegrity DEF outVars, Told
<1>3. CASE ~WriteFails /\ SocketTakes(output) /\ output' = Rest(output)
  <2>1. wire \o output = [i \in 1 .. given |-> i]
    BY <1>3 DEF StreamIntegrity, WriteFails
  <2>2. Counts(wire') /\ wire' \o output' = wire \o output
    BY <1>1, <1>3, <2>1, AllCounts, SocketTakesInOrder
  <2> QED  BY <1>1, <2>1, <2>2 DEF StreamIntegrity, Counts
<1> QED  BY <1>2, <1>3 DEF WriteOutput, WriteError

LEMMA IntegrityNext == TypeOK /\ StreamIntegrity /\ [Next]_vars => StreamIntegrity'
<1> SUFFICES ASSUME TypeOK, StreamIntegrity, [Next]_vars  PROVE StreamIntegrity'
  OBVIOUS
<1>1. CASE OthersStep
  <2>1. UNCHANGED <<output, given, wire>> /\ (rst' = "no" => rst = "no")
    BY <1>1 DEF OthersStep, PeerSends, PeerCloses, PeerResets, Post, Env, outVars, socketVars
  <2> QED  BY <2>1 DEF StreamIntegrity
<1>2. CASE PeerReads
  <2>1. UNCHANGED <<output, given, wire>> /\ (rst' = "no" => rst = "no")
    BY <1>2 DEF PeerReads, Env, socketVars
  <2> QED  BY <2>1 DEF StreamIntegrity
<1>3. CASE ReadBlocks \/ HandleWriteComplete \/ HandleSetContext \/ TimerFires
  <2>1. (\E q, then : Callback(q, then)) \/ UNCHANGED <<outVars, rst>>
    BY <1>3 DEF ReadBlocks, HandleWriteComplete, HandleSetContext, TimerFires
  <2> QED  BY <2>1, CallbackIntegrity, QuietIntegrity
<1>4. CASE WriteOutput \/ WriteError
  BY <1>4, WriteIntegrity
<1>5. CASE HandleWrite
  <2>1. Head(queue) \in Message /\ Head(queue).kind = "write"
    BY <1>5, TakesType DEF HandleWrite, Takes
  <2>2. Head(queue).size \in Sizes
    BY <2>1 DEF Message, Request, Write, Shutdown, SetContext, Stop, Enable, Disable,
                WriteComplete, Removed
  <2> QED  BY <1>5, <2>2, SendIntegrity DEF HandleWrite
<1>6. CASE \/ Poll \/ ReadEof \/ ReadError \/ NotReady \/ HandleForNobody \/ HandleEnable \/ HandleDisable
           \/ HandleShutdown \/ HandleRemoved \/ HandleStop \/ DrainEmpty \/ TimersDone
  <2>1. UNCHANGED outVars /\ (rst' = "no" => rst = "no")
    BY <1>6 DEF Poll, ReadEof, ReadError, Told, NotReady, HandleForNobody, HandleEnable, HandleDisable,
                HandleShutdown, HandleRemoved, HandleStop, DrainEmpty, TimersDone, socketVars
  <2> QED  BY <2>1, QuietIntegrity
<1>7. CASE UNCHANGED vars
  BY <1>7, QuietIntegrity DEF vars, socketVars
<1> QED  BY <1>1, <1>2, <1>3, <1>4, <1>5, <1>6, <1>7 DEF Next, LoopStep

\* The peer gets the bytes in order, whatever sizes the socket takes, whenever
\* it resets, and whoever sends.
THEOREM StreamKept == Spec => []StreamIntegrity
<1>1. Init => TypeOK /\ StreamIntegrity
  BY TypeInit, IntegrityInit
<1>2. (TypeOK /\ StreamIntegrity) /\ [Next]_vars => (TypeOK /\ StreamIntegrity)'
  BY TypeNext, IntegrityNext
<1> QED  BY <1>1, <1>2, PTL DEF Spec

----------------------------------------------------------------------------
(* The interests and the selector *)

\* A Removed is on its way.
Awaits(q) == \E i \in 1 .. Len(q) : q[i] = Removed
Once(q) == \A i, j \in 1 .. Len(q) : q[i] = Removed /\ q[j] = Removed => i = j

\* The interests agree; and there is one Removed at most, whose connection is
\* there and does not read any more when the loop polls: only in the drain in
\* which the Removed is handled may a message before it ask for input again.
AgreeInv ==
  /\ InterestsAgree
  /\ Once(queue)
  /\ Awaits(queue) => present
  /\ ~present => interests = {}
  /\ Awaits(queue) => /\ phase \in {"poll", "read", "write", "timers"} => "R" \notin interests
                      /\ phase = "read" => "R" \notin events

LEMMA AwaitsAppend ==
  ASSUME NEW q \in Seq(Message), NEW msg \in Message
  PROVE  /\ msg # Removed => /\ Awaits(Append(q, msg)) <=> Awaits(q)
                             /\ Once(Append(q, msg)) <=> Once(q)
         /\ ~Awaits(q) => Once(Append(q, msg))
<1>1. /\ Len(Append(q, msg)) = Len(q) + 1 /\ Len(q) \in Nat
      /\ \A i \in 1 .. Len(q) : Append(q, msg)[i] = q[i]
      /\ Append(q, msg)[Len(q) + 1] = msg
  BY AppendProperties, LenProperties
<1>2. \A i \in 1 .. Len(q) + 1 : i \in 1 .. Len(q) \/ i = Len(q) + 1
  BY <1>1
<1>3. \A i \in 1 .. Len(q) : i \in 1 .. Len(q) + 1
  BY <1>1
<1> DEFINE a == Append(q, msg)
<1> HIDE DEF a
<1> QED  BY <1>1, <1>2, <1>3 DEF Awaits, Once, a

LEMMA AwaitsTail ==
  ASSUME NEW q \in Seq(Message), q # <<>>, Once(q)
  PROVE  /\ Once(Tail(q))
         /\ Awaits(Tail(q)) => Awaits(q) /\ Head(q) # Removed
         /\ Head(q) = Removed => Awaits(q)
<1>1. /\ Len(Tail(q)) = Len(q) - 1 /\ Len(q) \in Nat /\ Len(q) > 0
      /\ \A i \in 1 .. Len(Tail(q)) : Tail(q)[i] = q[i + 1]
      /\ Head(q) = q[1]
  BY HeadTailProperties, LenProperties, EmptySeq
<1>2. \A i \in 1 .. Len(Tail(q)) : i + 1 \in 1 .. Len(q) /\ i + 1 # 1
  BY <1>1
<1>3. 1 \in 1 .. Len(q)
  BY <1>1
<1>4. \A i, j \in 1 .. Len(Tail(q)) : i + 1 = j + 1 => i = j
  BY <1>1
<1> DEFINE r == Tail(q)
<1> HIDE DEF r
<1> QED  BY <1>1, <1>2, <1>3, <1>4 DEF Awaits, Once, r

LEMMA OthersAreNotRemoved ==
  /\ WriteComplete # Removed
  /\ \A msg \in Request : msg # Removed
  /\ \A msg \in Message : msg.kind = "removed" => msg = Removed
<1>1. WriteComplete.kind # "removed" /\ Removed.kind = "removed"
  BY DEF WriteComplete, Removed
<1>2. \A msg \in Request : msg.kind # "removed"
  BY DEF Request, Write, Shutdown, SetContext, Stop, Enable, Disable
<1> QED  BY <1>1, <1>2 DEF Message

\* Handlers keep the interests and the selector together.
Together(modes, then) == /\ interests' = modes /\ reg' = modes /\ phase' = then
                         /\ \/ edge' = (Readiness' \cap reg' # {})
                            \/ UNCHANGED <<reg, edge>>

LEMMA EnableIoAgrees ==
  ASSUME interests = reg, NEW modes, NEW then, EnableIo(modes, then)
  PROVE  Together(interests \cup modes, then) /\ edge' = (Readiness' \cap reg' # {})
  BY DEF EnableIo, SetInterests, Together

LEMMA DisableIoAgrees ==
  ASSUME interests = reg, NEW modes, NEW then, DisableIo(modes, then)
  PROVE  Together(interests \ modes, then)
<1>1. CASE interests = {}
  BY <1>1 DEF DisableIo, KeepIo, ioVars, Together
<1>2. CASE interests # {}
  BY <1>2 DEF DisableIo, SetInterests, Together
<1> QED  BY <1>1, <1>2

LEMMA KeepIoAgrees ==
  ASSUME interests = reg, NEW then, KeepIo(then)
  PROVE  Together(interests, then)
  BY DEF KeepIo, ioVars, Together

\* What a callback may do to the connection and to the channel.
Harmless(q, then) ==
  /\ interests' = reg' /\ phase' \in {then, "no peer"}
  /\ interests' \in {interests, interests \cup {"W"}}
  /\ Awaits(queue') <=> Awaits(q)
  /\ Once(queue') <=> Once(q)

LEMMA SendAgrees ==
  ASSUME interests = reg, NEW n, NEW q \in Seq(Message), NEW then, Send(n, q, then)
  PROVE  Harmless(q, then)
<1>1. queue' \in {q, Append(q, WriteComplete)}
  BY DEF Send
<1>2. (Awaits(queue') <=> Awaits(q)) /\ (Once(queue') <=> Once(q))
  BY <1>1, AwaitsAppend, OthersAreNotRemoved, MessageTypes
<1>3. KeepIo(then) \/ EnableIo({"W"}, then)
  BY DEF Send
<1>4. Together(interests, then) \/ Together(interests \cup {"W"}, then)
  BY <1>3, KeepIoAgrees, EnableIoAgrees
<1>5. interests' = reg' /\ phase' = then /\ interests' \in {interests, interests \cup {"W"}}
  BY <1>4 DEF Together
<1> QED  BY <1>2, <1>5 DEF Harmless

LEMMA CallbackAgrees ==
  ASSUME interests = reg, NEW q \in Seq(Message), NEW then, Callback(q, then)
  PROVE  Harmless(q, then)
<1>1. CASE queue' = q /\ KeepIo(then)
  BY <1>1 DEF KeepIo, ioVars, Harmless
<1>2. ASSUME NEW n \in Sizes, Send(n, q, then)  PROVE Harmless(q, then)
  BY <1>2, SendAgrees
<1>3. CASE queue' = q /\ ShutDown({"W"}, then)
  BY <1>3 DEF ShutDown, KeepIo, ioVars, Harmless
<1> QED  BY <1>1, <1>2, <1>3 DEF Callback

LEMMA AgreeInit == Init => AgreeInv
<1> SUFFICES ASSUME Init  PROVE AgreeInv
  OBVIOUS
<1>1. queue = <<>> /\ 1 .. Len(<<>>) = {}
  BY DEF Init
<1>2. ~Awaits(queue) /\ Once(queue)
  BY <1>1 DEF Awaits, Once
<1> QED  BY <1>2 DEF Init, AgreeInv, InterestsAgree

LEMMA OthersAgree ==
  ASSUME TypeOK, AgreeInv, OthersStep \/ PeerReads
  PROVE  AgreeInv'
<1>1. UNCHANGED <<interests, reg, present, phase, events>>
  BY DEF OthersStep, PeerSends, PeerCloses, PeerResets, Post, PeerReads, Env, ioVars
<1>2. (Awaits(queue') <=> Awaits(queue)) /\ (Once(queue') <=> Once(queue))
  <2>1. CASE UNCHANGED queue
    BY <2>1
  <2>2. ASSUME NEW msg \in Requests, Post(msg)
        PROVE  (Awaits(queue') <=> Awaits(queue)) /\ (Once(queue') <=> Once(queue))
    <3>1. queue' = Append(queue, msg) /\ queue \in Seq(Message) /\ msg \in Message /\ msg # Removed
      BY <2>2, RequestAssumption, MessageTypes, OthersAreNotRemoved DEF Post, TypeOK
    <3> QED  BY <3>1, AwaitsAppend
  <2> QED  BY <2>1, <2>2 DEF OthersStep, PeerSends, PeerCloses, PeerResets, PeerReads, Env
<1> QED  BY <1>1, <1>2 DEF AgreeInv, InterestsAgree

LEMMA PhasesAgree ==
  ASSUME TypeOK, AgreeInv, Poll \/ NotReady \/ DrainEmpty \/ TimersDone
  PROVE  AgreeInv'
<1>1. CASE Poll
  BY <1>1 DEF Poll, AgreeInv, InterestsAgree
<1>2. CASE NotReady
  BY <1>2 DEF NotReady, KeepIo, ioVars, AgreeInv, InterestsAgree
<1>3. CASE DrainEmpty
  <2>1. 1 .. Len(queue) = {}
    BY <1>3 DEF DrainEmpty
  <2> QED  BY <1>3, <2>1 DEF DrainEmpty, KeepIo, ioVars, AgreeInv, InterestsAgree, Awaits, Once
<1>4. CASE TimersDone
  BY <1>4 DEF TimersDone, KeepIo, ioVars, AgreeInv, InterestsAgree
<1> QED  BY <1>1, <1>2, <1>3, <1>4

LEMMA IoAgrees ==
  ASSUME TypeOK, AgreeInv, ReadBlocks \/ ReadEof \/ ReadError \/ WriteOutput \/ WriteError
  PROVE  AgreeInv'
<1>0. interests = reg /\ queue \in Seq(Message)
  BY DEF AgreeInv, InterestsAgree, TypeOK
<1>1. CASE ReadBlocks
  <2>1. Harmless(queue, "write") /\ UNCHANGED <<present, events>> /\ Reading
    BY <1>0, <1>1, CallbackAgrees DEF ReadBlocks
  <2>2. ~Awaits(queue) /\ present
    BY <2>1 DEF Reading, AgreeInv
  <2> QED  BY <2>1, <2>2 DEF Harmless, AgreeInv, InterestsAgree
<1>2. CASE ReadEof
  <2>1. /\ Together(interests \ Modes, "write") /\ queue' = Append(queue, Removed)
        /\ UNCHANGED <<present, events>> /\ Reading
    BY <1>0, <1>2, DisableIoAgrees DEF ReadEof
  <2>2. ~Awaits(queue) /\ present
    BY <2>1 DEF Reading, AgreeInv
  <2>3. Once(queue')
    BY <1>0, <2>1, <2>2, AwaitsAppend, MessageTypes
  <2>4. interests' = {}
    BY <2>1 DEF Together, TypeOK
  <2> QED  BY <2>1, <2>2, <2>3, <2>4 DEF Together, AgreeInv, InterestsAgree
<1>3. CASE ReadError
  <2>1. UNCHANGED <<interests, reg, queue, present, events>> /\ phase' = "write" /\ phase = "read"
    BY <1>3 DEF ReadError, Reading, KeepIo, ioVars
  <2> QED  BY <2>1 DEF AgreeInv, InterestsAgree
<1>4. CASE WriteOutput
  <2>1. (Awaits(queue') <=> Awaits(queue)) /\ (Once(queue') <=> Once(queue))
    <3>1. queue' \in {queue, Append(queue, WriteComplete)}
      BY <1>4 DEF WriteOutput
    <3> QED  BY <1>0, <3>1, AwaitsAppend, OthersAreNotRemoved, MessageTypes
  <2>2. DisableIo({"W"}, "drain") \/ KeepIo("drain")
    BY <1>4 DEF WriteOutput
  <2>3. phase' = "drain" /\ interests' = reg' /\ UNCHANGED present /\ present
    BY <1>0, <1>4, <2>2, DisableIoAgrees, KeepIoAgrees DEF WriteOutput, Writing, Together
  <2> QED  BY <2>1, <2>3 DEF AgreeInv, InterestsAgree
<1>5. CASE WriteError
  <2>1. UNCHANGED <<interests, reg, queue, present, events>> /\ phase' = "spinning"
    BY <1>5 DEF WriteError, KeepIo, ioVars
  <2> QED  BY <2>1 DEF AgreeInv, InterestsAgree
<1> QED  BY <1>1, <1>2, <1>3, <1>4, <1>5

LEMMA DrainAgrees ==
  ASSUME TypeOK, AgreeInv,
         HandleForNobody \/ HandleWrite \/ HandleCallback \/ HandleIo \/ HandleShutdown \/ HandleRemoved
  PROVE  AgreeInv'
<1>0. interests = reg /\ queue \in Seq(Message) /\ queue # <<>> /\ Head(queue) \in Message
      /\ Tail(queue) \in Seq(Message)
  BY TakesType DEF AgreeInv, InterestsAgree, TypeOK, Takes, HandleForNobody, HandleWrite, HandleCallback,
     HandleWriteComplete, HandleSetContext, HandleIo, HandleEnable, HandleDisable, HandleStop,
     HandleShutdown, HandleRemoved
<1>t. /\ Once(Tail(queue))
      /\ Awaits(Tail(queue)) => Awaits(queue) /\ Head(queue) # Removed
      /\ Head(queue) = Removed => Awaits(queue)
  BY <1>0, AwaitsTail DEF AgreeInv
<1>1. CASE HandleForNobody
  <2>1. UNCHANGED <<interests, reg, present>> /\ phase' = "drain" /\ queue' = Tail(queue)
    BY <1>1 DEF HandleForNobody, KeepIo, ioVars
  <2> QED  BY <1>t, <2>1 DEF AgreeInv, InterestsAgree
<1>2. CASE HandleWrite \/ HandleCallback
  <2>1. UNCHANGED present /\ present
    BY <1>2 DEF HandleWrite, HandleCallback, HandleWriteComplete, HandleSetContext
  <2>2. CASE Harmless(Tail(queue), "drain")
    BY <1>t, <2>1, <2>2 DEF Harmless, AgreeInv, InterestsAgree
  <2>3. CASE queue' = Tail(queue) /\ DisableIo({"W"}, "drain")
    <3>1. Together(interests \ {"W"}, "drain")
      BY <1>0, <2>3, DisableIoAgrees
    <3> QED  BY <1>t, <2>1, <2>3, <3>1 DEF Together, AgreeInv, InterestsAgree
  <2> QED  BY <1>0, <1>2, <2>2, <2>3, SendAgrees, CallbackAgrees
           DEF HandleWrite, HandleCallback, HandleWriteComplete, HandleSetContext
<1>3. CASE HandleEnable
  <2>1. Together(interests \cup Head(queue).modes, "drain") /\ UNCHANGED present /\ present
        /\ queue' = Tail(queue)
    BY <1>0, <1>3, EnableIoAgrees DEF HandleEnable
  <2> QED  BY <1>t, <2>1 DEF Together, AgreeInv, InterestsAgree
<1>4. CASE HandleDisable
  <2>1. Together(interests \ Head(queue).modes, "drain") /\ UNCHANGED present /\ present
        /\ queue' = Tail(queue)
    BY <1>0, <1>4, DisableIoAgrees DEF HandleDisable
  <2> QED  BY <1>t, <2>1 DEF Together, AgreeInv, InterestsAgree
<1>5. CASE HandleStop
  <2>1. Together(interests \ Modes, "timers") /\ UNCHANGED present /\ queue' = Tail(queue)
    BY <1>0, <1>5, DisableIoAgrees DEF HandleStop
  <2>2. interests' = {}
    BY <2>1 DEF Together, TypeOK
  <2> QED  BY <1>t, <2>1, <2>2 DEF Together, AgreeInv, InterestsAgree
<1>6. CASE HandleShutdown
  <2>1. UNCHANGED <<interests, reg, present>> /\ phase' \in {"drain", "no peer"} /\ queue' = Tail(queue)
    BY <1>6 DEF HandleShutdown, ShutDown, KeepIo, ioVars
  <2> QED  BY <1>t, <2>1 DEF AgreeInv, InterestsAgree
<1>7. CASE HandleRemoved
  <2>1. Head(queue) = Removed
    BY <1>0, <1>7, OthersAreNotRemoved DEF HandleRemoved, Takes
  <2>2. present /\ ~Awaits(Tail(queue))
    BY <1>t, <2>1 DEF AgreeInv
  <2> QED  BY <1>t, <1>7, <2>2 DEF HandleRemoved, AgreeInv, InterestsAgree
<1> QED  BY <1>1, <1>2, <1>3, <1>4, <1>5, <1>6, <1>7 DEF HandleIo

LEMMA TimerAgrees ==
  ASSUME TypeOK, AgreeInv, TimerFires
  PROVE  AgreeInv'
<1>1. Harmless(queue, "timers") /\ UNCHANGED <<present, events>> /\ present /\ phase = "timers"
  BY CallbackAgrees DEF TimerFires, AgreeInv, InterestsAgree, TypeOK
<1> QED  BY <1>1 DEF Harmless, AgreeInv, InterestsAgree

LEMMA AgreeNext == TypeOK /\ AgreeInv /\ [Next]_vars => AgreeInv'
<1> SUFFICES ASSUME TypeOK, AgreeInv, [Next]_vars  PROVE AgreeInv'
  OBVIOUS
<1>1. CASE Next
  BY <1>1, OthersAgree, PhasesAgree, IoAgrees, DrainAgrees, TimerAgrees
     DEF Next, LoopStep, HandleCallback, HandleIo
<1>2. CASE UNCHANGED vars
  BY <1>2 DEF vars, ioVars, AgreeInv, InterestsAgree
<1> QED  BY <1>1, <1>2

LEMMA SafeInit == Init => TypeOK /\ AgreeInv
  BY TypeInit, AgreeInit

LEMMA SafeNext == (TypeOK /\ AgreeInv) /\ [Next]_vars => (TypeOK /\ AgreeInv)'
  BY TypeNext, AgreeNext

\* No register, reregister or deregister of the connection fails its expect,
\* and its slab key is removed once.
THEOREM InterestsAlwaysAgree == Spec => []InterestsAgree
<1>1. AgreeInv => InterestsAgree
  BY DEF AgreeInv
<1> QED  BY <1>1, SafeInit, SafeNext, PTL DEF Spec

----------------------------------------------------------------------------
(* Waiting output *)

LEMMA NothingRests ==
  ASSUME TypeOK, NEW data \in Seq(Nat), Len(data) <= room
  PROVE  Rest(data) = <<>>
<1>1. room \in Nat /\ Len(data) \in Nat
  BY OutputTypes, LenProperties
<1>2. Len(data) < room + 1
  BY <1>1
<1> QED  BY <1>1, <1>2, SubSeqEmpty DEF Rest

\* After a send nothing waits without the interest in writing.
LEMMA SendKeepsWriter ==
  ASSUME TypeOK, interests = reg, NEW n \in Sizes, NEW q, NEW then, Send(n, q, then)
  PROVE  ~Stranded'
<1> DEFINE data == [i \in 1 .. n |-> given + i]
<1>1. data \in Seq(Nat) /\ Len(data) = n
  BY NewBytesType
<1> HIDE DEF data
<1>2. CASE EnableIo({"W"}, then)
  <2>1. interests' = interests \cup {"W"}
    BY <1>2, EnableIoAgrees DEF Together
  <2> QED  BY <2>1 DEF Stranded
<1>3. CASE "W" \in interests /\ KeepIo(then)
  BY <1>3 DEF KeepIo, ioVars, Stranded
<1>4. CASE n <= room /\ output' = Rest(data)
  BY <1>1, <1>4, NothingRests DEF Stranded
<1> QED  BY <1>2, <1>3, <1>4 DEF Send, data

LEMMA CallbackKeepsWriter ==
  ASSUME TypeOK, AgreeInv, NEW q, NEW then, Callback(q, then), UNCHANGED present, Stranded'
  PROVE  Stranded
<1>1. CASE UNCHANGED outVars /\ UNCHANGED interests
  BY <1>1 DEF Stranded, outVars
<1>2. ASSUME NEW n \in Sizes, Send(n, q, then)  PROVE FALSE
  BY <1>2, SendKeepsWriter DEF AgreeInv, InterestsAgree
<1> QED  BY <1>1, <1>2 DEF Callback, ShutDown, KeepIo, ioVars

KeepsWriter == Stranded' => Stranded \/ HandleDisable \/ HandleStop \/ ReadEof \/ HandleWriteComplete

LEMMA WriterStep == TypeOK /\ AgreeInv /\ [Next]_vars => [KeepsWriter]_vars
<1> SUFFICES ASSUME TypeOK, AgreeInv, Next, Stranded',
                    ~(HandleDisable \/ HandleStop \/ ReadEof \/ HandleWriteComplete)
             PROVE  Stranded
  BY DEF KeepsWriter
<1>0. interests = reg
  BY DEF AgreeInv, InterestsAgree
<1>1. CASE /\ UNCHANGED <<present, output>>
           /\ interests \subseteq interests'
  BY <1>1 DEF Stranded
<1>2. CASE \/ OthersStep \/ PeerReads \/ Poll \/ ReadError \/ NotReady \/ HandleForNobody
           \/ HandleShutdown \/ DrainEmpty \/ TimersDone
  <2>1. UNCHANGED <<present, output, interests>>
    BY <1>2 DEF OthersStep, PeerSends, PeerCloses, PeerResets, Post, PeerReads, Env, Poll, ReadError,
         NotReady, HandleForNobody, HandleShutdown, ShutDown, DrainEmpty, TimersDone, KeepIo, ioVars, outVars
  <2> QED  BY <1>1, <2>1
<1>3. CASE ReadBlocks \/ HandleSetContext \/ TimerFires
  <2>1. UNCHANGED present /\ \E q, then : Callback(q, then)
    BY <1>3 DEF ReadBlocks, HandleSetContext, TimerFires
  <2> QED  BY <2>1, CallbackKeepsWriter
<1>4. CASE HandleWrite
  <2>1. Head(queue) \in Message /\ Head(queue).kind = "write"
    BY <1>4, TakesType DEF HandleWrite, Takes
  <2>2. Head(queue).size \in Sizes
    BY <2>1 DEF Message, Request, Write, Shutdown, SetContext, Stop, Enable, Disable,
                WriteComplete, Removed
  <2> QED  BY <1>0, <1>4, <2>2, SendKeepsWriter DEF HandleWrite
<1>5. CASE WriteOutput
  <2>1. CASE Len(output) <= room
    <3>1. output' = <<>>
      BY <1>5, <2>1, NothingRests, OutputTypes DEF WriteOutput
    <3> QED  BY <3>1 DEF Stranded
  <2>2. CASE KeepIo("drain")
    BY <1>5, <2>2 DEF WriteOutput, Writing, KeepIo, ioVars, Stranded
  <2> QED  BY <1>5, <2>1, <2>2 DEF WriteOutput
<1>6. CASE WriteError
  BY <1>6 DEF WriteError, Writing, KeepIo, ioVars, Stranded
<1>7. CASE HandleEnable
  <2>1. interests' = interests \cup Head(queue).modes
    BY <1>0, <1>7, EnableIoAgrees DEF HandleEnable, Together
  <2>2. UNCHANGED <<present, output>>
    BY <1>7 DEF HandleEnable, outVars
  <2> QED  BY <1>1, <2>1, <2>2
<1>8. CASE HandleRemoved
  BY <1>8 DEF HandleRemoved, Stranded
<1> QED  BY <1>2, <1>3, <1>4, <1>5, <1>6, <1>7, <1>8 DEF Next, LoopStep

\* Output that waits loses its interest in writing only where somebody takes it
\* away.
THEOREM WriterKept == Spec => OutputKeepsWriter
<1>1. [][KeepsWriter]_vars => OutputKeepsWriter
  BY DEF OutputKeepsWriter, KeepsWriter
<1> QED  BY <1>1, SafeInit, SafeNext, WriterStep, PTL DEF Spec

----------------------------------------------------------------------------
(* Edges *)

\* The loop is at work on m, which its poll reported.
Served(m) == m \in events /\ phase \in (IF m = "R" THEN {"read"} ELSE {"read", "write"})

Cycle == {"poll", "read", "write", "drain", "timers"}

\* A mode that is ready and registered will be reported, or has been and is
\* about to be served.
EdgeInv ==
  rst = "no" /\ phase \in Cycle => \A m \in Readiness \cap reg : edge \/ Served(m)

\* What a callback does leaves no edge unreported.
Reports ==
  \/ Readiness' \cap reg' # {} => edge'
  \/ UNCHANGED <<reg, edge>> /\ ("W" \in reg => UNCHANGED <<room, shut>>)
  \/ UNCHANGED reg /\ (edge \/ "W" \in reg => edge')
  \/ phase' = "no peer"

LEMMA SendReports ==
  ASSUME interests = reg, NEW n, NEW q, NEW then, Send(n, q, then), UNCHANGED shut
  PROVE  Reports /\ (rst' = "no" => rst = "no")
<1>0. rst' = "no" => rst = "no"
  BY DEF Send, Told, WriteFails
<1>1. CASE EnableIo({"W"}, then)
  <2>1. edge' = (Readiness' \cap reg' # {})
    BY <1>1, EnableIoAgrees
  <2> QED  BY <1>0, <2>1 DEF Reports
<1>2. CASE KeepIo(then) /\ ("W" \in interests => UNCHANGED room)
  BY <1>0, <1>2 DEF KeepIo, ioVars, Reports
<1> QED  BY <1>1, <1>2 DEF Send

LEMMA CallbackReports ==
  ASSUME interests = reg, NEW q, NEW then, Callback(q, then)
  PROVE  Reports /\ (rst' = "no" => rst = "no") /\ ("R" \in shut' <=> "R" \in shut)
<1>1. CASE KeepIo(then) /\ UNCHANGED <<outVars, rst, shut>>
  BY <1>1 DEF KeepIo, ioVars, outVars, Reports
<1>2. ASSUME NEW n \in Sizes, Send(n, q, then), UNCHANGED shut
      PROVE  Reports /\ (rst' = "no" => rst = "no") /\ ("R" \in shut' <=> "R" \in shut)
  BY <1>2, SendReports
<1>3. CASE ShutDown({"W"}, then) /\ UNCHANGED rst
  <2>1. CASE Unconnected
    BY <1>3, <2>1 DEF ShutDown, KeepIo, Reports
  <2>2. CASE ~Unconnected
    <3>1. UNCHANGED reg /\ edge' = (edge \/ {"W"} \cap reg # {}) /\ shut' = shut \cup {"W"}
      BY <1>3, <2>2 DEF ShutDown, Happens
    <3>2. edge \/ "W" \in reg => edge'
      BY <3>1
    <3> QED  BY <1>3, <3>1, <3>2 DEF Reports
  <2> QED  BY <2>1, <2>2
<1> QED  BY <1>1, <1>2, <1>3 DEF Callback

\* What was served before such a step is all that is not reported after it.
LEMMA ReportsServed ==
  ASSUME TypeOK, EdgeInv, Reports, rst = "no", phase \in Cycle, phase' \in Cycle,
         NEW m \in Readiness' \cap reg', m = "R" => m \in Readiness, rst' = "no"
  PROVE  edge' \/ Served(m)
<1>1. m \in Modes
  BY DEF Readiness
<1>2. CASE Readiness' \cap reg' # {} => edge'
  BY <1>2
<1>3. CASE UNCHANGED <<reg, edge>> /\ ("W" \in reg => UNCHANGED <<room, shut>>)
  <2>1. m \in Readiness
    BY <1>1, <1>3 DEF Readiness, WriteFails, StreamEnded, Modes
  <2> QED  BY <1>3, <2>1 DEF EdgeInv
<1>4. CASE UNCHANGED reg /\ (edge \/ "W" \in reg => edge')
  <2>1. CASE m = "W"
    BY <1>4, <2>1
  <2>2. CASE m = "R"
    BY <1>4, <2>2 DEF EdgeInv
  <2> QED  BY <1>1, <2>1, <2>2 DEF Modes
<1> QED  BY <1>2, <1>3, <1>4 DEF Reports, Cycle

LEMMA EdgeInit == Init => EdgeInv
<1> SUFFICES ASSUME Init, NEW m \in Readiness \cap reg  PROVE FALSE
  BY DEF EdgeInv
<1>1. m = "R" /\ unread = 0 /\ fin = FALSE /\ rst = "no" /\ shut = {}
  BY DEF Init
<1> QED  BY <1>1 DEF Readiness, StreamEnded

LEMMA OthersReport ==
  ASSUME TypeOK, EdgeInv, OthersStep \/ PeerReads
  PROVE  EdgeInv'
<1> SUFFICES ASSUME rst' = "no", phase' \in Cycle, NEW m \in (Readiness \cap reg)'
             PROVE  edge' \/ Served(m)'
  BY DEF EdgeInv
<1>0. UNCHANGED <<reg, phase, events>> /\ rst = "no" /\ m \in Modes
  BY DEF OthersStep, PeerSends, PeerCloses, PeerResets, Post, PeerReads, Env, ioVars, socketVars, Readiness
<1>1. CASE m \in Readiness
  <2>1. edge \/ Served(m)
    BY <1>0, <1>1 DEF EdgeInv
  <2>2. edge => edge'
    BY DEF OthersStep, PeerSends, PeerCloses, PeerResets, Post, PeerReads, Happens, ioVars
  <2> QED  BY <1>0, <2>1, <2>2 DEF Served
<1>2. CASE m \notin Readiness
  <2>1. CASE m = "R"
    <3>1. PeerSends \/ PeerCloses
      BY <1>0, <1>2, <2>1 DEF Readiness, StreamEnded, OthersStep, PeerResets, Post, PeerReads, socketVars, Modes
    <3>2. Happens({"R"})
      BY <3>1 DEF PeerSends, PeerCloses
    <3> QED  BY <1>0, <2>1, <3>2 DEF Happens
  <2>2. CASE m = "W"
    <3>1. PeerReads /\ room = 0
      <4>1. ~(room > 0)
        BY <1>2, <2>2 DEF Readiness, Modes
      <4>2. room = 0
        BY <4>1, OutputTypes
      <4>3. CASE OthersStep
        BY <1>0, <1>2, <2>2, <4>3 DEF Readiness, OthersStep, PeerSends, PeerCloses, PeerResets, Post,
           outVars, socketVars, WriteFails, Modes
      <4> QED  BY <4>2, <4>3
    <3>2. Happens({"W"})
      BY <3>1 DEF PeerReads
    <3> QED  BY <1>0, <2>2, <3>2 DEF Happens
  <2> QED  BY <1>0, <2>1, <2>2 DEF Modes
<1> QED  BY <1>1, <1>2

LEMMA DisableIoReports ==
  ASSUME interests = reg, NEW modes, NEW then, DisableIo(modes, then)
  PROVE  (Readiness' \cap reg' # {} => edge') /\ phase' = then
<1>1. CASE interests = {}
  BY <1>1 DEF DisableIo, KeepIo, ioVars
<1>2. CASE interests # {}
  <2>1. edge' = (Readiness' \cap reg' # {}) /\ phase' = then
    BY <1>2 DEF DisableIo, SetInterests
  <2> QED  BY <2>1
<1> QED  BY <1>1, <1>2

LEMMA IoReports ==
  ASSUME TypeOK, AgreeInv, EdgeInv,
         Poll \/ ReadBlocks \/ ReadEof \/ ReadError \/ WriteOutput \/ WriteError \/ NotReady
  PROVE  EdgeInv'
<1> SUFFICES ASSUME rst' = "no", phase' \in Cycle, NEW m \in (Readiness \cap reg)'
             PROVE  edge' \/ Served(m)'
  BY DEF EdgeInv
<1>0. interests = reg /\ m \in Modes /\ m \in reg' /\ m \in Readiness'
  BY DEF AgreeInv, InterestsAgree, Readiness
<1>1. CASE Poll
  <2>1. m \in Readiness \cap reg /\ phase = "poll" /\ rst = "no" /\ phase' = "read"
    BY <1>1 DEF Poll, outVars, socketVars, Readiness, WriteFails, StreamEnded
  <2>2. edge
    BY <2>1 DEF EdgeInv, Served, Cycle
  <2>3. m \in events'
    BY <1>1, <2>1, <2>2 DEF Poll
  <2> QED  BY <2>1, <2>3 DEF Served
<1>2. CASE ReadBlocks
  <2>1. Reports /\ rst = "no" /\ phase' \in {"write", "no peer"}
    BY <1>0, <1>2, CallbackReports, CallbackAgrees DEF ReadBlocks, TypeOK, Harmless
  <2>2. unread' = 0 /\ ~StreamEnded' /\ UNCHANGED events /\ phase = "read"
    <3>1. "R" \in shut' <=> "R" \in shut
      BY <1>0, <1>2, CallbackReports DEF ReadBlocks
    <3> QED  BY <1>2, <3>1 DEF ReadBlocks, Reading, StreamEnded
  <2>3. m # "R"
    BY <1>0, <2>2 DEF Readiness, StreamEnded
  <2>4. edge' \/ Served(m)
    BY <1>0, <2>1, <2>2, <2>3, ReportsServed DEF Cycle
  <2> QED  BY <2>1, <2>2, <2>3, <2>4 DEF Served, Cycle
<1>3. CASE ReadEof
  <2>1. reg' = {}
    BY <1>0, <1>3, DisableIoAgrees DEF ReadEof, Together, TypeOK
  <2> QED  BY <1>0, <2>1
<1>4. CASE ReadError \/ WriteError
  BY <1>4 DEF ReadError, WriteError, Told, KeepIo, Cycle
<1>5. CASE WriteOutput
  <2>1. CASE DisableIo({"W"}, "drain")
    <3>1. Readiness' \cap reg' # {} => edge'
      BY <1>0, <2>1, DisableIoReports
    <3> QED  BY <1>0, <3>1
  <2>2. CASE ~(Len(output) <= room) /\ KeepIo("drain")
    <3>1. room' = 0
      <4>1. room' = room - Least(room, Len(output)) /\ room \in Nat /\ Len(output) \in Nat
        BY <1>5, OutputTypes, LenProperties DEF WriteOutput, SocketTakes
      <4> QED  BY <2>2, <4>1 DEF Least
    <3>2. ~WriteFails' /\ UNCHANGED <<unread, fin, rst, shut, reg, edge>> /\ phase = "write"
      BY <1>5, <2>2 DEF WriteOutput, Writing, WriteFails, socketVars, KeepIo, ioVars
    <3>3. m = "R"
      BY <1>0, <3>1, <3>2 DEF Readiness, Modes
    <3>4. m \in Readiness \cap reg
      BY <1>0, <3>2, <3>3 DEF Readiness, StreamEnded
    <3> QED  BY <3>2, <3>3, <3>4 DEF EdgeInv, Served, Cycle
  <2> QED  BY <1>5, <2>1, <2>2 DEF WriteOutput
<1>6. CASE NotReady
  <2>0. UNCHANGED <<reg, edge, events, present, interests, room, unread, fin, rst, shut>>
    BY <1>6 DEF NotReady, KeepIo, ioVars, outVars, socketVars
  <2>1. UNCHANGED <<reg, edge, events, present, interests>> /\ rst = "no" /\ m \in Readiness \cap reg
    BY <1>0, <2>0 DEF Readiness, WriteFails, StreamEnded
  <2>2. \/ phase = "read" /\ ~Reading /\ phase' = "write"
        \/ phase = "write" /\ ~Writing /\ phase' = "drain"
    BY <1>6 DEF NotReady, KeepIo
  <2>3. edge \/ Served(m)
    BY <2>1, <2>2 DEF EdgeInv, Cycle
  <2>4. present
    BY <1>0, <2>1 DEF AgreeInv
  <2>5. CASE Served(m)
    <3>1. CASE m = "R"
      BY <2>2, <2>4, <2>5, <3>1 DEF Served, Reading
    <3>2. CASE m = "W"
      BY <1>0, <2>1, <2>2, <2>4, <2>5, <3>2 DEF Served, Writing
    <3> QED  BY <1>0, <3>1, <3>2 DEF Modes
  <2> QED  BY <2>1, <2>3, <2>5
<1> QED  BY <1>1, <1>2, <1>3, <1>4, <1>5, <1>6

LEMMA DrainReports ==
  ASSUME TypeOK, AgreeInv, EdgeInv,
         \/ HandleForNobody \/ HandleWrite \/ HandleCallback \/ HandleIo \/ HandleShutdown
         \/ HandleRemoved \/ DrainEmpty \/ TimerFires \/ TimersDone
  PROVE  EdgeInv'
<1> SUFFICES ASSUME rst' = "no", phase' \in Cycle, NEW m \in (Readiness \cap reg)'
             PROVE  edge'
  BY DEF EdgeInv
<1>0. interests = reg /\ m \in Modes /\ m \in reg' /\ m \in Readiness'
  BY DEF AgreeInv, InterestsAgree, Readiness
<1>p. phase \in {"drain", "timers"}
  BY DEF HandleForNobody, HandleWrite, HandleCallback, HandleWriteComplete, HandleSetContext, HandleIo,
     HandleEnable, HandleDisable, HandleStop, HandleShutdown, HandleRemoved, Takes, DrainEmpty, TimerFires,
     TimersDone
<1>r. /\ UNCHANGED <<unread, fin>> /\ (rst' = "no" => rst = "no")
      /\ HandleShutdown \/ ("R" \in shut' <=> "R" \in shut)
  <2>1. CASE HandleCallback \/ TimerFires
    <3>1. UNCHANGED <<unread, fin>>
      BY <2>1 DEF HandleCallback, HandleWriteComplete, HandleSetContext, TimerFires
    <3>2. (\E q, then : Callback(q, then)) \/ UNCHANGED <<rst, shut>>
      BY <2>1 DEF HandleCallback, HandleWriteComplete, HandleSetContext, TimerFires
    <3> QED  BY <1>0, <3>1, <3>2, CallbackReports
  <2>2. CASE HandleWrite
    BY <1>0, <2>2, SendReports DEF HandleWrite
  <2>3. CASE ~(HandleCallback \/ TimerFires \/ HandleWrite)
    BY <2>3 DEF HandleForNobody, HandleIo, HandleEnable, HandleDisable, HandleStop, HandleShutdown,
       HandleRemoved, DrainEmpty, TimersDone, socketVars
  <2> QED  BY <2>1, <2>2, <2>3
<1>1. CASE Reports /\ ("R" \in shut' <=> "R" \in shut)
  <2>1. m = "R" => m \in Readiness
    BY <1>0, <1>1, <1>r DEF Readiness, StreamEnded
  <2>2. edge' \/ Served(m)
    BY <1>0, <1>1, <1>p, <1>r, <2>1, ReportsServed DEF Cycle
  <2> QED  BY <1>p, <2>2 DEF Served
<1>2. CASE HandleForNobody \/ DrainEmpty \/ TimersDone
  <2>1. UNCHANGED <<reg, edge, room, shut>>
    BY <1>2 DEF HandleForNobody, DrainEmpty, TimersDone, KeepIo, ioVars, outVars, socketVars
  <2> QED  BY <1>1, <2>1 DEF Reports
<1>3. CASE HandleWrite
  BY <1>0, <1>1, <1>3, SendReports DEF HandleWrite
<1>4. CASE HandleShutdown
  <2>1. CASE KeepIo("drain") /\ UNCHANGED <<room, shut>>
    BY <1>1, <2>1 DEF KeepIo, ioVars, Reports
  <2>2. ASSUME NEW sides, ShutDown(sides, "drain"), UNCHANGED <<outVars, rst>>  PROVE edge'
    <3>1. /\ shut' = shut \cup sides /\ edge' = (edge \/ sides \cap reg # {})
          /\ UNCHANGED reg
      BY <2>2 DEF ShutDown, Happens, KeepIo, Cycle
    <3>2. m \notin sides => m \in Readiness \cap reg
      BY <1>0, <1>r, <2>2, <3>1 DEF Readiness, WriteFails, StreamEnded, outVars, Modes
    <3>3. m \in Readiness \cap reg => edge \/ Served(m)
      BY <1>p, <1>r DEF EdgeInv, Cycle
    <3> QED  BY <1>0, <1>p, <3>1, <3>2, <3>3 DEF Served
  <2> QED  BY <1>4, <2>1, <2>2 DEF HandleShutdown, outVars
<1>5. CASE HandleCallback \/ TimerFires
  <2>1. (\E q, then : Callback(q, then)) \/ DisableIo({"W"}, "drain")
    BY <1>5 DEF HandleCallback, HandleWriteComplete, HandleSetContext, TimerFires
  <2>2. Reports
    BY <1>0, <2>1, CallbackReports, DisableIoReports DEF Reports
  <2> QED  BY <1>r, <1>1, <1>4, <2>2
<1>6. CASE HandleIo
  <2>1. (\E modes, then : EnableIo(modes, then)) \/ \E modes, then : DisableIo(modes, then)
    BY <1>6 DEF HandleIo, HandleEnable, HandleDisable, HandleStop
  <2>2. Readiness' \cap reg' # {} => edge'
    BY <1>0, <2>1, EnableIoAgrees, DisableIoReports
  <2> QED  BY <1>0, <2>2
<1>7. CASE HandleRemoved
  BY <1>0, <1>7 DEF HandleRemoved
<1> QED  BY <1>2, <1>3, <1>5, <1>6, <1>4, <1>7

LEMMA EdgeNext == TypeOK /\ AgreeInv /\ EdgeInv /\ [Next]_vars => EdgeInv'
<1> SUFFICES ASSUME TypeOK, AgreeInv, EdgeInv, [Next]_vars  PROVE EdgeInv'
  OBVIOUS
<1>1. CASE Next
  BY <1>1, OthersReport, IoReports, DrainReports DEF Next, LoopStep, HandleCallback, HandleIo
<1>2. CASE UNCHANGED vars
  BY <1>2 DEF vars, ioVars, outVars, socketVars, EdgeInv, Served, Readiness, WriteFails, StreamEnded
<1> QED  BY <1>1, <1>2

\* The loop never goes to sleep on an edge that the selector has used up.
THEOREM EdgesKept == Spec => []NoLostEdge
<1>1. EdgeInv => NoLostEdge
  BY DEF EdgeInv, NoLostEdge, Served, Cycle
<1>2. Init => TypeOK /\ AgreeInv /\ EdgeInv
  BY SafeInit, EdgeInit
<1>3. (TypeOK /\ AgreeInv /\ EdgeInv) /\ [Next]_vars => (TypeOK /\ AgreeInv /\ EdgeInv)'
  BY SafeNext, EdgeNext
<1> QED  BY <1>1, <1>2, <1>3, PTL DEF Spec

----------------------------------------------------------------------------
(* The byte pipe.  What passes is in order by StreamIntegrity; how much, and   *)
(* whether it was all, is a matter of lengths; the WriteCompletes are counted  *)
(* in the channel.                                                             *)

LEMMA CompletionsType ==
  ASSUME NEW q \in Seq(Message)
  PROVE  /\ IsFiniteSet({i \in 1 .. Len(q) : q[i] = WriteComplete})
         /\ Completions(q) \in Nat
<1>1. Len(q) \in Nat
  BY LenProperties
<1>2. IsFiniteSet(1 .. Len(q))
  BY <1>1, FS_Interval
<1>3. IsFiniteSet({i \in 1 .. Len(q) : q[i] = WriteComplete})
  BY <1>2, FS_Subset
<1> QED  BY <1>3, FS_CardinalityType DEF Completions

LEMMA CompletionsAppend ==
  ASSUME NEW q \in Seq(Message), NEW msg \in Message
  PROVE  Completions(Append(q, msg)) = IF msg = WriteComplete THEN Completions(q) + 1 ELSE Completions(q)
<1> DEFINE r == Append(q, msg)
           S == {i \in 1 .. Len(q) : q[i] = WriteComplete}
           T == {i \in 1 .. Len(r) : r[i] = WriteComplete}
<1>1. /\ Len(q) \in Nat /\ Len(r) = Len(q) + 1
      /\ \A i \in 1 .. Len(q) : r[i] = q[i]
      /\ r[Len(q) + 1] = msg
  BY AppendProperties, LenProperties
<1>2. IsFiniteSet(S) /\ Len(q) + 1 \notin S
  BY SMTT(30), <1>1, CompletionsType
<1> HIDE DEF r
<1>3. \A i \in 1 .. Len(r) : i \in 1 .. Len(q) \/ i = Len(q) + 1
  BY <1>1
<1>4. \A i \in 1 .. Len(q) : i \in 1 .. Len(r)
  BY <1>1
<1>5. Len(q) + 1 \in 1 .. Len(r)
  BY <1>1
<1>6. CASE msg = WriteComplete
  <2>1. T = S \cup {Len(q) + 1}
    BY <1>1, <1>3, <1>4, <1>5, <1>6
  <2>2. Cardinality(T) = Cardinality(S) + 1
    BY <1>2, <2>1, FS_AddElement
  <2> QED  BY <1>6, <2>2 DEF Completions, r
<1>7. CASE msg # WriteComplete
  <2>1. T = S
    BY <1>1, <1>3, <1>4, <1>7
  <2> QED  BY <1>7, <2>1 DEF Completions, r
<1> QED  BY <1>6, <1>7

LEMMA CompletionsTail ==
  ASSUME NEW q \in Seq(Message), q # <<>>
  PROVE  /\ Head(q) = WriteComplete => Completions(q) > 0 /\ Completions(Tail(q)) = Completions(q) - 1
         /\ Head(q) # WriteComplete => Completions(Tail(q)) = Completions(q)
<1> DEFINE r == Tail(q)
           S == {i \in 1 .. Len(q) : q[i] = WriteComplete}
           T == {i \in 1 .. Len(r) : r[i] = WriteComplete}
           f == [i \in T |-> i + 1]
<1>1. /\ Len(q) \in Nat \ {0} /\ Len(r) = Len(q) - 1 /\ r \in Seq(Message)
      /\ \A i \in 1 .. Len(r) : r[i] = q[i + 1]
      /\ Head(q) = q[1]
  BY HeadTailProperties, LenProperties, EmptySeq
<1>2. IsFiniteSet(S) /\ IsFiniteSet(T) /\ Cardinality(S) \in Nat
  BY <1>1, CompletionsType DEF Completions
<1> HIDE DEF r
<1>3. \A i \in T : i \in Nat /\ i + 1 \in S \ {1}
  BY <1>1
<1>4. \A j \in S \ {1} : j - 1 \in T /\ (j - 1) + 1 = j
  BY <1>1
<1>5. f \in Bijection(T, S \ {1})
  <2>1. f \in [T -> S \ {1}]
    BY <1>3
  <2>2. \A i, j \in T : f[i] = f[j] => i = j
    BY <1>3
  <2>3. \A j \in S \ {1} : \E i \in T : f[i] = j
    BY <1>4
  <2> HIDE DEF f, T, S
  <2> QED  BY <2>1, <2>2, <2>3, Fun_IsBij
<1>6. Cardinality(S \ {1}) = Cardinality(T)
  <2>1. ExistsBijection(T, S \ {1})
    BY <1>5 DEF ExistsBijection
  <2> HIDE DEF S, T
  <2> QED  BY <1>2, <2>1, FS_Bijection
<1>7. 1 \in S <=> Head(q) = WriteComplete
  BY <1>1
<1>8. Cardinality(S \ {1}) = IF 1 \in S THEN Cardinality(S) - 1 ELSE Cardinality(S)
  BY <1>2, FS_RemoveElement
<1>9. 1 \in S => Cardinality(S) > 0
  <2>1. 1 \in S => Cardinality(S) # 0
    BY <1>2, FS_EmptySet
  <2> QED  BY <1>2, <2>1
<1> QED  BY <1>6, <1>7, <1>8, <1>9 DEF Completions, r

PipeInv == StreamIntegrity /\ Len(wire) <= given

LEMMA WriteCompleteKind ==
  /\ Removed # WriteComplete
  /\ \A msg \in Request : msg # WriteComplete
  /\ \A msg \in Message : msg.kind = "written" => msg = WriteComplete
<1>1. WriteComplete.kind = "written" /\ Removed.kind # "written"
  BY DEF WriteComplete, Removed
<1>2. \A msg \in Request : msg.kind # "written"
  BY DEF Request, Write, Shutdown, SetContext, Stop, Enable, Disable
<1> QED  BY <1>1, <1>2 DEF Message

LEMMA PipeLengths ==
  ASSUME TypeOK, PipeInv
  PROVE  /\ Len(wire) \in Nat /\ Len(output) \in Nat /\ given \in Nat /\ Len(wire) <= given
         /\ rst = "no" => Len(wire) + Len(output) = given
<1>1. wire \in Seq(Nat) /\ output \in Seq(Nat) /\ given \in Nat
  BY OutputTypes
<1>2. Len(wire \o output) = Len(wire) + Len(output) /\ Len(wire) \in Nat /\ Len(output) \in Nat
  BY <1>1, ConcatProperties, LenProperties
<1>3. rst = "no" => Len(wire \o output) = given
  BY AllCounts DEF PipeInv, StreamIntegrity
<1> QED  BY <1>1, <1>2, <1>3 DEF PipeInv

\* How much the socket takes.
LEMMA SocketTakesLength ==
  ASSUME TypeOK, NEW data \in Seq(Nat), SocketTakes(data)
  PROVE  Len(wire') = Len(wire) + Least(room, Len(data))
<1>1. room \in Nat /\ Len(data) \in Nat /\ wire \in Seq(Nat)
  BY OutputTypes, LenProperties
<1>2. Least(room, Len(data)) \in 0 .. Len(data)
  BY <1>1 DEF Least
<1>3. /\ SubSeq(data, 1, Least(room, Len(data))) \in Seq(Nat)
      /\ Len(SubSeq(data, 1, Least(room, Len(data)))) = Least(room, Len(data))
  BY <1>1, <1>2, SubSeqProperties
<1> QED  BY <1>1, <1>3, ConcatProperties DEF SocketTakes

\* What has passed is in order.
LEMMA InOrderPasses ==
  ASSUME StreamIntegrity', Len(wire) <= Len(wire'), Len(wire') <= given'
  PROVE  Pipe!Passes
  BY DEF StreamIntegrity, Pipe!Passes, Pipe!Bytes

\* A call of send that leaves the channel q and has taken h WriteCompletes out.
LEMMA SendGives ==
  ASSUME TypeOK, PipeInv, StreamIntegrity', NEW n \in Sizes, NEW q \in Seq(Message), NEW then,
         NEW h \in {0, 1}, Completions(q) = Completions(queue) - h,
         Send(n, q, then), UNCHANGED shut
  PROVE  Pipe!Give(h) /\ Len(wire') <= given'
<1> DEFINE data == [i \in 1 .. n |-> given + i]
<1>1. data \in Seq(Nat) /\ Len(data) = n /\ n \in Nat
  BY NewBytesType
<1>2. /\ Len(wire) \in Nat /\ Len(output) \in Nat /\ given \in Nat /\ Len(wire) <= given
      /\ rst = "no" => Len(wire) + Len(output) = given
      /\ room \in Nat
  BY PipeLengths, OutputTypes
<1>3. given' = given + n
  BY DEF Send
<1>4. Completions(q) \in Nat /\ Completions(queue) \in Nat
  BY CompletionsType DEF TypeOK
<1> HIDE DEF data
\* Nothing passes.
<1>5. ASSUME queue' = q, UNCHANGED wire, WriteFails' = WriteFails
      PROVE  Pipe!Give(h) /\ Len(wire') <= given'
  <2>1. Len(wire') <= given' /\ Len(wire) <= Len(wire') /\ ~(Len(wire) < Len(wire'))
    BY <1>1, <1>2, <1>3, <1>5
  <2>2. Len(wire') < given' \/ given' = given
    BY <1>1, <1>2, <1>3, <1>5
  <2>3. Pipe!Passes
    BY <2>1, InOrderPasses
  <2>4. Completions(queue') = Completions(queue) - h
    BY <1>5
  <2>5. given' \in Nat /\ given <= given'
    BY <1>1, <1>2, <1>3
  <2> QED  BY <1>5, <2>1, <2>2, <2>3, <2>4, <2>5 DEF Pipe!Give
<1>6. ASSUME output = <<>>, ~WriteFails, SocketTakes(data)
      PROVE  /\ Len(wire) = given /\ Len(wire') = given + Least(room, n)
             /\ Len(wire') <= given' /\ Pipe!Passes
             /\ given' \in Nat /\ given <= given'
  <2>1. Len(wire) = given
    <3>1. Len(output) = 0 /\ rst = "no"
      BY <1>6 DEF WriteFails
    <3> QED  BY <1>2, <3>1
  <2>2. Len(wire') = given + Least(room, n)
    BY <1>1, <1>6, <2>1, SocketTakesLength
  <2>3. Least(room, n) \in 0 .. n
    BY <1>1, <1>2 DEF Least
  <2>4. Len(wire') <= given' /\ Len(wire) <= Len(wire') /\ given' \in Nat /\ given <= given'
    BY <1>1, <1>2, <1>3, <2>1, <2>2, <2>3
  <2> QED  BY <2>1, <2>2, <2>4, InOrderPasses
<1>7. CASE queue' = q /\ UNCHANGED <<wire, rst>>
  <2>1. WriteFails' = WriteFails
    BY <1>7 DEF WriteFails
  <2> QED  BY <1>5, <1>7, <2>1
<1>8. CASE /\ output # <<>> \/ WriteFails
           /\ queue' = q
           /\ rst' = IF output = <<>> THEN Told ELSE rst
           /\ UNCHANGED wire
  <2>1. WriteFails' = WriteFails
    BY <1>8 DEF WriteFails, Told
  <2> QED  BY <1>5, <1>8, <2>1
<1>9. CASE /\ output = <<>> /\ ~WriteFails
           /\ SocketTakes(data)
           /\ queue' = IF n <= room THEN Append(q, WriteComplete) ELSE q
           /\ UNCHANGED rst
  <2>1. WriteFails' = WriteFails
    BY <1>9 DEF WriteFails
  <2>2. CASE n <= room
    <3>1. Len(wire') = given'
      BY <1>1, <1>2, <1>3, <1>6, <1>9, <2>2 DEF Least
    <3>2. Completions(queue') = (Completions(queue) - h) + 1
      <4>1. queue' = Append(q, WriteComplete)
        BY <1>9, <2>2
      <4> QED  BY <4>1, CompletionsAppend, MessageTypes
    <3> QED  BY <1>6, <1>9, <2>1, <3>1, <3>2 DEF Pipe!Give
  <2>3. CASE ~(n <= room)
    <3>1. Len(wire') < given'
      BY <1>1, <1>2, <1>3, <1>6, <1>9, <2>3 DEF Least
    <3>2. Completions(queue') = Completions(queue) - h
      BY <1>9, <2>3
    <3> QED  BY <1>6, <1>9, <2>1, <3>1, <3>2 DEF Pipe!Give
  <2> QED  BY <2>2, <2>3
<1>10. CASE /\ output = <<>> /\ ~WriteFails /\ TakesTwoWrites(data)
            /\ SocketTakes(data)
            /\ queue' = q
            /\ rst' = "told"
  <2>1. Len(wire) < Len(wire') /\ Len(wire') < given'
    <3>1. room \in 1 .. n - 1
      BY <1>1, <1>10 DEF TakesTwoWrites
    <3> QED  BY <1>1, <1>2, <1>3, <1>6, <1>10, <3>1 DEF Least
  <2>2. (~WriteFails)' = FALSE
    BY <1>10 DEF WriteFails
  <2>3. Completions(queue') = Completions(queue) - h
    BY <1>10
  <2> QED  BY <1>6, <1>10, <2>1, <2>2, <2>3 DEF Pipe!Give
<1> QED  BY <1>7, <1>8, <1>9, <1>10 DEF Send, data

\* A step of the pipe, or none, after which no more has passed than was given.
PipeStep == [Pipe!Next]_(Pipe!pipeVars) /\ Len(wire') <= given'

LEMMA Stutters ==
  ASSUME PipeInv, UNCHANGED <<given, wire>>, WriteFails' = WriteFails,
         Completions(queue') = Completions(queue)
  PROVE  PipeStep
  BY DEF PipeInv, PipeStep, Pipe!pipeVars

LEMMA Handles ==
  ASSUME TypeOK, PipeInv, UNCHANGED <<given, wire>>, WriteFails' = WriteFails,
         Completions(queue) > 0, Completions(queue') = Completions(queue) - 1
  PROVE  PipeStep
<1>1. Pipe!Handled
  BY DEF Pipe!Handled
<1> QED  BY <1>1 DEF PipeInv, PipeStep, Pipe!Next

LEMMA Closes ==
  ASSUME TypeOK, PipeInv, UNCHANGED <<given, wire>>, WriteFails',
         NEW h \in {0, 1}, h <= Completions(queue), Completions(queue') = Completions(queue) - h
  PROVE  PipeStep
<1>1. Pipe!Close(h)
  BY DEF Pipe!Close
<1> QED  BY <1>1 DEF PipeInv, PipeStep, Pipe!Next

\* A callback, of which h = 1 says that it is an on_write_complete.
LEMMA CallbackSteps ==
  ASSUME TypeOK, PipeInv, StreamIntegrity', NEW q \in Seq(Message), NEW then, Callback(q, then),
         NEW h \in {0, 1}, h <= Completions(queue), Completions(q) = Completions(queue) - h
  PROVE  PipeStep
<1>0. Completions(queue) \in Nat
  BY CompletionsType DEF TypeOK
<1>1. ASSUME UNCHANGED <<given, wire>>, WriteFails' = WriteFails, queue' = q  PROVE PipeStep
  <2>1. CASE h = 0
    BY <1>0, <1>1, <2>1, Stutters
  <2>2. CASE h = 1
    BY <1>0, <1>1, <2>2, Handles
  <2> QED  BY <2>1, <2>2
<1>2. CASE queue' = q /\ KeepIo(then) /\ UNCHANGED <<outVars, rst, shut>>
  BY <1>1, <1>2 DEF outVars, WriteFails
<1>3. CASE \E n \in Sizes : given + n <= MaxBytes /\ UNCHANGED shut /\ Send(n, q, then)
  <2>1. Pipe!Give(h) /\ Len(wire') <= given'
    BY <1>3, SendGives
  <2> QED  BY <2>1 DEF PipeStep, Pipe!Next
<1>4. CASE queue' = q /\ ShutDown({"W"}, then) /\ UNCHANGED <<outVars, rst>>
  <2>1. UNCHANGED <<given, wire>>
    BY <1>4 DEF outVars
  <2>2. CASE Unconnected
    BY <1>1, <1>4, <2>1, <2>2 DEF ShutDown, WriteFails
  <2>3. CASE ~Unconnected
    <3>1. WriteFails'
      BY <1>4, <2>3 DEF ShutDown, WriteFails
    <3> QED  BY <1>4, <2>1, <3>1, Closes
  <2> QED  BY <2>2, <2>3
<1> QED  BY <1>2, <1>3, <1>4 DEF Callback

LEMMA WriteSteps ==
  ASSUME TypeOK, PipeInv, StreamIntegrity', WriteOutput \/ WriteError
  PROVE  PipeStep
<1>0. /\ Len(wire) \in Nat /\ Len(output) \in Nat /\ given \in Nat /\ Len(wire) <= given
      /\ rst = "no" => Len(wire) + Len(output) = given
      /\ room \in Nat /\ output \in Seq(Nat) /\ Completions(queue) \in Nat
  BY PipeLengths, OutputTypes, CompletionsType DEF TypeOK
<1>1. ASSUME ~WriteFails, SocketTakes(output), UNCHANGED given
      PROVE  /\ Len(wire') <= given' /\ Pipe!Passes
             /\ Len(output) <= room => Len(wire') = given
             /\ room < Len(output) => Len(wire') < given
  <2>1. Len(wire) + Len(output) = given
    BY <1>0, <1>1 DEF WriteFails
  <2>2. Len(wire') = Len(wire) + Least(room, Len(output))
    BY <1>0, <1>1, SocketTakesLength
  <2>3. /\ Len(wire) <= Len(wire') /\ Len(wire') <= given
        /\ Len(output) <= room => Len(wire') = given
        /\ room < Len(output) => Len(wire') < given
    BY <1>0, <2>1, <2>2 DEF Least
  <2> QED  BY <1>1, <2>3, InOrderPasses
<1>2. CASE WriteOutput
  <2>1. /\ ~WriteFails /\ SocketTakes(output) /\ UNCHANGED given
        /\ WriteFails' = WriteFails
    BY <1>2 DEF WriteOutput, WriteFails, socketVars
  <2>2. CASE Len(output) <= room
    <3>1. queue' = Append(queue, WriteComplete)
      BY <1>2, <2>2 DEF WriteOutput
    <3>2. Completions(queue') = Completions(queue) + 1
      BY <3>1, CompletionsAppend, MessageTypes DEF TypeOK
    <3>3. Pipe!Flush
      BY <1>1, <2>1, <2>2, <3>2 DEF Pipe!Flush
    <3> QED  BY <1>1, <2>1, <3>3 DEF PipeStep, Pipe!Next
  <2>3. CASE ~(Len(output) <= room)
    <3>1. UNCHANGED queue /\ room < Len(output)
      BY <1>0, <1>2, <2>3 DEF WriteOutput
    <3>2. Len(wire') < given /\ Pipe!Passes
      BY <1>1, <2>1, <3>1
    <3>3. Pipe!Flush
      BY <2>1, <3>1, <3>2 DEF Pipe!Flush
    <3> QED  BY <1>1, <2>1, <3>3 DEF PipeStep, Pipe!Next
  <2> QED  BY <2>2, <2>3
<1>3. CASE WriteError
  <2>1. UNCHANGED <<given, queue, shut>>
    BY <1>3 DEF WriteError
  <2>2. CASE WriteFails /\ rst' = Told /\ UNCHANGED <<output, wire, room>>
    <3>1. WriteFails' = WriteFails
      BY <2>1, <2>2 DEF WriteFails, Told
    <3> QED  BY <2>1, <2>2, <3>1, Stutters
  <2>3. CASE /\ ~WriteFails /\ TakesTwoWrites(output)
             /\ SocketTakes(output) /\ output' = Rest(output)
             /\ rst' = "told"
    <3>1. room < Len(output)
      BY <1>0, <2>3 DEF TakesTwoWrites
    <3>2. (~WriteFails)' \in BOOLEAN
      BY DEF WriteFails
    <3>3. Len(wire') < given /\ Pipe!Passes
      BY <1>1, <2>1, <2>3, <3>1
    <3>4. Pipe!Flush
      BY <2>1, <2>3, <3>2, <3>3 DEF Pipe!Flush
    <3> QED  BY <1>1, <2>1, <2>3, <3>4 DEF PipeStep, Pipe!Next
  <2> QED  BY <1>3, <2>2, <2>3 DEF WriteError
<1> QED  BY <1>2, <1>3

LEMMA PipeNext == TypeOK /\ PipeInv /\ [Next]_vars => PipeStep
<1> SUFFICES ASSUME TypeOK, PipeInv, [Next]_vars  PROVE PipeStep
  OBVIOUS
<1>0. /\ queue \in Seq(Message) /\ Completions(queue) \in Nat
      /\ 0 <= Completions(queue) /\ Completions(queue) - 0 = Completions(queue)
  <2>1. queue \in Seq(Message) /\ Completions(queue) \in Nat
    BY CompletionsType DEF TypeOK
  <2> QED  BY <2>1
<1>i. StreamIntegrity'
  BY IntegrityNext DEF PipeInv
\* What a handler finds when it has taken a message out.
<1>t. ASSUME NEW kinds, Takes(kinds)
      PROVE  /\ Tail(queue) \in Seq(Message)
             /\ Head(queue) = WriteComplete =>
                  1 <= Completions(queue) /\ Completions(Tail(queue)) = Completions(queue) - 1
             /\ "written" \notin kinds => Completions(Tail(queue)) = Completions(queue) - 0
             /\ Head(queue) # WriteComplete => Completions(Tail(queue)) = Completions(queue)
             /\ kinds = {"written"} => Head(queue) = WriteComplete
  <2>1. queue # <<>> /\ Head(queue) \in Message /\ Tail(queue) \in Seq(Message)
    BY <1>t, TakesType DEF Takes
  <2>2. "written" \notin kinds => Head(queue) # WriteComplete
    BY <1>t DEF Takes, WriteComplete
  <2>3. kinds = {"written"} => Head(queue) = WriteComplete
    BY <1>t, <2>1, WriteCompleteKind DEF Takes
  <2> QED  BY <1>0, <2>1, <2>2, <2>3, CompletionsTail
<1>1. CASE PeerSends \/ PeerCloses \/ PeerReads
  <2>1. UNCHANGED <<given, wire, queue, rst, shut>>
    BY <1>1 DEF PeerSends, PeerCloses, PeerReads, Env, socketVars
  <2> QED  BY <2>1, Stutters DEF WriteFails
<1>2. CASE PeerResets
  <2>1. UNCHANGED <<given, wire, queue>> /\ WriteFails'
    BY <1>2 DEF PeerResets, Env, WriteFails
  <2> QED  BY <1>0, <2>1, Closes
<1>3. ASSUME NEW msg \in Requests, Post(msg)  PROVE PipeStep
  <2>1. UNCHANGED <<given, wire, rst, shut>> /\ queue' = Append(queue, msg)
    BY <1>3 DEF Post, outVars, socketVars
  <2>2. Completions(queue') = Completions(queue)
    BY <1>0, <2>1, CompletionsAppend, RequestAssumption, MessageTypes, WriteCompleteKind
  <2> QED  BY <2>1, <2>2, Stutters DEF WriteFails
<1>4. CASE Poll \/ NotReady \/ DrainEmpty \/ TimersDone
  <2>1. UNCHANGED <<given, wire, queue, rst, shut>>
    BY <1>4 DEF Poll, NotReady, DrainEmpty, TimersDone, outVars, socketVars
  <2> QED  BY <2>1, Stutters DEF WriteFails
<1>5. CASE ReadBlocks \/ TimerFires
  <2>1. \E then : Callback(queue, then)
    BY <1>5 DEF ReadBlocks, TimerFires
  <2>2. PICK then : Callback(queue, then)
    BY <2>1
  <2> QED  BY <1>0, <1>i, <2>2, CallbackSteps
<1>6. CASE ReadEof
  <2>1. UNCHANGED <<given, wire, rst, shut>> /\ queue' = Append(queue, Removed)
    BY <1>6 DEF ReadEof, outVars
  <2>2. Completions(queue') = Completions(queue)
    BY <1>0, <2>1, CompletionsAppend, MessageTypes, WriteCompleteKind
  <2> QED  BY <2>1, <2>2, Stutters DEF WriteFails
<1>7. CASE ReadError
  <2>1. UNCHANGED <<given, wire, queue>> /\ WriteFails' = WriteFails
    BY <1>7 DEF ReadError, outVars, WriteFails, Told
  <2> QED  BY <2>1, Stutters
<1>8. CASE WriteOutput \/ WriteError
  BY <1>8, <1>i, WriteSteps
<1>9. CASE HandleForNobody
  <2>1. UNCHANGED <<given, wire, rst, shut>> /\ queue' = Tail(queue)
    BY <1>9 DEF HandleForNobody, outVars, socketVars
  <2>2. WriteFails' = WriteFails
    BY <2>1 DEF WriteFails
  <2>3. CASE Head(queue) = WriteComplete
    <3>1. 1 <= Completions(queue) /\ Completions(queue') = Completions(queue) - 1
      BY <1>t, <1>9, <2>1, <2>3 DEF HandleForNobody
    <3>2. Completions(queue) > 0
      BY <1>0, <3>1
    <3> QED  BY <2>1, <2>2, <3>1, <3>2, Handles
  <2>4. CASE Head(queue) # WriteComplete
    <3>1. Completions(queue') = Completions(queue)
      BY <1>t, <1>9, <2>1, <2>4 DEF HandleForNobody
    <3> QED  BY <2>1, <2>2, <3>1, Stutters
  <2> QED  BY <2>3, <2>4
<1>10. CASE HandleWrite
  <2>1. Head(queue) \in Message /\ Head(queue).kind = "write"
    BY <1>10, TakesType DEF HandleWrite, Takes
  <2>2. Head(queue).size \in Sizes
    BY <2>1 DEF Message, Request, Write, Shutdown, SetContext, Stop, Enable, Disable,
                WriteComplete, Removed
  <2>3. Tail(queue) \in Seq(Message) /\ Completions(Tail(queue)) = Completions(queue) - 0
    BY <1>t, <1>10 DEF HandleWrite
  <2>4. Send(Head(queue).size, Tail(queue), "drain") /\ UNCHANGED shut
    BY <1>10 DEF HandleWrite
  <2>5. Pipe!Give(0) /\ Len(wire') <= given'
    BY <1>i, <2>2, <2>3, <2>4, SendGives
  <2> QED  BY <1>0, <2>5 DEF PipeStep, Pipe!Next
<1>11. CASE HandleWriteComplete
  <2>1. /\ Tail(queue) \in Seq(Message) /\ 1 <= Completions(queue)
        /\ Completions(Tail(queue)) = Completions(queue) - 1
    BY <1>t, <1>11 DEF HandleWriteComplete
  <2>2. CASE Callback(Tail(queue), "drain")
    BY <1>i, <2>1, <2>2, CallbackSteps
  <2>3. CASE queue' = Tail(queue) /\ UNCHANGED <<outVars, rst, shut>>
    <3>1. UNCHANGED <<given, wire>> /\ WriteFails' = WriteFails /\ Completions(queue) > 0
      BY <1>0, <2>1, <2>3 DEF outVars, WriteFails
    <3> QED  BY <2>1, <2>3, <3>1, Handles
  <2> QED  BY <1>11, <2>2, <2>3 DEF HandleWriteComplete
<1>12. CASE HandleSetContext
  <2>1. Tail(queue) \in Seq(Message) /\ Completions(Tail(queue)) = Completions(queue) - 0
    BY <1>t, <1>12 DEF HandleSetContext
  <2>2. Callback(Tail(queue), "drain")
    BY <1>12 DEF HandleSetContext
  <2> QED  BY <1>0, <1>i, <2>1, <2>2, CallbackSteps
<1>13. CASE HandleEnable \/ HandleDisable \/ HandleRemoved \/ HandleStop
  <2>1. UNCHANGED <<given, wire, rst, shut>> /\ queue' = Tail(queue)
    BY <1>13 DEF HandleEnable, HandleDisable, HandleRemoved, HandleStop, outVars, socketVars
  <2>2. Completions(Tail(queue)) = Completions(queue) - 0
    <3>1. Takes({"enable"}) \/ Takes({"disable"}) \/ Takes({"removed"}) \/ Takes({"stop"})
      BY <1>13 DEF HandleEnable, HandleDisable, HandleRemoved, HandleStop
    <3> QED  BY <1>t, <3>1
  <2>3. Completions(queue') = Completions(queue) /\ WriteFails' = WriteFails
    BY <1>0, <2>1, <2>2 DEF WriteFails
  <2> QED  BY <2>1, <2>3, Stutters
<1>14. CASE HandleShutdown
  <2>1. UNCHANGED <<given, wire, rst>> /\ queue' = Tail(queue)
    BY <1>14 DEF HandleShutdown, outVars
  <2>2. Completions(queue') = Completions(queue) - 0
    BY <1>t, <1>14, <2>1 DEF HandleShutdown
  <2>3. shut \subseteq shut'
    BY <1>14 DEF HandleShutdown, ShutDown
  <2>4. CASE "W" \in shut' <=> "W" \in shut
    BY <1>0, <2>1, <2>2, <2>4, Stutters DEF WriteFails
  <2>5. CASE "W" \in shut'
    <3>1. WriteFails'
      BY <2>5 DEF WriteFails
    <3> QED  BY <1>0, <2>1, <2>2, <3>1, Closes
  <2> QED  BY <2>3, <2>4, <2>5
<1>15. CASE UNCHANGED vars
  <2>1. UNCHANGED <<given, wire, queue, rst, shut>>
    BY <1>15 DEF vars, outVars, socketVars
  <2> QED  BY <2>1, Stutters DEF WriteFails
<1> QED
  BY <1>1, <1>2, <1>3, <1>4, <1>5, <1>6, <1>7, <1>8, <1>9, <1>10, <1>11, <1>12, <1>13, <1>14, <1>15
     DEF Next, OthersStep, LoopStep

\* The connection implements the byte pipe: what the socket takes is what send
\* was given, in order, nothing after a shutdown or reset, and a WriteComplete
\* is posted each time all of it has been taken, and only then.
THEOREM PipeImplemented == Spec => ImplementsPipe
<1>1. Init => TypeOK /\ PipeInv /\ Pipe!Init
  <2> SUFFICES ASSUME Init  PROVE PipeInv /\ Pipe!Init
    BY TypeInit
  <2>1. wire = <<>> /\ Len(wire) = 0 /\ given = 0 /\ queue = <<>> /\ Len(queue) = 0 /\ ~WriteFails
    BY DEF Init, WriteFails
  <2>2. {i \in 1 .. Len(queue) : queue[i] = WriteComplete} = {}
    BY <2>1
  <2>3. Completions(queue) = 0
    BY <2>2, FS_EmptySet DEF Completions
  <2>4. PipeInv
    BY <2>1, IntegrityInit DEF PipeInv
  <2> QED  BY <2>1, <2>3, <2>4 DEF Pipe!Init
<1>2. TypeOK /\ PipeInv /\ [Next]_vars => TypeOK' /\ PipeInv' /\ [Pipe!Next]_(Pipe!pipeVars)
  BY TypeNext, IntegrityNext, PipeNext DEF PipeInv, PipeStep
<1> QED  BY <1>1, <1>2, PTL DEF Spec, ImplementsPipe, Pipe!Spec

=============================================================================
