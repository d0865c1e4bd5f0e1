-------------------------- MODULE EventLoopProofs --------------------------
(***************************************************************************)
(* Theorems about the event loop, for any number of threads and messages    *)
(* and any Handle.                                                          *)
(***************************************************************************)
EXTENDS EventLoop, SequenceTheorems, TLAPS

LEMMA NextMessageType ==
  ASSUME TypeOK, NEW p \in Producers, sent[p] < Quota
  PROVE  NextMessage(p) \in AnyMessage /\ sent[p] + 1 \in 0 .. Quota
  BY LoopAssumption DEF TypeOK, NextMessage, MessageOf, AnyMessage

LEMMA Kinds == Stop \in Message /\ Own \in Message /\ Own # Stop /\ Stop \notin AnyMessage
<1>1. Own # Stop
  <2>1. Own.kind = "own" /\ Stop.kind = "stop"
    BY DEF Own, Stop
  <2> QED  BY <2>1
<1>2. Stop \notin AnyMessage
  <2>1. Stop.kind = "stop" /\ \A m \in AnyMessage : m.kind = "any"
    BY DEF Stop, AnyMessage
  <2> QED  BY <2>1
<1> QED  BY <1>1, <1>2 DEF Message

\* What a dead letter does to the channel.
LEMMA LetterType ==
  ASSUME NEW q \in Seq(Message), StopBehind(q), TypeOK
  PROVE  queue' \in Seq(Message) /\ owed' \subseteq AnyMessage
<1>1. queue' = Append(q, Stop)
  BY DEF StopBehind
<1>2. queue' \in Seq(Message)
  BY <1>1, Kinds, AppendProperties
<1>3. owed' \subseteq AnyMessage
  BY DEF StopBehind, TypeOK
<1> QED  BY <1>2, <1>3

\* What a handler may do to its own loop.
LEMMA ActsType ==
  ASSUME TypeOK, NEW q \in Seq(Message), HandlerActs(q)
  PROVE  /\ queue' \in Seq(Message) /\ wake' \in BOOLEAN
         /\ sends' \in 0 .. Sends /\ letters' \in 0 .. Letters
         /\ quit' \in {"no", "stop", "handler", "gone"}
         /\ owed' \subseteq AnyMessage
<1>1. CASE Post(q)
  <2>1. queue' = Append(q, Own)
    BY <1>1 DEF Post
  <2>2. queue' \in Seq(Message)
    BY <2>1, Kinds, AppendProperties
  <2> QED  BY <1>1, <2>2, LoopAssumption DEF Post, TypeOK
<1>2. CASE PostLetter(q)
  <2>1. queue' \in Seq(Message) /\ owed' \subseteq AnyMessage
    BY <1>2, LetterType DEF PostLetter
  <2> QED  BY <1>2, <2>1, LoopAssumption DEF PostLetter, TypeOK
<1>3. CASE ShutDown(q)
  BY <1>3 DEF ShutDown, TypeOK
<1> QED  BY <1>1, <1>2, <1>3 DEF HandlerActs

LEMMA TypeInit == Init => TypeOK
<1> SUFFICES ASSUME Init  PROVE TypeOK
  OBVIOUS
<1>1. /\ queue \in Seq(Message) /\ sent \in [Producers -> 0 .. Quota]
      /\ sends \in 0 .. Sends /\ letters \in 0 .. Letters
  BY LoopAssumption DEF Init
<1>2. pc \in [Producers -> {"idle", "wake", "dropped", "panicked"}]
  BY DEF Init
<1> QED  BY <1>1, <1>2 DEF Init, TypeOK

LEMMA TypeStep == TypeOK /\ [Next]_vars => TypeOK'
<1> SUFFICES ASSUME TypeOK, [Next]_vars  PROVE TypeOK'
  OBVIOUS
<1>1. ASSUME NEW p \in Producers, Send(p)  PROVE TypeOK'
  <2>1. CASE phase = "ended"
    BY <1>1, <2>1 DEF Send, loopVars, TypeOK
  <2>2. CASE phase # "ended"
    <3>1. NextMessage(p) \in Message /\ sent[p] + 1 \in 0 .. Quota
      BY <1>1, NextMessageType DEF Send, Message
    <3>2. queue' \in Seq(Message)
      <4>1. queue \in Seq(Message) /\ queue' = Append(queue, NextMessage(p))
        BY <1>1, <2>2 DEF Send, TypeOK
      <4> QED  BY <3>1, <4>1, AppendProperties
    <3>3. sent' \in [Producers -> 0 .. Quota]
      BY <1>1, <2>2, <3>1 DEF Send, TypeOK
    <3>4. sends' \in 0 .. Sends
      BY <1>1, <2>2, LoopAssumption DEF Send, TypeOK
    <3> QED  BY <1>1, <2>2, <3>2, <3>3, <3>4 DEF Send, loopVars, TypeOK
  <2> QED  BY <2>1, <2>2
<1>2. ASSUME NEW p \in Producers, Wake(p) \/ WakeOnly(p) \/ DropNotifier(p)  PROVE TypeOK'
  BY ZenonT(60), <1>2 DEF Wake, WakeOnly, DropNotifier, loopVars, TypeOK
<1>0. queue \in Seq(Message)
  BY DEF TypeOK
<1>3. CASE OwnerStops
  <2>1. CASE phase = "ended"
    BY <1>3, <2>1 DEF OwnerStops, loopVars, TypeOK
  <2>2. CASE phase # "ended"
    <3>1. queue' \in Seq(Message) /\ owed' \subseteq AnyMessage
      BY <1>0, <1>3, <2>2, LetterType DEF OwnerStops
    <3> QED  BY <1>3, <3>1 DEF OwnerStops, loopVars, TypeOK
  <2> QED  BY <2>1, <2>2
<1>13. ASSUME NEW p \in Producers, SendLetter(p)  PROVE TypeOK'
  <2>1. CASE phase = "ended"
    BY <1>13, <2>1 DEF SendLetter, loopVars, TypeOK
  <2>2. CASE phase # "ended"
    <3>1. queue' \in Seq(Message) /\ owed' \subseteq AnyMessage
      BY <1>0, <1>13, <2>2, LetterType DEF SendLetter
    <3>2. letters' \in 0 .. Letters
      BY <1>13, <2>2, LoopAssumption DEF SendLetter, TypeOK
    <3> QED  BY <1>13, <3>1, <3>2 DEF SendLetter, loopVars, TypeOK
  <2> QED  BY <2>1, <2>2
<1>4. CASE OwnerWakes \/ OwnerJoins
  BY <1>4 DEF OwnerWakes, OwnerJoins, loopVars, TypeOK
<1>5. CASE Check
  BY <1>5 DEF Check, TypeOK
<1>6. CASE PollWoken \/ PollExpires
  BY <1>6 DEF PollWoken, PollExpires, ReturnFromPoll, TypeOK
<1>7. CASE EventActs \/ TimerActs
  <2>1. /\ HandlerActs(queue)
        /\ UNCHANGED <<phase, mayBlock, sent, pc, owner, delivered>>
    BY <1>7 DEF EventActs, TimerActs
  <2> QED  BY <1>0, <2>1, ActsType DEF TypeOK
<1>8. CASE EventsDone \/ DrainEmpty \/ DrainDisconnected
  BY <1>8 DEF EventsDone, DrainEmpty, DrainDisconnected, TypeOK
<1>9. CASE HandleMessage
  <2>1. Tail(queue) \in Seq(Message)
    BY <1>9 DEF HandleMessage, HasHead, TypeOK
  <2>2. delivered' \subseteq AnyMessage
    BY <1>9 DEF HandleMessage, TypeOK
  <2>3. CASE queue' = Tail(queue)
    <3>1. UNCHANGED <<wake, quit, sends, letters, owed>> \/ HandlerActs(Tail(queue))
      BY <1>9 DEF HandleMessage
    <3> QED  BY <1>9, <2>1, <2>2, <2>3, <3>1, ActsType DEF HandleMessage, TypeOK
  <2>4. CASE HandlerActs(Tail(queue))
    BY <1>9, <2>1, <2>2, <2>4, ActsType DEF HandleMessage, TypeOK
  <2> QED  BY <1>9, <2>3, <2>4 DEF HandleMessage
<1>10. CASE HandleStop
  <2>1. Tail(queue) \in Seq(Message)
    BY <1>10 DEF HandleStop, HasHead, TypeOK
  <2> QED  BY <1>10, <2>1 DEF HandleStop, TypeOK
<1>11. CASE TimersDone
  <2>1. <<>> \in Seq(Message)
    BY EmptySeq
  <2> QED  BY <1>11, <2>1 DEF TimersDone, TypeOK
<1>12. CASE UNCHANGED vars
  BY <1>12 DEF vars, TypeOK
<1> QED
  BY <1>1, <1>2, <1>3, <1>4, <1>5, <1>6, <1>7, <1>8, <1>9, <1>10, <1>11, <1>12, <1>13
     DEF Next, ProducerStep, OwnerStep, LoopStep

\* The variables keep their types.
THEOREM TypeCorrect == Spec => []TypeOK
  BY TypeInit, TypeStep, PTL DEF Spec

----------------------------------------------------------------------------
(* No lost wakeup.  NoLostWakeup is inductive as it stands. *)

LEMMA WakeupStep == TypeOK /\ NoLostWakeup /\ [Next]_vars => NoLostWakeup'
<1> SUFFICES ASSUME TypeOK, NoLostWakeup, [Next]_vars  PROVE NoLostWakeup'
  OBVIOUS
<1>1. ASSUME NEW p \in Producers, Send(p)  PROVE NoLostWakeup'
  <2>1. CASE phase = "ended"
    BY <1>1, <2>1 DEF Send, loopVars, NoLostWakeup
  <2>2. CASE phase # "ended"
    <3>1. pc'[p] = "wake"
      BY <1>1, <2>2 DEF Send, TypeOK
    <3> QED  BY <3>1 DEF NoLostWakeup
  <2> QED  BY <2>1, <2>2
<1>2. ASSUME NEW p \in Producers, Wake(p) \/ WakeOnly(p)  PROVE NoLostWakeup'
  BY <1>2 DEF Wake, WakeOnly, NoLostWakeup
<1>3. ASSUME NEW p \in Producers, DropNotifier(p)  PROVE NoLostWakeup'
  <2>1. \A r \in Producers : pc[r] = "wake" => pc'[r] = "wake"
    BY <1>3 DEF DropNotifier, TypeOK
  <2> QED  BY <1>3, <2>1 DEF DropNotifier, loopVars, NoLostWakeup
<1>11. ASSUME NEW p \in Producers, SendLetter(p)  PROVE NoLostWakeup'
  <2>1. pc'[p] = "wake"
    BY <1>11 DEF SendLetter, TypeOK
  <2> QED  BY <2>1 DEF NoLostWakeup
<1>4. CASE OwnerStops \/ OwnerWakes
  BY <1>4 DEF OwnerStops, OwnerWakes, NoLostWakeup
<1>5. CASE OwnerJoins
  BY <1>5 DEF OwnerJoins, loopVars, NoLostWakeup
<1>6. CASE Check
  BY <1>6 DEF Check, NoLostWakeup
<1>7. CASE PollWoken \/ PollExpires
  BY <1>7 DEF PollWoken, PollExpires, ReturnFromPoll, NoLostWakeup
<1>8. CASE EventActs \/ EventsDone \/ HandleMessage \/ HandleStop
  BY <1>8 DEF EventActs, EventsDone, HandleMessage, HandleStop, NoLostWakeup
<1>9. CASE DrainEmpty \/ DrainDisconnected \/ TimerActs \/ TimersDone
  BY <1>9 DEF DrainEmpty, DrainDisconnected, TimerActs, TimersDone, NoLostWakeup
<1>10. CASE UNCHANGED vars
  BY <1>10 DEF vars, NoLostWakeup
<1> QED
  BY <1>1, <1>2, <1>3, <1>4, <1>5, <1>6, <1>7, <1>8, <1>9, <1>10, <1>11
     DEF Next, ProducerStep, OwnerStep, LoopStep

\* The loop never sleeps on messages with nobody about to wake it.
THEOREM NoWakeupLost == Spec => []NoLostWakeup
<1>1. Init => NoLostWakeup
  BY DEF Init, NoLostWakeup
<1> QED  BY <1>1, TypeCorrect, WakeupStep, PTL DEF Spec

----------------------------------------------------------------------------
(* Stop is the last message: once it has ended the loop, the drain is over. *)

DrainIsOver == quit = "stop" => phase \in {"timers", "ended"}

LEMMA OverStep == DrainIsOver /\ [Next]_vars => DrainIsOver'
<1> SUFFICES ASSUME DrainIsOver, [Next]_vars  PROVE DrainIsOver'
  OBVIOUS
<1>0. ASSUME NEW q, HandlerActs(q)  PROVE quit' = "stop" => quit = "stop"
  BY <1>0 DEF HandlerActs, Post, PostLetter, ShutDown
<1>1. CASE ProducerStep \/ OwnerStep
  BY <1>1 DEF ProducerStep, Send, SendLetter, Wake, WakeOnly, DropNotifier, OwnerStep, OwnerStops,
              OwnerWakes, OwnerJoins, loopVars, DrainIsOver
<1>2. CASE Check \/ PollWoken \/ PollExpires \/ EventActs \/ EventsDone
  BY <1>0, <1>2 DEF Check, PollWoken, PollExpires, ReturnFromPoll, EventActs, EventsDone,
                    DrainIsOver
<1>3. CASE HandleMessage \/ HandleStop \/ DrainEmpty \/ DrainDisconnected
  BY <1>0, <1>3 DEF HandleMessage, HandleStop, DrainEmpty, DrainDisconnected, DrainIsOver
<1>4. CASE TimerActs \/ TimersDone
  BY <1>0, <1>4 DEF TimerActs, TimersDone, DrainIsOver
<1>5. CASE UNCHANGED vars
  BY <1>5 DEF vars, DrainIsOver
<1> QED
  BY <1>1, <1>2, <1>3, <1>4, <1>5 DEF Next, LoopStep

\* While the drain is over no message is handled.
LEMMA NothingHandled ==
  DrainIsOver /\ [Next]_vars => [quit = "stop" => UNCHANGED delivered]_vars
<1> SUFFICES ASSUME DrainIsOver, [Next]_vars, quit = "stop"  PROVE UNCHANGED delivered
  OBVIOUS
<1>1. CASE ProducerStep \/ OwnerStep
  BY <1>1 DEF ProducerStep, Send, SendLetter, Wake, WakeOnly, DropNotifier, OwnerStep, OwnerStops,
              OwnerWakes, OwnerJoins, loopVars
<1>2. CASE Check \/ PollWoken \/ PollExpires \/ EventActs \/ EventsDone
  BY <1>2 DEF Check, PollWoken, PollExpires, ReturnFromPoll, EventActs, EventsDone
<1>3. CASE HandleMessage
  BY <1>3 DEF HandleMessage, DrainIsOver
<1>4. CASE HandleStop \/ DrainEmpty \/ DrainDisconnected \/ TimerActs \/ TimersDone
  BY <1>4 DEF HandleStop, DrainEmpty, DrainDisconnected, TimerActs, TimersDone
<1>5. CASE UNCHANGED vars
  BY <1>5 DEF vars
<1> QED
  BY <1>1, <1>2, <1>3, <1>4, <1>5 DEF Next, LoopStep

\* The Stop that ends the loop is the last message it handles.
THEOREM StopEndsTheDrain == Spec => StopIsLast
<1>1. Init => DrainIsOver
  BY DEF Init, DrainIsOver
<1> QED  BY <1>1, OverStep, NothingHandled, PTL DEF Spec, StopIsLast

----------------------------------------------------------------------------
(* A Stop drains what is ahead of it.  The invariant follows the Stops through *)
(* the channel: what is owed has been handled or is ahead of every one of them.*)

\* All of o is in d or ahead of each Stop of q.
AheadOfStops(q, o, d) ==
  \A i \in 1 .. Len(q) : q[i] = Stop =>
    \A m \in o : m \in d \/ \E h \in 1 .. (i - 1) : q[h] = m

OwedInv ==
  /\ AheadOfStops(queue, owed, delivered)
  /\ quit = "stop" => owed \subseteq delivered

\* A message other than Stop may join the channel.
LEMMA AppendOther ==
  ASSUME NEW q \in Seq(Message), NEW m \in Message, m # Stop, NEW o, NEW d,
         AheadOfStops(q, o, d)
  PROVE  AheadOfStops(Append(q, m), o, d)
<1> DEFINE r == Append(q, m)
<1>1. /\ Len(q) \in Nat
      /\ Len(r) = Len(q) + 1
      /\ \A i \in 1 .. Len(q) : r[i] = q[i]
      /\ r[Len(q) + 1] = m
  BY AppendProperties, LenProperties
<1> HIDE DEF r
<1>2. ASSUME NEW i \in 1 .. Len(r), r[i] = Stop, NEW n \in o
      PROVE  n \in d \/ \E h \in 1 .. (i - 1) : r[h] = n
  <2>1. i \in 1 .. Len(q) /\ q[i] = Stop
    BY <1>1, <1>2
  <2>2. n \in d \/ \E h \in 1 .. (i - 1) : q[h] = n
    BY <1>2, <2>1 DEF AheadOfStops
  <2>3. \A h \in 1 .. (i - 1) : r[h] = q[h]
    BY <1>1, <2>1
  <2> QED  BY <2>2, <2>3
<1>3. AheadOfStops(r, o, d)
  BY <1>2 DEF AheadOfStops
<1> QED  BY <1>3 DEF r

\* Taking the head of the channel, when it is not Stop, keeps what is owed
\* accounted for, if the head counts as delivered from then on.
LEMMA TakeOther ==
  ASSUME NEW q \in Seq(Message), q # <<>>, Head(q) # Stop,
         NEW o \in SUBSET AnyMessage, NEW d, AheadOfStops(q, o, d)
  PROVE  AheadOfStops(Tail(q), o, d \cup ({Head(q)} \cap AnyMessage))
<1> DEFINE r == Tail(q)
           e == d \cup ({Head(q)} \cap AnyMessage)
<1>1. /\ Len(q) \in Nat /\ Len(r) = Len(q) - 1
      /\ \A i \in 1 .. Len(r) : r[i] = q[i + 1]
      /\ Head(q) = q[1]
  BY HeadTailProperties, LenProperties
<1>2. \A n \in o : n \in d \/ n = q[1] => n \in e
  BY <1>1
<1> HIDE DEF r, e
<1>3. ASSUME NEW i \in 1 .. Len(r), r[i] = Stop, NEW n \in o
      PROVE  n \in e \/ \E h \in 1 .. (i - 1) : r[h] = n
  <2>1. i + 1 \in 1 .. Len(q) /\ q[i + 1] = Stop
    BY <1>1, <1>3
  <2>2. n \in d \/ \E h \in 1 .. ((i + 1) - 1) : q[h] = n
    BY <1>3, <2>1 DEF AheadOfStops
  <2>3. CASE n \in d
    BY <1>2, <2>3
  <2>4. CASE n \notin d
    <3>1. PICK h \in 1 .. ((i + 1) - 1) : q[h] = n
      BY <2>2, <2>4
    <3>2. CASE h = 1
      BY <1>2, <3>1, <3>2
    <3>3. CASE h # 1
      <4>1. h - 1 \in 1 .. (i - 1) /\ h - 1 \in 1 .. Len(r) /\ (h - 1) + 1 = h
        BY <1>1, <1>3, <3>3
      <4> QED  BY <1>1, <3>1, <4>1
    <3> QED  BY <3>2, <3>3
  <2> QED  BY <2>3, <2>4
<1>4. AheadOfStops(r, o, e)
  BY <1>3 DEF AheadOfStops
<1> QED  BY <1>4 DEF r, e

\* A dead letter behind q: what it owes is ahead of it, and if there is a Stop
\* already, what is owed is ahead of that one.
LEMMA AppendStop ==
  ASSUME NEW q \in Seq(Message), NEW d, AheadOfStops(q, owed, d),
         quit = "stop" => owed \subseteq d,
         StopBehind(q)
  PROVE  AheadOfStops(queue', owed', d) /\ (quit = "stop" => owed' = owed)
<1> DEFINE ahead == {q[i] : i \in 1 .. Len(q)}
           r == Append(q, Stop)
<1>1. /\ Len(q) \in Nat
      /\ Len(r) = Len(q) + 1
      /\ \A i \in 1 .. Len(q) : r[i] = q[i]
  BY AppendProperties, LenProperties, Kinds
<1>2. /\ queue' = r
      /\ owed' = IF quit = "stop" \/ Stop \in ahead THEN owed ELSE ahead \cap AnyMessage
  BY DEF StopBehind
<1>3. \A n \in ahead : \E h \in 1 .. Len(q) : q[h] = n
  OBVIOUS
<1>4. \A h \in 1 .. Len(q) : q[h] \in ahead
  OBVIOUS
<1> HIDE DEF r, ahead
<1>5. ASSUME NEW i \in 1 .. Len(r), r[i] = Stop, NEW n \in owed'
      PROVE  n \in d \/ \E h \in 1 .. (i - 1) : r[h] = n
  <2>1. CASE quit = "stop"
    BY <1>2, <1>5, <2>1
  <2>2. CASE quit # "stop" /\ Stop \in ahead
    <3>1. PICK j \in 1 .. Len(q) : q[j] = Stop
      BY <1>3, <2>2
    <3>2. PICK g \in 1 .. Len(q) : q[g] = Stop /\ g <= i
      <4>1. CASE i \in 1 .. Len(q)
        BY <1>1, <1>5, <4>1
      <4>2. CASE i \notin 1 .. Len(q)
        BY <1>1, <3>1, <4>2
      <4> QED  BY <4>1, <4>2
    <3>3. n \in d \/ \E h \in 1 .. (g - 1) : q[h] = n
      BY <1>2, <1>5, <2>2, <3>2 DEF AheadOfStops
    <3>4. \A h \in 1 .. (g - 1) : h \in 1 .. (i - 1) /\ r[h] = q[h]
      BY <1>1, <3>2
    <3> QED  BY <3>3, <3>4
  <2>3. CASE quit # "stop" /\ Stop \notin ahead
    <3>1. i = Len(q) + 1
      BY <1>1, <1>4, <1>5, <2>3
    <3>2. PICK h \in 1 .. Len(q) : q[h] = n
      BY <1>2, <1>3, <1>5, <2>3
    <3>3. h \in 1 .. (i - 1) /\ r[h] = n
      BY <1>1, <3>1, <3>2
    <3> QED  BY <3>3
  <2> QED  BY <2>1, <2>2, <2>3
<1>6. AheadOfStops(queue', owed', d)
  BY <1>2, <1>5 DEF AheadOfStops
<1> QED  BY <1>2, <1>6

\* What a handler does to its own loop; d is what has been handled.
LEMMA ActsOwed ==
  ASSUME NEW q \in Seq(Message), NEW d, AheadOfStops(q, owed, d),
         quit = "stop" => owed \subseteq d,
         HandlerActs(q)
  PROVE  AheadOfStops(queue', owed', d) /\ (quit' = "stop" => owed' \subseteq d)
<1>1. CASE Post(q)
  <2>1. queue' = Append(q, Own) /\ UNCHANGED <<quit, owed>>
    BY <1>1 DEF Post
  <2> QED  BY <2>1, AppendOther, Kinds
<1>2. CASE PostLetter(q)
  <2>1. StopBehind(q) /\ UNCHANGED quit
    BY <1>2 DEF PostLetter
  <2> QED  BY <2>1, AppendStop
<1>3. CASE ShutDown(q)
  BY <1>3 DEF ShutDown
<1> QED  BY <1>1, <1>2, <1>3 DEF HandlerActs

LEMMA OwedStep == TypeOK /\ OwedInv /\ [Next]_vars => OwedInv'
<1> SUFFICES ASSUME TypeOK, OwedInv, [Next]_vars  PROVE OwedInv'
  OBVIOUS
<1>0. /\ queue \in Seq(Message) /\ owed \in SUBSET AnyMessage
      /\ AheadOfStops(queue, owed, delivered)
      /\ quit = "stop" => owed \subseteq delivered
  BY DEF TypeOK, OwedInv
<1>1. ASSUME UNCHANGED <<queue, delivered, owed>>, quit' = "stop" => quit = "stop"
      PROVE  OwedInv'
  BY <1>1 DEF OwedInv
<1>2. ASSUME NEW p \in Producers, Send(p)  PROVE OwedInv'
  <2>1. UNCHANGED <<delivered, owed, quit>>
    BY <1>2 DEF Send, loopVars
  <2>2. CASE phase = "ended"
    BY <1>1, <1>2, <2>1, <2>2 DEF Send
  <2>3. CASE phase # "ended"
    <3>1. queue' = Append(queue, NextMessage(p)) /\ NextMessage(p) \in AnyMessage
      BY <1>2, <2>3, NextMessageType DEF Send
    <3>2. NextMessage(p) \in Message /\ NextMessage(p) # Stop
      BY <3>1, Kinds DEF Message
    <3>3. AheadOfStops(queue', owed, delivered)
      BY <1>0, <3>1, <3>2, AppendOther
    <3> QED  BY <1>0, <2>1, <3>3 DEF OwedInv
  <2> QED  BY <2>2, <2>3
<1>3. ASSUME NEW p \in Producers, Wake(p) \/ WakeOnly(p) \/ DropNotifier(p)  PROVE OwedInv'
  BY <1>1, <1>3 DEF Wake, WakeOnly, DropNotifier, loopVars
<1>4. CASE OwnerStops \/ \E p \in Producers : SendLetter(p)
  <2>1. UNCHANGED <<delivered, quit>> /\ (UNCHANGED <<queue, owed>> \/ StopBehind(queue))
    BY <1>4 DEF OwnerStops, SendLetter, loopVars
  <2>2. CASE UNCHANGED <<queue, owed>>
    BY <1>1, <2>1, <2>2
  <2>3. CASE StopBehind(queue)
    <3>1. AheadOfStops(queue', owed', delivered) /\ (quit = "stop" => owed' = owed)
      BY <1>0, <2>3, AppendStop
    <3> QED  BY <1>0, <2>1, <3>1 DEF OwedInv
  <2> QED  BY <2>1, <2>2, <2>3
<1>5. CASE OwnerWakes \/ OwnerJoins
  BY <1>1, <1>5 DEF OwnerWakes, OwnerJoins, loopVars
<1>6. CASE Check \/ PollWoken \/ PollExpires \/ EventsDone \/ DrainEmpty \/ DrainDisconnected
  BY <1>1, <1>6 DEF Check, PollWoken, PollExpires, ReturnFromPoll, EventsDone, DrainEmpty,
                    DrainDisconnected
<1>7. CASE EventActs \/ TimerActs
  <2>1. HandlerActs(queue) /\ UNCHANGED delivered
    BY <1>7 DEF EventActs, TimerActs
  <2>2. AheadOfStops(queue', owed', delivered) /\ (quit' = "stop" => owed' \subseteq delivered)
    BY <1>0, <2>1, ActsOwed
  <2> QED  BY <2>1, <2>2 DEF OwedInv
<1>8. CASE HandleMessage
  <2> DEFINE d == delivered \cup ({Head(queue)} \cap AnyMessage)
  <2>1. /\ queue # <<>> /\ Head(queue) # Stop
        /\ delivered' = d
        /\ \/ queue' = Tail(queue) /\ UNCHANGED <<quit, owed>>
           \/ HandlerActs(Tail(queue))
    BY <1>8 DEF HandleMessage, HasHead
  <2>2. AheadOfStops(Tail(queue), owed, d)
    BY <1>0, <2>1, TakeOther
  <2>3. Tail(queue) \in Seq(Message)
    BY <1>0, <2>1, HeadTailProperties
  <2>4. quit = "stop" => owed \subseteq d
    BY <1>0
  <2> HIDE DEF d
  <2>5. AheadOfStops(queue', owed', d) /\ (quit' = "stop" => owed' \subseteq d)
    <3>1. CASE HandlerActs(Tail(queue))
      BY <2>2, <2>3, <2>4, <3>1, ActsOwed
    <3> QED  BY <2>1, <2>2, <2>4, <3>1
  <2> QED  BY <2>1, <2>5 DEF OwedInv
<1>9. CASE HandleStop
  <2>1. /\ queue # <<>> /\ Head(queue) = Stop
        /\ UNCHANGED <<owed, delivered>>
    BY <1>9 DEF HandleStop, HasHead
  <2>2. 1 \in 1 .. Len(queue) /\ queue[1] = Stop
    BY <1>0, <2>1, HeadTailProperties, EmptySeq, LenProperties
  <2>3. \A m \in owed : m \in delivered \/ \E h \in 1 .. (1 - 1) : queue[h] = m
    BY <1>0, <2>2 DEF AheadOfStops
  <2>4. owed \subseteq delivered
    BY <2>3
  <2> QED  BY <2>1, <2>4 DEF OwedInv, AheadOfStops
<1>10. CASE TimersDone
  <2>1. UNCHANGED <<quit, delivered, owed>> /\ queue' \in {queue, <<>>}
    BY <1>10 DEF TimersDone
  <2>2. AheadOfStops(<<>>, owed, delivered)
    BY DEF AheadOfStops
  <2> QED  BY <1>0, <2>1, <2>2 DEF OwedInv
<1>11. CASE UNCHANGED vars
  BY <1>1, <1>11 DEF vars
<1> QED
  BY <1>2, <1>3, <1>4, <1>5, <1>6, <1>7, <1>8, <1>9, <1>10, <1>11
     DEF Next, ProducerStep, OwnerStep, LoopStep

\* When a Stop has ended the loop, all that was in the channel ahead of the first
\* Stop has been handled, whoever sends dead letters.
THEOREM StopDrainsFirst == Spec => []StopDrainsAhead
<1>1. Init => OwedInv
  BY DEF Init, OwedInv, AheadOfStops
<1>2. OwedInv => StopDrainsAhead
  BY DEF OwedInv, StopDrainsAhead
<1> QED  BY <1>1, <1>2, OwedStep, TypeCorrect, PTL DEF Spec

----------------------------------------------------------------------------
(* The order of a thread's messages.  ThreadOrderKept is inductive given the  *)
(* types: the first of p's messages in the channel is the one after those      *)
(* that have been handled.                                                     *)

LEMMA MessageOfType ==
  ASSUME NEW p \in Producers, NEW n \in 1 .. Quota
  PROVE  MessageOf(p, n) \in AnyMessage /\ IsFrom(MessageOf(p, n), p) /\ MessageOf(p, n).n = n
  BY DEF MessageOf, AnyMessage, IsFrom

\* A message is known by its sender and its number.
LEMMA KnownByNumber ==
  ASSUME NEW p \in Producers, NEW m, IsFrom(m, p)
  PROVE  m.n \in 1 .. Quota /\ m = MessageOf(p, m.n)
  BY DEF MessageOf, AnyMessage, IsFrom

\* A message of somebody else, or the next one of p, may join the channel.
LEMMA AppendKeepsOrder ==
  ASSUME NEW q \in Seq(Message), NEW m \in Message, NEW p \in Producers,
         NEW k \in Nat, NEW s \in Nat, k <= s, s <= Quota
  PROVE  /\ ~IsFrom(m, p) /\ OrderedIn(q, p, (k + 1) .. s) => OrderedIn(Append(q, m), p, (k + 1) .. s)
         /\ AllIn(q, p, (k + 1) .. s) => AllIn(Append(q, m), p, (k + 1) .. s)
         /\ m = MessageOf(p, s + 1) /\ s < Quota /\ OrderedIn(q, p, (k + 1) .. s)
              => OrderedIn(Append(q, m), p, (k + 1) .. (s + 1))
         /\ m = MessageOf(p, s + 1) /\ AllIn(q, p, (k + 1) .. s)
              => AllIn(Append(q, m), p, (k + 1) .. (s + 1))
<1> DEFINE r == Append(q, m)
<1>1. /\ Len(q) \in Nat /\ Len(r) = Len(q) + 1
      /\ \A i \in 1 .. Len(q) : r[i] = q[i]
      /\ r[Len(q) + 1] = m
  BY AppendProperties, LenProperties
<1> HIDE DEF r
<1>2. \A i \in 1 .. Len(r) : \/ i \in 1 .. Len(q) /\ r[i] = q[i]
                             \/ i = Len(q) + 1 /\ r[i] = m
  BY <1>1
<1>3. \A i \in 1 .. Len(q) : i \in 1 .. Len(r) /\ \A j \in 1 .. (i - 1) : r[j] = q[j]
  BY <1>1
<1>4. ASSUME ~IsFrom(m, p), OrderedIn(q, p, (k + 1) .. s)  PROVE OrderedIn(r, p, (k + 1) .. s)
  <2> SUFFICES ASSUME NEW i \in 1 .. Len(r), IsFrom(r[i], p)
               PROVE  /\ r[i].n \in (k + 1) .. s
                      /\ \A j \in 1 .. (i - 1) : IsFrom(r[j], p) => r[j].n < r[i].n
    BY DEF OrderedIn
  <2>1. i \in 1 .. Len(q) /\ r[i] = q[i]
    BY <1>2, <1>4
  <2> QED  BY <1>3, <1>4, <2>1 DEF OrderedIn
<1>5. ASSUME AllIn(q, p, (k + 1) .. s)  PROVE AllIn(r, p, (k + 1) .. s)
  BY <1>1, <1>3, <1>5 DEF AllIn
<1>6. ASSUME m = MessageOf(p, s + 1), s < Quota, OrderedIn(q, p, (k + 1) .. s)
      PROVE  OrderedIn(r, p, (k + 1) .. (s + 1))
  <2>1. m.n = s + 1
    BY <1>6 DEF MessageOf
  <2> SUFFICES ASSUME NEW i \in 1 .. Len(r), IsFrom(r[i], p)
               PROVE  /\ r[i].n \in (k + 1) .. (s + 1)
                      /\ \A j \in 1 .. (i - 1) : IsFrom(r[j], p) => r[j].n < r[i].n
    BY DEF OrderedIn
  <2>2. \A h \in 1 .. Len(q) : IsFrom(q[h], p) => q[h].n \in (k + 1) .. s
    BY <1>6 DEF OrderedIn
  <2>3. CASE i \in 1 .. Len(q) /\ r[i] = q[i]
    <3>1. q[i].n \in (k + 1) .. (s + 1)
      BY <2>2, <2>3
    <3> QED  BY <1>3, <1>6, <2>3, <3>1 DEF OrderedIn
  <2>4. CASE i = Len(q) + 1 /\ r[i] = m
    <3>1. \A j \in 1 .. (i - 1) : j \in 1 .. Len(q) /\ r[j] = q[j]
      BY <1>1, <2>4
    <3>2. \A h \in 1 .. Len(q) : IsFrom(q[h], p) => q[h].n < s + 1
      BY <2>2
    <3> QED  BY <2>1, <2>4, <3>1, <3>2
  <2> QED  BY <1>2, <2>3, <2>4
<1>7. ASSUME m = MessageOf(p, s + 1), AllIn(q, p, (k + 1) .. s)
      PROVE  AllIn(r, p, (k + 1) .. (s + 1))
  <2> SUFFICES ASSUME NEW n \in (k + 1) .. (s + 1)
               PROVE  \E i \in 1 .. Len(r) : r[i] = MessageOf(p, n)
    BY DEF AllIn
  <2>1. CASE n = s + 1
    <3>1. Len(q) + 1 \in 1 .. Len(r)
      BY <1>1
    <3> QED  BY <1>1, <1>7, <2>1, <3>1
  <2>2. CASE n # s + 1
    <3>1. n \in (k + 1) .. s
      BY <2>2
    <3>2. PICK i \in 1 .. Len(q) : q[i] = MessageOf(p, n)
      BY <1>7, <3>1 DEF AllIn
    <3> QED  BY <1>1, <1>3, <3>2
  <2> QED  BY <2>1, <2>2
<1> QED  BY <1>4, <1>5, <1>6, <1>7 DEF r

\* The head may leave the channel; if it is one of p's, it is the next one, and
\* the channel then holds those after it.
LEMMA TakeKeepsOrder ==
  ASSUME NEW q \in Seq(Message), q # <<>>, NEW p \in Producers,
         NEW k \in Nat, NEW s \in Nat, k <= s, s <= Quota,
         OrderedIn(q, p, (k + 1) .. s)
  PROVE  /\ ~IsFrom(Head(q), p) =>
              /\ OrderedIn(Tail(q), p, (k + 1) .. s)
              /\ AllIn(q, p, (k + 1) .. s) => AllIn(Tail(q), p, (k + 1) .. s)
         /\ IsFrom(Head(q), p) /\ AllIn(q, p, (k + 1) .. s) =>
              /\ Head(q).n = k + 1 /\ k < s
              /\ OrderedIn(Tail(q), p, (k + 2) .. s)
              /\ AllIn(Tail(q), p, (k + 2) .. s)
<1> DEFINE r == Tail(q)
<1>1. /\ Len(q) \in Nat \ {0} /\ Len(r) = Len(q) - 1
      /\ \A i \in 1 .. Len(r) : r[i] = q[i + 1]
      /\ Head(q) = q[1]
  BY HeadTailProperties, LenProperties, EmptySeq
<1> HIDE DEF r
<1>2. \A i \in 1 .. Len(r) : i + 1 \in 1 .. Len(q) /\ r[i] = q[i + 1]
  BY <1>1
<1>3. \A i \in 1 .. Len(q) : i = 1 \/ (i - 1 \in 1 .. Len(r) /\ r[i - 1] = q[i])
  BY <1>1
<1>4. ASSUME NEW i \in 1 .. Len(r), IsFrom(r[i], p)
      PROVE  /\ r[i].n \in (k + 1) .. s
             /\ \A j \in 1 .. (i - 1) : IsFrom(r[j], p) => r[j].n < r[i].n
             /\ IsFrom(q[1], p) => q[1].n < r[i].n
  <2>1. /\ q[i + 1].n \in (k + 1) .. s
        /\ \A j \in 1 .. ((i + 1) - 1) : IsFrom(q[j], p) => q[j].n < q[i + 1].n
    BY <1>2, <1>4 DEF OrderedIn
  <2>2. \A j \in 1 .. (i - 1) : j + 1 \in 1 .. ((i + 1) - 1) /\ r[j] = q[j + 1]
    BY <1>1
  <2>3. 1 \in 1 .. ((i + 1) - 1)
    OBVIOUS
  <2> QED  BY <1>2, <2>1, <2>2, <2>3
<1>5. ASSUME ~IsFrom(q[1], p)
      PROVE  /\ OrderedIn(r, p, (k + 1) .. s)
             /\ AllIn(q, p, (k + 1) .. s) => AllIn(r, p, (k + 1) .. s)
  <2>1. OrderedIn(r, p, (k + 1) .. s)
    BY <1>4 DEF OrderedIn
  <2>2. ASSUME AllIn(q, p, (k + 1) .. s), NEW n \in (k + 1) .. s
        PROVE  \E i \in 1 .. Len(r) : r[i] = MessageOf(p, n)
    <3>1. PICK i \in 1 .. Len(q) : q[i] = MessageOf(p, n)
      BY <2>2 DEF AllIn
    <3>2. n \in 1 .. Quota
      BY LoopAssumption
    <3>3. i # 1
      BY <1>5, <3>1, <3>2, MessageOfType
    <3> QED  BY <1>3, <3>1, <3>3
  <2> QED  BY <2>1, <2>2 DEF AllIn
<1>6. ASSUME IsFrom(q[1], p), AllIn(q, p, (k + 1) .. s)
      PROVE  /\ q[1].n = k + 1 /\ k < s
             /\ OrderedIn(r, p, (k + 2) .. s)
             /\ AllIn(r, p, (k + 2) .. s)
  <2>1. q[1].n \in (k + 1) .. s
    BY <1>1, <1>6 DEF OrderedIn
  <2>2. k + 1 \in (k + 1) .. s /\ k + 1 \in 1 .. Quota
    BY <2>1, LoopAssumption
  <2>3. PICK i \in 1 .. Len(q) : q[i] = MessageOf(p, k + 1)
    BY <1>6, <2>2 DEF AllIn
  <2>4. IsFrom(q[i], p) /\ q[i].n = k + 1
    BY <2>2, <2>3, MessageOfType
  <2>5. q[1].n = k + 1
    <3>1. CASE i = 1
      BY <2>4, <3>1
    <3>2. CASE i # 1
      <4>1. PICK h \in 1 .. Len(r) : r[h] = q[i]
        BY <1>3, <3>2
      <4>2. q[1].n < q[i].n
        BY <1>4, <1>6, <2>4, <4>1
      <4> QED  BY <2>1, <2>4, <4>2
    <3> QED  BY <3>1, <3>2
  <2>6. OrderedIn(r, p, (k + 2) .. s)
    <3>1. ASSUME NEW h \in 1 .. Len(r), IsFrom(r[h], p)  PROVE r[h].n \in (k + 2) .. s
      <4>1. r[h].n \in (k + 1) .. s /\ q[1].n < r[h].n
        BY <1>4, <1>6, <3>1
      <4> QED  BY <2>5, <4>1
    <3> QED  BY <1>4, <3>1 DEF OrderedIn
  <2>7. ASSUME NEW n \in (k + 2) .. s  PROVE \E h \in 1 .. Len(r) : r[h] = MessageOf(p, n)
    <3>1. n \in (k + 1) .. s /\ n \in 1 .. Quota /\ n # k + 1
      BY LoopAssumption
    <3>2. PICK h \in 1 .. Len(q) : q[h] = MessageOf(p, n)
      BY <1>6, <3>1 DEF AllIn
    <3>3. h # 1
      BY <2>5, <3>1, <3>2, MessageOfType
    <3> QED  BY <1>3, <3>2, <3>3
  <2> QED  BY <2>2, <2>5, <2>6, <2>7 DEF AllIn
<1> QED  BY <1>1, <1>5, <1>6 DEF r

LEMMA OrderStep == TypeOK /\ ThreadOrderKept /\ [Next]_vars => ThreadOrderKept'
<1> SUFFICES ASSUME TypeOK, ThreadOrderKept, [Next]_vars, NEW p \in Producers
             PROVE  \E k \in 0 .. sent'[p] : HandledUpTo(p, k)'
  BY DEF ThreadOrderKept
<1>0. queue \in Seq(Message) /\ sent[p] \in Nat /\ sent[p] <= Quota
  BY LoopAssumption DEF TypeOK
<1>k. PICK k \in 0 .. sent[p] : HandledUpTo(p, k)
  BY DEF ThreadOrderKept
<1>n. k \in Nat /\ k <= sent[p] /\ Quota \in Nat
  BY <1>0, <1>k, LoopAssumption
<1>1. ASSUME UNCHANGED <<queue, delivered>>, sent'[p] = sent[p],
             phase' # "ended" => phase # "ended"
      PROVE  HandledUpTo(p, k)'
  BY <1>k, <1>1 DEF HandledUpTo, OrderedIn, AllIn
\* What joins the channel is not from p.
<1>2. ASSUME NEW m \in Message, ~IsFrom(m, p), queue' = Append(queue, m),
             UNCHANGED delivered, sent'[p] = sent[p], phase' # "ended" => phase # "ended"
      PROVE  HandledUpTo(p, k)'
  <2>1. /\ OrderedIn(queue', p, (k + 1) .. sent[p])
        /\ phase # "ended" => AllIn(queue', p, (k + 1) .. sent[p])
    BY <1>0, <1>k, <1>n, <1>2, AppendKeepsOrder DEF HandledUpTo
  <2> QED  BY <1>k, <1>2, <2>1 DEF HandledUpTo, OrderedIn, AllIn
<1>3. ~IsFrom(Own, p) /\ ~IsFrom(Stop, p) /\ Own \in Message /\ Stop \in Message
  BY DEF IsFrom, AnyMessage, Own, Stop, Message
<1>4. ASSUME NEW r \in Producers, Send(r)  PROVE \E h \in 0 .. sent'[p] : HandledUpTo(p, h)'
  <2>1. UNCHANGED <<delivered, phase>>
    BY <1>4 DEF Send, loopVars
  <2>2. CASE phase = "ended"
    BY <1>1, <1>4, <2>1, <2>2, <1>k DEF Send
  <2>3. CASE phase # "ended"
    <3>1. /\ queue' = Append(queue, MessageOf(r, sent[r] + 1))
          /\ sent' = [sent EXCEPT ![r] = sent[r] + 1]
          /\ sent[r] < Quota
      BY <1>4, <2>3 DEF Send, NextMessage
    <3>2. sent[r] + 1 \in 1 .. Quota
      BY <3>1, LoopAssumption DEF TypeOK
    <3>3. MessageOf(r, sent[r] + 1) \in Message
      BY <3>2, MessageOfType DEF Message
    <3>4. CASE r = p
      <4>1. sent'[p] = sent[p] + 1
        BY <3>1, <3>4 DEF TypeOK
      <4>2. /\ OrderedIn(queue', p, (k + 1) .. (sent[p] + 1))
            /\ AllIn(queue', p, (k + 1) .. (sent[p] + 1))
        BY <1>0, <1>k, <1>n, <2>3, <3>1, <3>3, <3>4, AppendKeepsOrder DEF HandledUpTo
      <4>3. HandledUpTo(p, k)'
        BY <1>k, <2>1, <4>1, <4>2 DEF HandledUpTo, OrderedIn, AllIn
      <4> QED  BY <1>n, <1>0, <4>1, <4>3
    <3>5. CASE r # p
      <4>1. sent'[p] = sent[p]
        BY <3>1, <3>5 DEF TypeOK
      <4>2. ~IsFrom(MessageOf(r, sent[r] + 1), p)
        BY <3>5 DEF IsFrom, MessageOf
      <4> QED  BY <1>2, <1>k, <2>1, <3>1, <3>3, <4>1, <4>2
    <3> QED  BY <3>4, <3>5
  <2> QED  BY <2>2, <2>3
<1>5. ASSUME NEW r \in Producers, Wake(r) \/ WakeOnly(r) \/ DropNotifier(r)
      PROVE  \E h \in 0 .. sent'[p] : HandledUpTo(p, h)'
  BY <1>1, <1>5, <1>k DEF Wake, WakeOnly, DropNotifier, loopVars
<1>6. CASE OwnerStep \/ \E r \in Producers : SendLetter(r)
  <2>1. UNCHANGED <<delivered, sent, phase>> /\ queue' \in {queue, Append(queue, Stop)}
    BY <1>6 DEF OwnerStep, OwnerStops, OwnerWakes, OwnerJoins, SendLetter, StopBehind, loopVars
  <2> QED  BY <1>1, <1>2, <1>3, <1>k, <2>1
<1>7. CASE Check \/ PollWoken \/ PollExpires \/ EventsDone \/ DrainEmpty \/ DrainDisconnected
  BY <1>1, <1>7, <1>k DEF Check, PollWoken, PollExpires, ReturnFromPoll, EventsDone, DrainEmpty,
                          DrainDisconnected
<1>13. ASSUME NEW q, HandlerActs(q)
       PROVE  queue' \in {q, Append(q, Own), Append(q, Stop)}
  BY <1>13 DEF HandlerActs, Post, PostLetter, StopBehind, ShutDown
<1>8. CASE EventActs \/ TimerActs
  <2>1. /\ queue' \in {queue, Append(queue, Own), Append(queue, Stop)}
        /\ UNCHANGED <<delivered, sent, phase>>
    BY <1>8, <1>13 DEF EventActs, TimerActs
  <2> QED  BY <1>1, <1>2, <1>3, <1>k, <2>1
<1>9. CASE HandleMessage
  <2> DEFINE q == Tail(queue)
  <2>1. /\ queue # <<>> /\ UNCHANGED <<sent, phase>> /\ phase # "ended"
        /\ delivered' = delivered \cup ({Head(queue)} \cap AnyMessage)
        /\ queue' \in {q, Append(q, Own), Append(q, Stop)}
    BY <1>9, <1>13 DEF HandleMessage, HasHead
  <2>2. q \in Seq(Message)
    BY <1>0, <2>1, HeadTailProperties
  <2>3. PICK h \in k .. sent[p] :
          /\ \A m \in AnyMessage : m.from = p => (m \in delivered' <=> m.n <= h)
          /\ OrderedIn(q, p, (h + 1) .. sent[p])
          /\ AllIn(q, p, (h + 1) .. sent[p])
    <3>1. CASE ~IsFrom(Head(queue), p)
      <4>1. /\ OrderedIn(q, p, (k + 1) .. sent[p])
            /\ AllIn(q, p, (k + 1) .. sent[p])
        BY <1>0, <1>k, <1>n, <2>1, <3>1, TakeKeepsOrder DEF HandledUpTo
      <4>2. \A m \in AnyMessage : m.from = p => (m \in delivered' <=> m.n <= k)
        BY <1>k, <2>1, <3>1 DEF HandledUpTo, IsFrom
      <4>3. k \in k .. sent[p]
        BY <1>n, <1>0
      <4> QED  BY <4>1, <4>2, <4>3
    <3>2. CASE IsFrom(Head(queue), p)
      <4>1. /\ Head(queue).n = k + 1 /\ k < sent[p]
            /\ OrderedIn(q, p, (k + 2) .. sent[p])
            /\ AllIn(q, p, (k + 2) .. sent[p])
        BY <1>0, <1>k, <1>n, <2>1, <3>2, TakeKeepsOrder DEF HandledUpTo
      <4>2. ASSUME NEW m \in AnyMessage, m.from = p  PROVE m \in delivered' <=> m.n <= k + 1
        <5>1. m \in delivered <=> m.n <= k
          BY <1>k, <4>2 DEF HandledUpTo
        <5>2. m.n \in 1 .. Quota /\ m = MessageOf(p, m.n) /\ Head(queue) = MessageOf(p, k + 1)
          BY <3>2, <4>1, <4>2, KnownByNumber DEF IsFrom
        <5>3. m = Head(queue) <=> m.n = k + 1
          BY <4>1, <5>2
        <5>4. m \in delivered' <=> m \in delivered \/ m = Head(queue)
          BY <2>1, <4>2
        <5> QED  BY <1>n, <5>1, <5>2, <5>3, <5>4
      <4>3. k + 1 \in k .. sent[p] /\ (k + 1) + 1 = k + 2
        BY <1>n, <1>0, <4>1
      <4> QED  BY <4>1, <4>2, <4>3
    <3> QED  BY <3>1, <3>2
  <2>4. h \in Nat /\ h <= sent[p] /\ h \in 0 .. sent[p]
    BY <1>n, <1>0, <2>3
  <2> HIDE DEF q
  <2>5. /\ OrderedIn(queue', p, (h + 1) .. sent[p])
        /\ AllIn(queue', p, (h + 1) .. sent[p])
    <3>1. CASE queue' = q
      BY <2>3, <3>1
    <3>2. CASE queue' = Append(q, Own) \/ queue' = Append(q, Stop)
      BY <1>0, <1>3, <2>2, <2>3, <2>4, <3>2, AppendKeepsOrder
    <3> QED  BY <2>1, <3>1, <3>2
  <2>6. HandledUpTo(p, h)'
    BY <2>1, <2>3, <2>5 DEF HandledUpTo, OrderedIn, AllIn
  <2> QED  BY <2>1, <2>4, <2>6
<1>10. CASE HandleStop
  <2>1. /\ queue # <<>> /\ Head(queue) = Stop /\ queue' = Tail(queue)
        /\ UNCHANGED <<sent, delivered>> /\ phase # "ended"
    BY <1>10 DEF HandleStop, HasHead
  <2>2. /\ OrderedIn(queue', p, (k + 1) .. sent[p])
        /\ AllIn(queue', p, (k + 1) .. sent[p])
    BY <1>0, <1>3, <1>k, <1>n, <2>1, TakeKeepsOrder DEF HandledUpTo
  <2>3. HandledUpTo(p, k)'
    BY <1>k, <2>1, <2>2 DEF HandledUpTo, OrderedIn, AllIn
  <2> QED  BY <1>k, <2>1, <2>3
<1>11. CASE TimersDone
  <2>1. CASE quit = "no"
    BY <1>1, <1>11, <1>k, <2>1 DEF TimersDone
  <2>2. CASE quit # "no"
    <3>1. queue' = <<>> /\ phase' = "ended" /\ UNCHANGED <<sent, delivered>>
      BY <1>11, <2>2 DEF TimersDone
    <3>2. HandledUpTo(p, k)'
      BY <1>k, <3>1 DEF HandledUpTo, OrderedIn
    <3> QED  BY <1>k, <3>1, <3>2
  <2> QED  BY <2>1, <2>2
<1>12. CASE UNCHANGED vars
  BY <1>1, <1>12, <1>k DEF vars
<1> QED
  BY <1>4, <1>5, <1>6, <1>7, <1>8, <1>9, <1>10, <1>11, <1>12
     DEF Next, ProducerStep, LoopStep

\* Each thread's messages are handled in its order, each once, and none is lost.
THEOREM ThreadOrder == Spec => []ThreadOrderKept
<1>1. Init => ThreadOrderKept
  <2> SUFFICES ASSUME Init, NEW p \in Producers  PROVE 0 \in 0 .. sent[p] /\ HandledUpTo(p, 0)
    BY DEF ThreadOrderKept
  <2>1. sent[p] = 0 /\ queue = <<>> /\ delivered = {}
    BY DEF Init
  <2>2. \A m \in AnyMessage : ~(m.n <= 0)
    BY LoopAssumption DEF AnyMessage
  <2> QED  BY <2>1, <2>2 DEF HandledUpTo, OrderedIn, AllIn
<1> QED  BY <1>1, TypeCorrect, OrderStep, PTL DEF Spec

=============================================================================
