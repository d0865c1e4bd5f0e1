--------------------------- MODULE TimerTasksProofs ---------------------------
(***************************************************************************)
(* The maps of the timed callbacks agree with the wheel, no callback runs    *)
(* after its cancel, and each runs for its own task and on its own           *)
(* connection as far as its mark is not used again too early and on_close    *)
(* does not leave it behind: see TimerTasks.                                 *)
(***************************************************************************)
EXTENDS TimerTasks, FiniteSetTheorems, WellFoundedInduction, TLAPS

Posted(msg) == \E i \in DOMAIN queue : queue[i] = msg

\* The callback of n may still run.
Live(n) == Kept(n) \/ Posted(AddTimer(n))

\* What is kept for a mark is of that mark and kind.  A callback of a one-shot
\* timer has its timer in the wheel; a timer that has been armed again is that
\* of a repeating task, which has no other.
Handles ==
  /\ \A m \in DOMAIN timers :
       /\ timers[m].handle = timers[m].task /\ timers[m].task \in DOMAIN wheel
       /\ Mark(timers[m].task) = m /\ m \notin Repeating
  /\ \A m \in DOMAIN timers2 : timers2[m].handle = timers2[m].task /\ Mark(timers2[m].task) = m
  /\ \A h \in DOMAIN wheel :
       /\ wheel[h].due > 0
       /\ wheel[h].repeats => h = wheel[h].task /\ tasks[h].interval > 0
       /\ h # wheel[h].task => Mark(wheel[h].task) \in Repeating
  /\ \A n \in DOMAIN tasks : ~(n \in DOMAIN wheel /\ Rearmed(n) \in DOMAIN wheel)

\* A task whose AddTimer is posted, which is once, has not been armed, kept, run
\* or cancelled; one that is kept has not been cancelled nor, if it runs once, run.
Fresh ==
  \A n \in DOMAIN tasks :
    /\ Posted(AddTimer(n)) => /\ n \notin ran \cup revoked /\ ~Kept(n)
                              /\ n \notin DOMAIN wheel /\ Rearmed(n) \notin DOMAIN wheel
    /\ \A i, j \in DOMAIN queue : queue[i] = AddTimer(n) /\ queue[j] = AddTimer(n) => i = j
    /\ Kept(n) => n \notin revoked
    /\ Kept(n) /\ Mark(n) \notin Repeating => n \notin ran

\* The timers of a mark that has not been used again too early are those of what
\* is kept for it.
Alone ==
  \A h \in DOMAIN wheel : Mark(wheel[h].task) \notin misused =>
    /\ Mark(wheel[h].task) \notin Repeating =>
         Mark(wheel[h].task) \in DOMAIN timers /\ timers[Mark(wheel[h].task)].handle = h
    /\ wheel[h].repeats => /\ Mark(wheel[h].task) \in DOMAIN timers2 /\ h \notin ran
                           /\ timers2[Mark(wheel[h].task)].handle = h

\* A CancelTimer for m is posted between the i-th and the j-th message.
Between(i, j, m) == \E c \in DOMAIN queue : i < c /\ c < j /\ queue[c] = CancelTimer(m)

\* The callback of n is cancelled before the j-th message is handled.
CancelledBefore(j, n) ==
  /\ Kept(n) => Between(0, j, Mark(n))
  /\ \A i \in DOMAIN queue : i < j /\ queue[i] = AddTimer(n) => Between(i, j, Mark(n))

\* A mark that has not been used again too early has been cancelled whenever an
\* AddTimer for it comes.
Ordered ==
  \A j \in DOMAIN queue, n, k \in DOMAIN tasks :
    queue[j] = AddTimer(n) /\ Mark(k) = Mark(n) /\ Mark(n) \notin misused => CancelledBefore(j, k)

\* What may still run and is no stray has its connection; a Removed comes once,
\* and behind all of the connection but the strays.
Ends ==
  /\ \A n \in DOMAIN tasks \ strays : Live(n) => conn[tasks[n].token] = tasks[n].stream
  /\ \A j \in DOMAIN queue, t \in Tokens : queue[j] = Removed(t) =>
       /\ conn[t] \in closed
       /\ \A i \in DOMAIN queue : queue[i] = Removed(t) => i = j
       /\ \A n \in DOMAIN tasks \ strays : tasks[n].token = t =>
            CancelledBefore(j, n) /\ \A i \in DOMAIN queue : queue[i] = AddTimer(n) => i < j

Inv == TypeOK /\ Handles /\ Fresh /\ Alone /\ Ordered /\ Ends

----------------------------------------------------------------------------
(* Types *)

LEMMA TasksType ==
  ASSUME TypeOK
  PROVE  /\ Len(tasks) \in Nat /\ DOMAIN tasks = 1 .. Len(tasks)
         /\ \A n \in DOMAIN tasks :
              /\ tasks[n] \in Task /\ tasks[n].mark \in Marks /\ tasks[n].token \in Tokens
              /\ tasks[n].stream \in 1 .. MaxStreams /\ tasks[n].delay \in Nat /\ tasks[n].interval \in Nat
              /\ n \in 1 .. MaxTasks /\ Rearmed(n) \in Nat /\ Rearmed(n) > MaxTasks
<1>1. tasks \in Seq(Task) /\ Len(tasks) <= MaxTasks
  BY DEF TypeOK
<1>2. Len(tasks) \in Nat /\ DOMAIN tasks = 1 .. Len(tasks) /\ \A n \in DOMAIN tasks : tasks[n] \in Task
  BY <1>1
<1>3. \A n \in DOMAIN tasks : n \in 1 .. MaxTasks /\ Rearmed(n) \in Nat /\ Rearmed(n) > MaxTasks
  BY <1>1, <1>2, TaskAssumption DEF Rearmed
<1>4. \A x \in Task : /\ x.mark \in Marks /\ x.token \in Tokens
                     /\ x.stream \in 1 .. MaxStreams /\ x.delay \in Nat /\ x.interval \in Nat
  <2>1. Delays \subseteq Nat /\ Intervals \cup {0} \subseteq Nat
    BY TaskAssumption
  <2>2. \A x \in Task : /\ x.mark \in Marks /\ x.token \in Tokens
                       /\ x.stream \in 1 .. MaxStreams /\ x.delay \in Delays
                       /\ x.interval \in Intervals \cup {0}
    BY DEF Task
  <2> QED  BY <2>1, <2>2
<1> QED  BY <1>2, <1>3, <1>4

Messages(D) ==
  [kind : {"add"}, task : D] \cup [kind : {"cancel"}, mark : Marks] \cup [kind : {"removed"}, token : Tokens]

\* A message is about a task, a mark or a token.
LEMMA MessageKinds ==
  ASSUME TypeOK
  PROVE  /\ Len(queue) \in Nat /\ DOMAIN queue = 1 .. Len(queue) /\ queue \in Seq(Messages(DOMAIN tasks))
         /\ \A i \in DOMAIN queue :
              \/ \E n \in DOMAIN tasks : queue[i] = AddTimer(n)
              \/ \E m \in Marks : queue[i] = CancelTimer(m)
              \/ \E t \in Tokens : queue[i] = Removed(t)
         /\ \A i \in DOMAIN queue :
              /\ queue[i].kind = "add" => queue[i].task \in DOMAIN tasks /\ queue[i] = AddTimer(queue[i].task)
              /\ queue[i].kind = "cancel" => queue[i].mark \in Marks /\ queue[i] = CancelTimer(queue[i].mark)
              /\ queue[i].kind = "removed" => queue[i].token \in Tokens /\ queue[i] = Removed(queue[i].token)
         /\ \A n : \A i \in DOMAIN queue : queue[i] = AddTimer(n) => n \in DOMAIN tasks
<1>1. Len(queue) \in Nat /\ DOMAIN queue = 1 .. Len(queue) /\ queue \in Seq(Messages(DOMAIN tasks))
  BY DEF TypeOK, Messages
<1>2. \A i \in DOMAIN queue :
        \/ \E n \in DOMAIN tasks : queue[i] = AddTimer(n)
        \/ \E m \in Marks : queue[i] = CancelTimer(m)
        \/ \E t \in Tokens : queue[i] = Removed(t)
  <2>1. \A x \in Messages(DOMAIN tasks) :
          \/ \E n \in DOMAIN tasks : x = AddTimer(n)
          \/ \E m \in Marks : x = CancelTimer(m)
          \/ \E t \in Tokens : x = Removed(t)
    BY DEF Messages, AddTimer, CancelTimer, Removed
  <2>2. \A i \in DOMAIN queue : queue[i] \in Messages(DOMAIN tasks)
    BY <1>1
  <2> QED  BY <2>1, <2>2
<1> QED  BY <1>1, <1>2 DEF AddTimer, CancelTimer, Removed

LEMMA Distinct ==
  /\ \A n, k : AddTimer(n) # CancelTimer(k)
  /\ \A n, t : AddTimer(n) # Removed(t) /\ CancelTimer(n) # Removed(t)
  /\ \A n, k : (AddTimer(n) = AddTimer(k) => n = k) /\ (CancelTimer(n) = CancelTimer(k) => n = k)
  /\ \A t, u : Removed(t) = Removed(u) => t = u
BY DEF AddTimer, CancelTimer, Removed

\* The wheel holds two timers of a task at most.
LEMMA WheelFinite ==
  ASSUME TypeOK
  PROVE  IsFiniteSet(DOMAIN wheel) /\ Cardinality(DOMAIN wheel) \in Nat
<1>1. DOMAIN wheel \subseteq 0 .. (MaxTasks + MaxTasks)
  <2>1. \A h \in DOMAIN wheel : \E n \in DOMAIN tasks : h = n \/ h = n + MaxTasks
    BY DEF TypeOK, Rearmed
  <2>2. \A n \in DOMAIN tasks : n \in 1 .. MaxTasks
    BY TasksType
  <2> QED  BY <2>1, <2>2, TaskAssumption
<1>2. IsFiniteSet(0 .. (MaxTasks + MaxTasks))
  BY FS_Interval, TaskAssumption
<1> QED  BY <1>1, <1>2, FS_Subset, FS_CardinalityType

\* Messages stay messages when tasks are added.
LEMMA SeqWiden ==
  ASSUME NEW S, NEW T, S \subseteq T, NEW q \in Seq(S)
  PROVE  q \in Seq(T)
OBVIOUS

LEMMA TypeInit == Init => TypeOK
<1> SUFFICES ASSUME Init  PROVE TypeOK
  OBVIOUS
<1>1. DOMAIN wheel = {} /\ DOMAIN timers = {} /\ DOMAIN timers2 = {}
  BY DEF Init
<1>2. Cardinality(DOMAIN wheel) = 0
  BY <1>1, FS_EmptySet
<1>3. tasks \in Seq(Task) /\ Len(tasks) = 0 /\ DOMAIN tasks = {}
  BY DEF Init
<1>4. queue \in Seq(Messages(DOMAIN tasks))
  BY DEF Init
<1> QED  BY <1>1, <1>2, <1>3, <1>4, TaskAssumption DEF Init, TypeOK, Messages

LEMMA WithoutType ==
  ASSUME NEW f, NEW x
  PROVE  /\ DOMAIN Without(f, x) = DOMAIN f \ {x}
         /\ \A z \in DOMAIN f \ {x} : Without(f, x)[z] = f[z]
BY DEF Without

LEMMA PutType ==
  ASSUME NEW f, NEW x, NEW y
  PROVE  /\ DOMAIN Put(f, x, y) = DOMAIN f \cup {x}
         /\ Put(f, x, y)[x] = y
         /\ \A z \in DOMAIN f : z # x => Put(f, x, y)[z] = f[z]
BY DEF Put

\* What holds of every timer or entry still does without one, or with one more.
LEMMA WithoutEach ==
  ASSUME NEW f, NEW x, NEW R, \A z \in DOMAIN f : <<z, f[z]>> \in R
  PROVE  \A z \in DOMAIN Without(f, x) : <<z, Without(f, x)[z]>> \in R
<1> SUFFICES ASSUME NEW z \in DOMAIN Without(f, x)
             PROVE  <<z, Without(f, x)[z]>> \in R
  OBVIOUS
<1>1. z \in DOMAIN f /\ Without(f, x)[z] = f[z]
  BY WithoutType
<1> QED  BY <1>1, Zenon

LEMMA PutEach ==
  ASSUME NEW f, NEW x, NEW y, NEW R, \A z \in DOMAIN f : <<z, f[z]>> \in R, <<x, y>> \in R
  PROVE  \A z \in DOMAIN Put(f, x, y) : <<z, Put(f, x, y)[z]>> \in R
<1> SUFFICES ASSUME NEW z \in DOMAIN Put(f, x, y)
             PROVE  <<z, Put(f, x, y)[z]>> \in R
  OBVIOUS
<1>1. CASE z = x
  <2>1. Put(f, x, y)[z] = y
    BY <1>1 DEF Put
  <2> QED  BY <1>1, <2>1, Zenon
<1>2. CASE z # x
  <2>1. z \in DOMAIN f /\ Put(f, x, y)[z] = f[z]
    BY <1>2 DEF Put
  <2> QED  BY <2>1, Zenon
<1> QED  BY <1>1, <1>2

\* The wheel holds no more timers than before, or one more if it is not full.
LEMMA WheelWithout ==
  ASSUME TypeOK, NEW h
  PROVE  /\ Cardinality(DOMAIN Without(wheel, h)) <= Capacity
         /\ h \in DOMAIN wheel => Cardinality(DOMAIN Without(wheel, h)) < Capacity
         /\ IsFiniteSet(DOMAIN Without(wheel, h)) /\ Cardinality(DOMAIN Without(wheel, h)) \in Nat
<1>1. /\ IsFiniteSet(DOMAIN wheel) /\ Cardinality(DOMAIN wheel) \in Nat
      /\ Cardinality(DOMAIN wheel) <= Capacity
  BY WheelFinite DEF TypeOK
<1>2. /\ IsFiniteSet(DOMAIN wheel \ {h})
      /\ Cardinality(DOMAIN wheel \ {h}) =
           IF h \in DOMAIN wheel THEN Cardinality(DOMAIN wheel) - 1 ELSE Cardinality(DOMAIN wheel)
  BY <1>1, FS_RemoveElement
<1>3. Cardinality(DOMAIN wheel \ {h}) \in Nat
  BY <1>2, FS_CardinalityType
<1>4. DOMAIN Without(wheel, h) = DOMAIN wheel \ {h}
  BY WithoutType
<1>5. Capacity \in Nat
  BY TaskAssumption
<1> QED  BY <1>1, <1>2, <1>3, <1>4, <1>5

LEMMA CardinalityPut ==
  ASSUME NEW f, IsFiniteSet(DOMAIN f), Cardinality(DOMAIN f) < Capacity, NEW x, NEW y
  PROVE  Cardinality(DOMAIN Put(f, x, y)) <= Capacity
<1>1. Cardinality(DOMAIN f) \in Nat
  BY FS_CardinalityType
<1>2. Cardinality(DOMAIN f \cup {x}) <= Cardinality(DOMAIN f) + 1
  BY <1>1, FS_AddElement
<1>3. Cardinality(DOMAIN f \cup {x}) \in Nat
  BY FS_AddElement, FS_CardinalityType
<1>4. DOMAIN Put(f, x, y) = DOMAIN f \cup {x}
  BY PutType
<1>5. Capacity \in Nat
  BY TaskAssumption
<1> QED  BY <1>1, <1>2, <1>3, <1>4, <1>5

LEMMA TypeUser ==
  ASSUME TypeOK, UserStep
  PROVE  TypeOK'
<1>1. CASE \E t \in Tokens, m \in Marks, d \in Delays : \E i \in IntervalsOf(m) : Schedule(t, m, d, i)
  <2>1. PICK t \in Tokens, m \in Marks, d \in Delays : \E i \in IntervalsOf(m) : Schedule(t, m, d, i)
    BY <1>1
  <2>2. PICK i \in IntervalsOf(m) : Schedule(t, m, d, i)
    BY <2>1
  <2> DEFINE n == Len(tasks) + 1
             task == [mark |-> m, token |-> t, stream |-> conn[t], delay |-> d, interval |-> i]
  <2>3. /\ tasks' = Append(tasks, task) /\ n <= MaxTasks /\ conn[t] # 0
        /\ misused' \subseteq misused \cup {m} /\ strays' \subseteq strays \cup {n}
        /\ queue' = Append(queue, AddTimer(n))
        /\ UNCHANGED <<conn, streams, closed, cancels, stops, phase, clock, wheel, timers, timers2, ran, revoked>>
    BY <2>2 DEF Schedule, connVars, mapVars, histVars
  <2>4. task \in Task /\ (task.interval > 0 => task.mark \in Repeating)
    <3>1. conn[t] \in 1 .. MaxStreams
      <4>1. conn[t] \in 0 .. streams /\ streams \in 0 .. MaxStreams
        BY DEF TypeOK
      <4> QED  BY <2>3, <4>1, TaskAssumption
    <3>2. i \in Intervals \cup {0} /\ (i > 0 => m \in Repeating)
      BY DEF IntervalsOf
    <3> QED  BY <3>1, <3>2 DEF Task
  <2>5. /\ tasks' \in Seq(Task) /\ Len(tasks') = n /\ Len(tasks') <= MaxTasks
        /\ DOMAIN tasks' = DOMAIN tasks \cup {n} /\ n \in Nat /\ tasks'[n] = task
    BY SMTT(30), <2>3, <2>4, TasksType, TaskAssumption DEF TypeOK
  <2>6. \A k \in DOMAIN tasks : tasks'[k] = tasks[k]
    BY <2>3, <2>4, TasksType DEF TypeOK
  <2>7. Messages(DOMAIN tasks) \subseteq Messages(DOMAIN tasks')
    BY <2>5 DEF Messages
  <2>8. queue \in Seq(Messages(DOMAIN tasks'))
    BY <2>7, SeqWiden, MessageKinds
  <2>9. AddTimer(n) \in Messages(DOMAIN tasks')
    BY <2>5 DEF AddTimer, Messages
  <2>10. queue' \in Seq(Messages(DOMAIN tasks'))
    BY <2>3, <2>8, <2>9
  <2>11. \A k \in DOMAIN tasks' : tasks'[k].interval > 0 => tasks'[k].mark \in Repeating
    <3> HIDE DEF n, task
    <3>1. \A k \in DOMAIN tasks : tasks[k].interval > 0 => tasks[k].mark \in Repeating
      BY DEF TypeOK, Mark
    <3> QED  BY <2>4, <2>5, <2>6, <3>1
  <2>12. misused' \subseteq Marks /\ ran' \cup revoked' \cup strays' \subseteq DOMAIN tasks'
    BY <2>3, <2>5 DEF TypeOK
  <2> HIDE DEF n, task
  <2> QED  BY <2>3, <2>5, <2>10, <2>11, <2>12 DEF TypeOK, Rearmed, Mark, Messages
<1>2. CASE \E m \in Marks : ScheduleCancel(m)
  <2>1. PICK m \in Marks : ScheduleCancel(m)
    BY <1>2
  <2>2. /\ cancels < MaxCancels /\ cancels' = cancels + 1 /\ queue' = Append(queue, CancelTimer(m))
        /\ UNCHANGED <<conn, streams, closed, tasks, misused, strays, stops, phase, clock, wheel, timers, timers2, ran, revoked>>
    BY <2>1 DEF ScheduleCancel, connVars, mapVars, histVars
  <2>3. CancelTimer(m) \in Messages(DOMAIN tasks)
    BY DEF CancelTimer, Messages
  <2>4. queue' \in Seq(Messages(DOMAIN tasks))
    BY <2>2, <2>3, MessageKinds
  <2>5. cancels' \in 0 .. MaxCancels
    BY <2>2, TaskAssumption DEF TypeOK
  <2> QED  BY <2>2, <2>4, <2>5 DEF TypeOK, Rearmed, Mark, Messages
<1>3. CASE \E t \in Tokens : StreamEnds(t)
  <2>1. PICK t \in Tokens : StreamEnds(t)
    BY <1>3
  <2>2. /\ conn[t] # 0 /\ closed' = closed \cup {conn[t]} /\ queue' = Append(queue, Removed(t))
        /\ strays' \subseteq strays \cup DOMAIN tasks
        /\ UNCHANGED <<conn, streams, tasks, cancels, misused, stops, phase, clock, wheel, timers, timers2, ran, revoked>>
    BY <2>1 DEF StreamEnds, mapVars, histVars
  <2>3. Removed(t) \in Messages(DOMAIN tasks)
    BY DEF Removed, Messages
  <2>4. queue' \in Seq(Messages(DOMAIN tasks))
    BY <2>2, <2>3, MessageKinds
  <2>5. closed' \subseteq 1 .. streams
    <3>1. conn[t] \in 0 .. streams /\ streams \in Nat /\ closed \subseteq 1 .. streams
      BY DEF TypeOK
    <3>2. conn[t] \in 1 .. streams
      BY <2>2, <3>1
    <3>3. closed' = closed \cup {conn[t]}
      BY <2>2
    <3> QED  BY <3>1, <3>2, <3>3
  <2>6. strays' \subseteq DOMAIN tasks
    BY <2>2 DEF TypeOK
  <2> QED  BY <2>2, <2>4, <2>5, <2>6 DEF TypeOK, Rearmed, Mark, Messages
<1>4. CASE \E t \in Tokens : HandleEstablished(t)
  <2>1. PICK t \in Tokens : HandleEstablished(t)
    BY <1>4
  <2>2. /\ streams < MaxStreams /\ streams' = streams + 1 /\ conn' = [conn EXCEPT ![t] = streams + 1]
        /\ UNCHANGED <<closed, tasks, cancels, misused, strays, queue, stops, phase, clock, wheel, timers, timers2, ran, revoked>>
    BY <2>1 DEF HandleEstablished, userVars, mapVars, histVars
  <2>3. /\ streams' \in 0 .. MaxStreams
        /\ conn' \in [Tokens -> 0 .. streams'] /\ closed \subseteq 1 .. streams'
    BY <2>2, TaskAssumption DEF TypeOK
  <2> QED  BY <2>2, <2>3 DEF TypeOK, Rearmed, Mark
<1>5. CASE HandleStop
  BY <1>5, TaskAssumption DEF HandleStop, TypeOK, connVars, userVars, mapVars, histVars, Rearmed, Mark
<1> QED  BY <1>1, <1>2, <1>3, <1>4, <1>5 DEF UserStep

\* The type of the wheel and of the maps.
Timers == [task : DOMAIN tasks, due : Nat, repeats : BOOLEAN]
Entries == [handle : Nat, task : DOMAIN tasks]
WheelPairs == {p \in (Nat \X Timers) : p[1] \in {p[2].task, Rearmed(p[2].task)}}
OncePairs == Marks \X Entries
RepeatPairs == Repeating \X Entries

PairsTyped(w, f, g) ==
  /\ \A h \in DOMAIN w : w[h] \in Timers /\ h \in {w[h].task, Rearmed(w[h].task)}
  /\ DOMAIN f \subseteq Marks /\ DOMAIN g \subseteq Repeating
  /\ \A m \in DOMAIN f : f[m] \in Entries
  /\ \A m \in DOMAIN g : g[m] \in Entries

LEMMA PairsType ==
  ASSUME TypeOK
  PROVE  /\ \A h \in DOMAIN wheel : <<h, wheel[h]>> \in WheelPairs
         /\ \A m \in DOMAIN timers : <<m, timers[m]>> \in OncePairs
         /\ \A m \in DOMAIN timers2 : <<m, timers2[m]>> \in RepeatPairs
<1>1. \A h \in DOMAIN wheel :
        h \in Nat /\ wheel[h] \in Timers /\ h \in {wheel[h].task, Rearmed(wheel[h].task)}
  <2>1. \A h \in DOMAIN wheel :
          wheel[h] \in Timers /\ h \in {wheel[h].task, Rearmed(wheel[h].task)}
    BY DEF TypeOK, Timers
  <2>2. \A n \in DOMAIN tasks : n \in Nat /\ Rearmed(n) \in Nat
    BY TasksType
  <2> QED  BY <2>1, <2>2 DEF Timers
<1>2. /\ \A m \in DOMAIN timers : m \in Marks /\ timers[m] \in Entries
      /\ \A m \in DOMAIN timers2 : m \in Repeating /\ timers2[m] \in Entries
  BY DEF TypeOK, Entries
<1> QED  BY <1>1, <1>2 DEF WheelPairs, OncePairs, RepeatPairs

LEMMA PairsUntyped ==
  ASSUME NEW w, NEW f, NEW g,
         \A h \in DOMAIN w : <<h, w[h]>> \in WheelPairs,
         \A m \in DOMAIN f : <<m, f[m]>> \in OncePairs,
         \A m \in DOMAIN g : <<m, g[m]>> \in RepeatPairs
  PROVE  PairsTyped(w, f, g)
BY DEF WheelPairs, OncePairs, RepeatPairs, PairsTyped

LEMMA TypeLoop ==
  ASSUME TypeOK, LoopStep \/ Tick
  PROVE  TypeOK'
<1>1. CASE Tick \/ EventsDone \/ DrainEmpty \/ TimersDone
  <2>1. /\ phase' \in {"io", "drain", "timers"} /\ clock' \in Nat
        /\ UNCHANGED <<connVars, userVars, queue, stops, wheel, mapVars, histVars>>
    BY <1>1 DEF Tick, EventsDone, DrainEmpty, TimersDone, TypeOK
  <2> QED  BY <2>1 DEF TypeOK, Rearmed, Mark, connVars, userVars, mapVars, histVars
<1>2. ASSUME NEW kind, Takes(kind)
      PROVE  /\ queue' \in Seq(Messages(DOMAIN tasks))
             /\ queue # <<>> /\ Head(queue) \in Messages(DOMAIN tasks) /\ Head(queue).kind = kind
             /\ UNCHANGED <<streams, closed, tasks, cancels, misused, strays, stops, phase, clock, ran>>
  BY <1>2, MessageKinds DEF Takes, userVars
<1>3. CASE HandleRemoved
  <2>1. Head(queue).token \in Tokens /\ queue' \in Seq(Messages(DOMAIN tasks))
    BY <1>2, <1>3 DEF HandleRemoved, Messages
  <2>2. conn' \in [Tokens -> 0 .. streams]
    BY <1>3, <2>1 DEF HandleRemoved, TypeOK
  <2> QED  BY <1>2, <1>3, <2>1, <2>2 DEF HandleRemoved, TypeOK, Rearmed, Mark, Messages, mapVars
<1>4. CASE HandleAddTimer
  <2> DEFINE n == Head(queue).task
  <2>1. n \in DOMAIN tasks /\ queue' \in Seq(Messages(DOMAIN tasks))
    BY <1>2, <1>4 DEF HandleAddTimer, Messages
  <2>2. CASE Full /\ UNCHANGED <<wheel, mapVars>>
    BY <1>2, <1>4, <2>1, <2>2 DEF HandleAddTimer, TypeOK, Rearmed, Mark, Messages, mapVars
  <2>3. CASE ~Full
    <3> DEFINE timer == [task |-> n, due |-> clock + tasks[n].delay, repeats |-> tasks[n].interval > 0]
               entry == [handle |-> n, task |-> n]
    <3>1. /\ wheel' = Put(wheel, n, timer)
          /\ \/ Mark(n) \notin Repeating /\ timers' = Put(timers, Mark(n), entry) /\ timers2' = timers2
             \/ Mark(n) \in Repeating /\ timers2' = Put(timers2, Mark(n), entry) /\ timers' = timers
          /\ UNCHANGED <<conn, revoked>>
      BY <1>4, <2>3 DEF HandleAddTimer, Full
    <3>2. timer \in Timers /\ n \in Nat /\ Mark(n) \in Marks
      <4>1. n \in Nat /\ Mark(n) \in Marks /\ tasks[n].delay \in Nat
        BY <2>1, TasksType DEF Mark
      <4>2. clock + tasks[n].delay \in Nat
        BY SMTT(30), <4>1 DEF TypeOK
      <4> QED  BY <2>1, <4>1, <4>2 DEF Timers
    <3>3. entry \in Entries
      BY <2>1, <3>2 DEF Entries
    <3>4. Cardinality(DOMAIN wheel') <= Capacity
      <4>1. Cardinality(DOMAIN wheel) < Capacity
        BY <2>3, WheelFinite, TaskAssumption DEF Full, TypeOK
      <4> QED  BY <3>1, <4>1, WheelFinite, CardinalityPut
    <3>5. <<n, timer>> \in WheelPairs /\ <<Mark(n), entry>> \in OncePairs
          /\ (Mark(n) \in Repeating => <<Mark(n), entry>> \in RepeatPairs)
      BY <3>2, <3>3 DEF WheelPairs, OncePairs, RepeatPairs
    <3> HIDE DEF timer, entry
    <3>6. \A h \in DOMAIN wheel' : <<h, wheel'[h]>> \in WheelPairs
      BY <3>1, <3>5, PairsType, PutEach
    <3>7. \A m \in DOMAIN timers' : <<m, timers'[m]>> \in OncePairs
      BY <3>1, <3>5, PairsType, PutEach
    <3>8. \A m \in DOMAIN timers2' : <<m, timers2'[m]>> \in RepeatPairs
      BY <3>1, <3>5, PairsType, PutEach
    <3>9. tasks' = tasks
      BY <1>2, <1>4 DEF HandleAddTimer
    <3>10. PairsTyped(wheel', timers', timers2')
      BY <3>6, <3>7, <3>8, PairsUntyped
    <3> QED  BY <1>2, <1>4, <2>1, <3>1, <3>4, <3>9, <3>10
             DEF HandleAddTimer, TypeOK, Rearmed, Mark, Messages, PairsTyped, Timers, Entries
  <2> QED  BY <1>4, <2>2, <2>3 DEF HandleAddTimer
<1>5. CASE HandleCancelTimer
  <2>1. queue' \in Seq(Messages(DOMAIN tasks))
    BY <1>2, <1>5 DEF HandleCancelTimer
  <2>2. /\ timers' = timers \/ \E m : timers' = Without(timers, m)
        /\ timers2' = timers2 \/ \E m : timers2' = Without(timers2, m)
        /\ wheel' = wheel \/ \E h : wheel' = Without(wheel, h)
        /\ revoked' \subseteq revoked \cup DOMAIN tasks /\ conn' = conn
    BY <1>5 DEF HandleCancelTimer, Revoked, mapVars
  <2>3. Cardinality(DOMAIN wheel') <= Capacity
    BY <2>2, WheelWithout DEF TypeOK
  <2>4. \A h \in DOMAIN wheel' : <<h, wheel'[h]>> \in WheelPairs
    BY <2>2, PairsType, WithoutEach
  <2>5. /\ \A m \in DOMAIN timers' : <<m, timers'[m]>> \in OncePairs
        /\ \A m \in DOMAIN timers2' : <<m, timers2'[m]>> \in RepeatPairs
    BY <2>2, PairsType, WithoutEach
  <2>6. PairsTyped(wheel', timers', timers2')
    BY <2>4, <2>5, PairsUntyped
  <2> QED  BY <1>2, <1>5, <2>1, <2>2, <2>3, <2>6
           DEF HandleCancelTimer, TypeOK, Rearmed, Mark, Messages, PairsTyped, Timers, Entries
<1>6. ASSUME NEW h \in DOMAIN wheel, FireOnce(h)
      PROVE  TypeOK'
  <2>1. /\ wheel' = Without(wheel, h) /\ timers' = Without(timers, Mark(wheel[h].task)) /\ timers2' = timers2
        /\ ran' = ran \cup {e.task : e \in Runs(timers, h)}
        /\ UNCHANGED <<connVars, userVars, queue, stops, phase, clock, revoked>>
    BY <1>6 DEF FireOnce, Run
  <2>3. ran' \subseteq DOMAIN tasks
    BY <2>1 DEF TypeOK, Runs, Found
  <2>4. Cardinality(DOMAIN wheel') <= Capacity
    BY <2>1, WheelWithout
  <2>5. \A g \in DOMAIN wheel' : <<g, wheel'[g]>> \in WheelPairs
    BY <2>1, PairsType, WithoutEach
  <2>6. /\ \A m \in DOMAIN timers' : <<m, timers'[m]>> \in OncePairs
        /\ \A m \in DOMAIN timers2' : <<m, timers2'[m]>> \in RepeatPairs
    BY <2>1, PairsType, WithoutEach
  <2>7. PairsTyped(wheel', timers', timers2')
    BY <2>5, <2>6, PairsUntyped
  <2> QED  BY <2>1, <2>3, <2>4, <2>7 DEF TypeOK, Rearmed, Mark, connVars, userVars, PairsTyped, Timers, Entries
<1>7. ASSUME NEW h \in DOMAIN wheel, FireRepeating(h)
      PROVE  TypeOK'
  <2> DEFINE n == wheel[h].task
             again == [task |-> n, due |-> clock + tasks[n].interval, repeats |-> FALSE]
  <2>1. /\ wheel' = Put(Without(wheel, h), Rearmed(n), again)
        /\ timers' = [m \in DOMAIN timers |->
                        IF m = Mark(n) THEN [timers[m] EXCEPT !.handle = Rearmed(n)] ELSE timers[m]]
        /\ timers2' = timers2
        /\ ran' = ran \cup {e.task : e \in Runs(timers2, h)}
        /\ UNCHANGED <<connVars, userVars, queue, stops, phase, clock, revoked>>
    BY <1>7 DEF FireRepeating, Run
  <2>2. n \in DOMAIN tasks /\ Rearmed(n) \in Nat /\ again \in Timers
    <3>1. n \in DOMAIN tasks
      BY DEF TypeOK
    <3>2. Rearmed(n) \in Nat /\ tasks[n].interval \in Nat
      BY <3>1, TasksType
    <3>3. clock + tasks[n].interval \in Nat
      BY SMTT(30), <3>2 DEF TypeOK
    <3> QED  BY <3>1, <3>2, <3>3 DEF Timers
  <2>3. ran' \subseteq DOMAIN tasks
    BY <2>1 DEF TypeOK, Runs, Found
  <2>4. Cardinality(DOMAIN wheel') <= Capacity
    BY <2>1, WheelWithout, CardinalityPut
  <2>5. <<Rearmed(n), again>> \in WheelPairs
    BY <2>2 DEF WheelPairs
  <2>6. \A g \in DOMAIN Without(wheel, h) : <<g, Without(wheel, h)[g]>> \in WheelPairs
    BY PairsType, WithoutEach
  <2>7. \A g \in DOMAIN wheel' : <<g, wheel'[g]>> \in WheelPairs
    <3> HIDE DEF again
    <3> QED  BY <2>1, <2>5, <2>6, PutEach
  <2>8. \A m \in DOMAIN timers' : <<m, timers'[m]>> \in OncePairs
    <3>1. /\ DOMAIN timers' = DOMAIN timers
          /\ \A m \in DOMAIN timers : timers'[m] = timers[m] \/ timers'[m] = [timers[m] EXCEPT !.handle = Rearmed(n)]
      BY <2>1
    <3>2. \A x \in Entries : [x EXCEPT !.handle = Rearmed(n)] \in Entries
      BY <2>2 DEF Entries
    <3>3. \A m \in DOMAIN timers : m \in Marks /\ timers[m] \in Entries
      BY DEF TypeOK, Entries
    <3> QED  BY <3>1, <3>2, <3>3 DEF OncePairs
  <2>9. PairsTyped(wheel', timers', timers2')
    BY <2>1, <2>7, <2>8, PairsType, PairsUntyped
  <2> QED  BY ZenonT(60), <2>1, <2>3, <2>4, <2>9 DEF TypeOK, Rearmed, Mark, connVars, userVars, PairsTyped, Timers, Entries
<1> QED  BY <1>1, <1>3, <1>4, <1>5, <1>6, <1>7 DEF LoopStep

\* The variables of TimerTasks keep their types.
THEOREM TypeCorrect == Spec => []TypeOK
<1>1. TypeOK /\ [Next]_vars => TypeOK'
  <2> SUFFICES ASSUME TypeOK, [Next]_vars  PROVE TypeOK'
    OBVIOUS
  <2>1. CASE UNCHANGED vars
    BY <2>1 DEF vars, TypeOK, Rearmed, Mark, connVars, userVars, mapVars, histVars
  <2> QED  BY <2>1, TypeUser, TypeLoop DEF Next
<1> QED  BY <1>1, TypeInit, PTL DEF Spec

----------------------------------------------------------------------------
(* The invariant *)

LEMMA InvInit == Init => Inv
<1> SUFFICES ASSUME Init  PROVE Inv
  OBVIOUS
<1>1. /\ DOMAIN tasks = {} /\ DOMAIN queue = {} /\ DOMAIN wheel = {}
      /\ DOMAIN timers = {} /\ DOMAIN timers2 = {}
  BY DEF Init
<1> QED  BY <1>1, TypeInit DEF Inv, Handles, Fresh, Alone, Ordered, Ends

\* What a timer's handle says of its task.
LEMMA SlotOf ==
  ASSUME TypeOK
  PROVE  \A h \in DOMAIN wheel :
           /\ wheel[h].task \in DOMAIN tasks /\ wheel[h].due \in Nat
           /\ wheel[h].task \in 1 .. MaxTasks
           /\ h = wheel[h].task \/ h = Rearmed(wheel[h].task)
           /\ h \in 1 .. MaxTasks => h = wheel[h].task
           /\ \A n \in 1 .. MaxTasks : h = Rearmed(n) => n = wheel[h].task /\ h # n
<1> SUFFICES ASSUME NEW h \in DOMAIN wheel
             PROVE  /\ wheel[h].task \in DOMAIN tasks /\ wheel[h].due \in Nat
                    /\ wheel[h].task \in 1 .. MaxTasks
                    /\ h = wheel[h].task \/ h = Rearmed(wheel[h].task)
                    /\ h \in 1 .. MaxTasks => h = wheel[h].task
                    /\ \A n \in 1 .. MaxTasks : h = Rearmed(n) => n = wheel[h].task /\ h # n
  OBVIOUS
<1>1. /\ wheel[h].task \in DOMAIN tasks /\ wheel[h].due \in Nat
      /\ h = wheel[h].task \/ h = Rearmed(wheel[h].task)
  BY DEF TypeOK
<1>2. wheel[h].task \in 1 .. MaxTasks
  BY <1>1, TasksType
<1>3. PICK n : n = wheel[h].task
  OBVIOUS
<1>4. n \in 1 .. MaxTasks /\ (h = n \/ h = n + MaxTasks)
  BY <1>1, <1>2, <1>3 DEF Rearmed
<1>5. \A k \in 1 .. MaxTasks : h = k + MaxTasks => k = n /\ h # k
  BY <1>4, TaskAssumption
<1>6. h \in 1 .. MaxTasks => h = n
  BY <1>4, TaskAssumption
<1> QED  BY <1>1, <1>2, <1>3, <1>5, <1>6 DEF Rearmed

\* The slot of a timer that is armed again is no task's first one.
LEMMA RearmedApart ==
  ASSUME TypeOK, NEW n \in DOMAIN tasks
  PROVE  /\ n \in 1 .. MaxTasks /\ Rearmed(n) \notin 1 .. MaxTasks /\ Rearmed(n) \notin DOMAIN tasks
         /\ \A k \in 1 .. MaxTasks : Rearmed(k) = Rearmed(n) => k = n
<1>1. n \in 1 .. MaxTasks /\ Rearmed(n) \in Nat /\ Rearmed(n) > MaxTasks
  BY TasksType
<1>2. \A k \in DOMAIN tasks : k \in 1 .. MaxTasks
  BY TasksType
<1>3. \A k \in 1 .. MaxTasks : k + MaxTasks = n + MaxTasks => k = n
  BY <1>1, TaskAssumption
<1> QED  BY <1>1, <1>2, <1>3, TaskAssumption DEF Rearmed

\* Kept tasks have the mark they are kept for.
LEMMA KeptMark ==
  ASSUME TypeOK, Handles, NEW n, Kept(n)
  PROVE  /\ n \in DOMAIN tasks
         /\ \/ Mark(n) \in DOMAIN timers /\ timers[Mark(n)].task = n /\ Mark(n) \notin Repeating
            \/ Mark(n) \in DOMAIN timers2 /\ timers2[Mark(n)].task = n /\ Mark(n) \in Repeating
<1>1. CASE \E m \in DOMAIN timers : timers[m].task = n
  <2>1. PICK m \in DOMAIN timers : timers[m].task = n
    BY <1>1
  <2>2. Mark(n) = m /\ m \notin Repeating
    BY <2>1 DEF Handles
  <2>3. n \in DOMAIN tasks
    BY <2>1 DEF TypeOK
  <2> QED  BY <2>1, <2>2, <2>3
<1>2. CASE \E m \in DOMAIN timers2 : timers2[m].task = n
  <2>1. PICK m \in DOMAIN timers2 : timers2[m].task = n
    BY <1>2
  <2>2. Mark(n) = m
    BY <2>1 DEF Handles
  <2>3. n \in DOMAIN tasks /\ m \in Repeating
    BY <2>1 DEF TypeOK
  <2> QED  BY <2>1, <2>2, <2>3
<1> QED  BY <1>1, <1>2 DEF Kept

\* A step that leaves the maps, the users and the queue alone.
LEMMA InvStutter ==
  ASSUME Inv, TypeOK',
         UNCHANGED <<conn, closed, tasks, misused, strays, queue, wheel, timers, timers2, ran, revoked>>
  PROVE  Inv'
<1>1. \A n : ((Kept(n))' <=> Kept(n)) /\ ((Live(n))' <=> Live(n)) /\ (Mark(n))' = Mark(n)
  BY DEF Kept, Live, Posted, Mark
<1>2. Handles' /\ Alone'
  BY <1>1 DEF Inv, Handles, Alone, Rearmed
<1>3. Fresh'
  BY <1>1 DEF Inv, Fresh, Posted, Rearmed
<1>4. \A j, n : (CancelledBefore(j, n))' <=> CancelledBefore(j, n)
  BY <1>1 DEF CancelledBefore, Between
<1>5. Ordered' /\ Ends'
  BY <1>1, <1>4 DEF Inv, Ordered, Ends
<1> QED  BY <1>2, <1>3, <1>5 DEF Inv

LEMMA HeadIsFirst ==
  ASSUME TypeOK, queue # <<>>, queue' = Tail(queue)
  PROVE  /\ 1 \in DOMAIN queue /\ Head(queue) = queue[1]
         /\ \A j \in DOMAIN queue' : j + 1 \in DOMAIN queue /\ queue'[j] = queue[j + 1]
         /\ \A j \in DOMAIN queue : j # 1 => j - 1 \in DOMAIN queue' /\ queue'[j - 1] = queue[j]
         /\ \A j \in DOMAIN queue' : j \in Nat /\ 1 <= j
         /\ \A j \in DOMAIN queue : j \in Nat /\ 1 <= j
<1>1. queue \in Seq(Messages(DOMAIN tasks))
  BY MessageKinds
<1>2. /\ Len(queue) \in Nat /\ Len(queue) # 0 /\ DOMAIN queue = 1 .. Len(queue)
      /\ queue' \in Seq(Messages(DOMAIN tasks))
      /\ Len(queue') = Len(queue) - 1 /\ DOMAIN queue' = 1 .. Len(queue')
      /\ \A j \in 1 .. Len(queue) - 1 : queue'[j] = queue[j + 1]
  BY <1>1
<1> QED  BY <1>1, <1>2

\* What is cancelled before a message still is when the head has been taken,
\* unless the head is its cancel, and what the head adds is cancelled then.
LEMMA StillCancelled ==
  ASSUME TypeOK, queue # <<>>, queue' = Tail(queue), tasks' = tasks,
         NEW n, (Kept(n))' => /\ Kept(n) \/ queue[1] = AddTimer(n)
                              /\ queue[1] # CancelTimer(Mark(n)),
         NEW j \in DOMAIN queue', CancelledBefore(j + 1, n)
  PROVE  (CancelledBefore(j, n))'
<1>1. /\ 1 \in DOMAIN queue /\ j + 1 \in DOMAIN queue /\ j \in Nat /\ 1 <= j
      /\ \A i \in DOMAIN queue' : i + 1 \in DOMAIN queue /\ queue'[i] = queue[i + 1] /\ i \in Nat
  BY HeadIsFirst
<1>2. ASSUME NEW i \in Nat, Between(i + 1, j + 1, Mark(n))
      PROVE  \E c \in DOMAIN queue' : i < c /\ c < j /\ queue'[c] = CancelTimer(Mark(n))
  <2>1. PICK c \in DOMAIN queue : i + 1 < c /\ c < j + 1 /\ queue[c] = CancelTimer(Mark(n))
    BY <1>2 DEF Between
  <2>2. c \in Nat /\ c # 1 /\ i < c - 1 /\ c - 1 < j
    BY <1>1, <2>1, HeadIsFirst
  <2> QED  BY <2>1, <2>2, HeadIsFirst
<1>3. ASSUME (Kept(n))'
      PROVE  \E c \in DOMAIN queue' : 0 < c /\ c < j /\ queue'[c] = CancelTimer(Mark(n))
  <2>1. CASE queue[1] = AddTimer(n)
    <3>1. Between(1, j + 1, Mark(n))
      BY <1>1, <2>1 DEF CancelledBefore
    <3> QED  BY <1>2, <3>1
  <2>2. CASE Kept(n)
    <3>1. PICK c \in DOMAIN queue : 0 < c /\ c < j + 1 /\ queue[c] = CancelTimer(Mark(n))
      BY <2>2 DEF CancelledBefore, Between
    <3>2. c # 1 /\ c \in Nat
      BY <1>3, <3>1, HeadIsFirst
    <3>3. Between(1, j + 1, Mark(n))
      BY <1>1, <3>1, <3>2 DEF Between
    <3> QED  BY <1>2, <3>3
  <2> QED  BY <1>3, <2>1, <2>2
<1>4. ASSUME NEW i \in DOMAIN queue', i < j, queue'[i] = AddTimer(n)
      PROVE  \E c \in DOMAIN queue' : i < c /\ c < j /\ queue'[c] = CancelTimer(Mark(n))
  <2>1. i + 1 \in DOMAIN queue /\ queue[i + 1] = AddTimer(n) /\ i \in Nat /\ i + 1 < j + 1
    BY <1>1, <1>4
  <2>2. Between(i + 1, j + 1, Mark(n))
    BY <2>1 DEF CancelledBefore
  <2> QED  BY <1>2, <2>1, <2>2
<1> QED  BY <1>3, <1>4 DEF CancelledBefore, Between, Mark, AddTimer, CancelTimer

\* The handling of a message, as far as it does not concern the wheel.
LEMMA QueueStep ==
  ASSUME Inv, queue # <<>>, queue' = Tail(queue),
         UNCHANGED <<closed, tasks, misused, strays, ran>>,
         \/ conn' = conn
         \/ \E t \in Tokens : queue[1] = Removed(t) /\ conn' = [conn EXCEPT ![t] = 0],
         revoked' \subseteq revoked \cup {n \in DOMAIN tasks : /\ queue[1] = CancelTimer(Mark(n))
                                                             /\ ~Posted(AddTimer(n))},
         \A n \in DOMAIN tasks : (Kept(n))' => /\ Kept(n) \/ queue[1] = AddTimer(n)
                                               /\ queue[1] # CancelTimer(Mark(n)),
         \A h \in DOMAIN wheel' : h \in DOMAIN wheel \/ queue[1] = AddTimer(h)
  PROVE  Fresh' /\ Ordered' /\ Ends'
<1>1. TypeOK /\ Fresh /\ Ordered /\ Ends
  BY DEF Inv
<1>2. /\ 1 \in DOMAIN queue
      /\ \A j \in DOMAIN queue' : /\ j + 1 \in DOMAIN queue /\ queue'[j] = queue[j + 1]
                                  /\ j \in Nat /\ 1 < j + 1
  BY <1>1, HeadIsFirst
<1>3. DOMAIN tasks' = DOMAIN tasks /\ \A n : (Mark(n))' = Mark(n)
  BY DEF Mark
<1>4. ASSUME NEW n \in DOMAIN tasks, NEW j \in DOMAIN queue', queue'[j] = AddTimer(n)
      PROVE  Posted(AddTimer(n)) /\ queue[1] # AddTimer(n)
  <2>1. j + 1 \in DOMAIN queue /\ queue[j + 1] = AddTimer(n) /\ j + 1 # 1
    BY <1>2, <1>4
  <2> QED  BY <1>1, <1>2, <2>1 DEF Fresh, Posted
<1>5. \A n \in DOMAIN tasks : (Posted(AddTimer(n)))' => Posted(AddTimer(n)) /\ queue[1] # AddTimer(n)
  BY <1>4 DEF Posted, AddTimer
<1>6. Fresh'
  <2> SUFFICES ASSUME NEW n \in DOMAIN tasks
               PROVE  /\ (Posted(AddTimer(n)))' => /\ n \notin ran \cup revoked' /\ ~(Kept(n))'
                                                   /\ n \notin DOMAIN wheel' /\ Rearmed(n) \notin DOMAIN wheel'
                      /\ \A i, j \in DOMAIN queue' :
                           queue'[i] = AddTimer(n) /\ queue'[j] = AddTimer(n) => i = j
                      /\ (Kept(n))' => n \notin revoked'
                      /\ (Kept(n))' /\ Mark(n) \notin Repeating => n \notin ran
    BY <1>3 DEF Fresh, AddTimer, Rearmed
  <2>1. ASSUME (Posted(AddTimer(n)))'
        PROVE  /\ n \notin ran \cup revoked' /\ ~(Kept(n))'
               /\ n \notin DOMAIN wheel' /\ Rearmed(n) \notin DOMAIN wheel'
    <3>1. Posted(AddTimer(n)) /\ queue[1] # AddTimer(n)
      BY <1>5, <2>1
    <3>2. /\ n \notin ran \cup revoked /\ ~Kept(n)
          /\ n \notin DOMAIN wheel /\ Rearmed(n) \notin DOMAIN wheel
      BY <1>1, <3>1 DEF Fresh
    <3>3. queue[1] # AddTimer(Rearmed(n))
      BY <1>1, <1>2, RearmedApart, MessageKinds
    <3> QED  BY <3>1, <3>2, <3>3
  <2>2. ASSUME NEW i \in DOMAIN queue', NEW j \in DOMAIN queue',
               queue'[i] = AddTimer(n), queue'[j] = AddTimer(n)
        PROVE  i = j
    <3>1. i + 1 = j + 1
      BY <1>1, <1>2, <2>2 DEF Fresh
    <3> QED  BY <1>2, <3>1
  <2>3. ASSUME (Kept(n))'
        PROVE  n \notin revoked' /\ (Mark(n) \notin Repeating => n \notin ran)
    <3>1. queue[1] # CancelTimer(Mark(n)) /\ (Kept(n) \/ queue[1] = AddTimer(n))
      BY <2>3
    <3>2. n \notin revoked /\ (Mark(n) \notin Repeating => n \notin ran)
      BY <1>1, <1>2, <3>1 DEF Fresh, Posted
    <3> QED  BY <3>1, <3>2
  <2> QED  BY <2>1, <2>2, <2>3
<1>7. \A n \in DOMAIN tasks, j \in DOMAIN queue' : CancelledBefore(j + 1, n) => (CancelledBefore(j, n))'
  BY <1>1, StillCancelled
<1>8. Ordered'
  <2> SUFFICES ASSUME NEW j \in DOMAIN queue', NEW n \in DOMAIN tasks, NEW k \in DOMAIN tasks,
                      queue'[j] = AddTimer(n), Mark(k) = Mark(n), Mark(n) \notin misused
               PROVE  (CancelledBefore(j, k))'
    BY <1>3 DEF Ordered, AddTimer
  <2>1. CancelledBefore(j + 1, k)
    BY <1>1, <1>2 DEF Ordered
  <2> QED  BY <1>7, <2>1
<1>9. Ends'
  <2>1. ASSUME NEW n \in DOMAIN tasks \ strays, (Live(n))'
        PROVE  conn'[tasks[n].token] = tasks[n].stream
    <3>1. Live(n) /\ ((Kept(n))' => queue[1] # CancelTimer(Mark(n)))
      BY <1>2, <1>5, <2>1 DEF Live, Posted
    <3>2. conn[tasks[n].token] = tasks[n].stream
      BY <1>1, <3>1 DEF Ends
    <3>3. ASSUME NEW t \in Tokens, queue[1] = Removed(t), tasks[n].token = t  PROVE FALSE
      <4>1. CancelledBefore(1, n) /\ \A i \in DOMAIN queue : queue[i] = AddTimer(n) => i < 1
        BY <1>1, <1>2, <3>3 DEF Ends
      <4>2. ~Posted(AddTimer(n))
        BY <1>1, <4>1, HeadIsFirst DEF Posted
      <4>3. Kept(n)
        BY <3>1, <4>2 DEF Live
      <4>4. Between(0, 1, Mark(n))
        BY <4>1, <4>3 DEF CancelledBefore
      <4> QED  BY <1>1, <4>4, HeadIsFirst DEF Between
    <3>4. tasks[n].token \in Tokens
      BY <1>1, TasksType
    <3> QED  BY <1>1, <3>2, <3>3, <3>4 DEF TypeOK
  <2>2. ASSUME NEW j \in DOMAIN queue', NEW t \in Tokens, queue'[j] = Removed(t)
        PROVE  /\ conn'[t] \in closed
               /\ \A i \in DOMAIN queue' : queue'[i] = Removed(t) => i = j
               /\ \A n \in DOMAIN tasks \ strays : tasks[n].token = t =>
                    /\ (CancelledBefore(j, n))'
                    /\ \A i \in DOMAIN queue' : queue'[i] = AddTimer(n) => i < j
    <3>1. j + 1 \in DOMAIN queue /\ queue[j + 1] = Removed(t) /\ j \in Nat /\ j + 1 # 1
      BY <1>2, <2>2
    <3>2. /\ conn[t] \in closed
          /\ \A i \in DOMAIN queue : queue[i] = Removed(t) => i = j + 1
          /\ \A n \in DOMAIN tasks \ strays : tasks[n].token = t =>
               /\ CancelledBefore(j + 1, n)
               /\ \A i \in DOMAIN queue : queue[i] = AddTimer(n) => i < j + 1
      BY <1>1, <3>1 DEF Ends
    <3>3. conn'[t] = conn[t]
      <4>1. queue[1] # Removed(t)
        BY <1>2, <3>1, <3>2
      <4> QED  BY <1>1, <4>1 DEF TypeOK
    <3>4. \A i \in DOMAIN queue' : queue'[i] = Removed(t) => i = j
      <4> SUFFICES ASSUME NEW i \in DOMAIN queue', queue'[i] = Removed(t)  PROVE i = j
        OBVIOUS
      <4>1. i + 1 = j + 1 /\ i \in Nat
        BY <1>2, <3>2
      <4> QED  BY <3>1, <4>1
    <3>5. ASSUME NEW n \in DOMAIN tasks \ strays, tasks[n].token = t,
                 NEW i \in DOMAIN queue', queue'[i] = AddTimer(n)
          PROVE  i < j
      <4>1. i + 1 < j + 1 /\ i \in Nat
        BY <1>2, <3>2, <3>5
      <4> QED  BY <3>1, <4>1
    <3> QED  BY <1>7, <3>2, <3>3, <3>4, <3>5
  <2> QED  BY <1>3, <2>1, <2>2 DEF Ends, Removed, AddTimer
<1> QED  BY <1>6, <1>8, <1>9

\* The steps of process_timers, as far as they do not concern the wheel.
LEMMA FireStep ==
  ASSUME Inv, UNCHANGED <<conn, closed, tasks, misused, strays, queue, revoked>>,
         \A k : (Kept(k))' => Kept(k),
         \A k \in ran' : k \notin ran => Kept(k) /\ (Mark(k) \in Repeating \/ ~(Kept(k))'),
         \A n \in DOMAIN tasks : n \notin DOMAIN wheel /\ Rearmed(n) \notin DOMAIN wheel =>
           n \notin DOMAIN wheel' /\ Rearmed(n) \notin DOMAIN wheel'
  PROVE  Fresh' /\ Ordered' /\ Ends'
<1>1. Fresh /\ Ordered /\ Ends
  BY DEF Inv
<1>2. \A n : (Mark(n))' = Mark(n) /\ ((Posted(AddTimer(n)))' <=> Posted(AddTimer(n))) /\ ((Live(n))' => Live(n))
  BY DEF Mark, Posted, AddTimer, Live
<1>3. Fresh'
  BY <1>1, <1>2 DEF Fresh, AddTimer, Rearmed
<1>4. \A j, n : CancelledBefore(j, n) => (CancelledBefore(j, n))'
  BY <1>2 DEF CancelledBefore, Between
<1> QED  BY <1>1, <1>2, <1>3, <1>4 DEF Ordered, Ends

LEMMA TakesStep ==
  ASSUME TypeOK, NEW kind, Takes(kind)
  PROVE  /\ queue # <<>> /\ queue' = Tail(queue) /\ 1 \in DOMAIN queue
         /\ Head(queue) = queue[1] /\ queue[1].kind = kind
         /\ UNCHANGED <<streams, closed, tasks, misused, strays, ran>>
<1>1. queue # <<>> /\ queue' = Tail(queue) /\ Head(queue).kind = kind
  BY DEF Takes
<1>2. 1 \in DOMAIN queue /\ Head(queue) = queue[1]
  BY <1>1, HeadIsFirst
<1> QED  BY <1>1, <1>2 DEF Takes, userVars

LEMMA RemovedStep ==
  ASSUME Inv, HandleRemoved, TypeOK'
  PROVE  Inv'
<1>1. TypeOK /\ Handles /\ Alone
  BY DEF Inv
<1>2. /\ queue # <<>> /\ queue' = Tail(queue) /\ 1 \in DOMAIN queue
      /\ Head(queue) = queue[1] /\ queue[1].kind = "removed"
      /\ UNCHANGED <<streams, closed, tasks, misused, strays, ran>>
  BY <1>1, TakesStep DEF HandleRemoved
<1>3. /\ UNCHANGED <<wheel, timers, timers2, revoked>>
      /\ conn' = [conn EXCEPT ![queue[1].token] = 0]
  BY <1>2 DEF HandleRemoved, mapVars
<1>4. queue[1].token \in Tokens /\ queue[1] = Removed(queue[1].token)
  BY <1>1, <1>2, MessageKinds
<1>5. \A n \in DOMAIN tasks : (Kept(n))' => Kept(n) /\ queue[1] # CancelTimer(Mark(n))
  BY <1>3, <1>4, Distinct DEF Kept
<1>6. Fresh' /\ Ordered' /\ Ends'
  BY <1>2, <1>3, <1>4, <1>5, QueueStep
<1>7. Handles' /\ Alone'
  BY <1>1, <1>2, <1>3 DEF Handles, Alone, Mark, Rearmed
<1> QED  BY <1>6, <1>7 DEF Inv

\* A timer is armed for a tick to come.
LEMMA DelaysPass ==
  ASSUME TypeOK, NEW n \in DOMAIN tasks
  PROVE  /\ clock + tasks[n].delay \in Nat /\ clock + tasks[n].delay > clock /\ clock + tasks[n].delay > 0
         /\ tasks[n].interval > 0 =>
              /\ clock + tasks[n].interval \in Nat /\ clock + tasks[n].interval > clock
              /\ clock + tasks[n].interval > 0
<1>1. tasks[n] \in Task /\ clock \in Nat /\ tasks[n].interval \in Nat
  BY TasksType DEF TypeOK
<1>2. tasks[n].delay \in Delays
  BY <1>1 DEF Task
<1>3. tasks[n].delay \in Nat \ {0}
  BY <1>2, TaskAssumption
<1> QED  BY <1>1, <1>3

LEMMA AddStep ==
  ASSUME Inv, HandleAddTimer, TypeOK'
  PROVE  Inv'
<1> DEFINE n == queue[1].task
           timer == [task |-> n, due |-> clock + tasks[n].delay, repeats |-> tasks[n].interval > 0]
           entry == [handle |-> n, task |-> n]
<1>1. TypeOK /\ Handles /\ Fresh /\ Alone /\ Ordered
  BY DEF Inv
<1>2. /\ queue # <<>> /\ queue' = Tail(queue) /\ 1 \in DOMAIN queue
      /\ Head(queue) = queue[1] /\ queue[1].kind = "add"
      /\ UNCHANGED <<streams, closed, tasks, misused, strays, ran>>
  BY <1>1, TakesStep DEF HandleAddTimer
<1>3. n \in DOMAIN tasks /\ queue[1] = AddTimer(n)
  BY <1>1, <1>2, MessageKinds
<1>4. UNCHANGED <<conn, revoked>>
  BY DEF HandleAddTimer
<1>5. \A m : queue[1] # CancelTimer(m)
  BY <1>3, Distinct
<1>6. \A k : (Mark(k))' = Mark(k) /\ (Rearmed(k))' = Rearmed(k)
  BY <1>2 DEF Mark, Rearmed
<1>7. CASE UNCHANGED <<wheel, mapVars>>
  <2>1. \A k \in DOMAIN tasks : (Kept(k))' => Kept(k)
    BY <1>7 DEF Kept, mapVars
  <2>2. Fresh' /\ Ordered' /\ Ends'
    BY <1>2, <1>4, <1>5, <1>7, <2>1, QueueStep
  <2>3. Handles' /\ Alone'
    BY <1>1, <1>2, <1>6, <1>7 DEF Handles, Alone, mapVars
  <2> QED  BY <2>2, <2>3 DEF Inv
<1>8. CASE /\ wheel' = Put(wheel, n, timer)
           /\ \/ Mark(n) \notin Repeating /\ timers' = Put(timers, Mark(n), entry) /\ UNCHANGED timers2
              \/ Mark(n) \in Repeating /\ timers2' = Put(timers2, Mark(n), entry) /\ UNCHANGED timers
  <2>1. /\ entry.task = n /\ entry.handle = n /\ timer.task = n /\ timer.due > 0
        /\ timer.repeats <=> tasks[n].interval > 0
    <3>1. clock + tasks[n].delay > 0
      BY <1>1, <1>3, DelaysPass
    <3> QED  BY <3>1
  <2> HIDE DEF n, timer, entry
  <2>2. n \notin DOMAIN wheel /\ Rearmed(n) \notin DOMAIN wheel /\ n \notin ran
    BY <1>1, <1>2, <1>3 DEF Fresh, Posted
  <2>3. /\ DOMAIN wheel' = DOMAIN wheel \cup {n} /\ wheel'[n] = timer
        /\ \A h \in DOMAIN wheel : h # n => wheel'[h] = wheel[h]
    BY <1>8 DEF Put
  <2>4. \/ /\ Mark(n) \notin Repeating /\ timers2' = timers2
           /\ DOMAIN timers' = DOMAIN timers \cup {Mark(n)} /\ timers'[Mark(n)] = entry
           /\ \A m \in DOMAIN timers : m # Mark(n) => timers'[m] = timers[m]
        \/ /\ Mark(n) \in Repeating /\ timers' = timers
           /\ DOMAIN timers2' = DOMAIN timers2 \cup {Mark(n)} /\ timers2'[Mark(n)] = entry
           /\ \A m \in DOMAIN timers2 : m # Mark(n) => timers2'[m] = timers2[m]
    BY <1>8 DEF Put
  <2>5. \A k \in DOMAIN tasks : (Kept(k))' => Kept(k) \/ k = n
    BY <2>1, <2>4 DEF Kept
  <2>6. Fresh' /\ Ordered' /\ Ends'
    <3>1. \A k \in DOMAIN tasks : (Kept(k))' => Kept(k) \/ queue[1] = AddTimer(k)
      BY <1>3, <2>5
    <3> QED  BY <1>2, <1>3, <1>4, <1>5, <2>3, <3>1, QueueStep
  <2>7. n \in 1 .. MaxTasks /\ Rearmed(n) # n /\ \A k \in DOMAIN tasks : Rearmed(k) # n
    BY <1>1, <1>3, RearmedApart
  <2>8. Handles'
    <3>1. ASSUME NEW m \in DOMAIN timers'
          PROVE  /\ timers'[m].handle = timers'[m].task /\ timers'[m].task \in DOMAIN wheel'
                 /\ Mark(timers'[m].task) = m /\ m \notin Repeating
      <4>1. CASE m = Mark(n) /\ m \notin Repeating
        BY <2>1, <2>3, <2>4, <4>1
      <4>2. CASE ~(m = Mark(n) /\ m \notin Repeating)
        <5>1. m \in DOMAIN timers /\ timers'[m] = timers[m]
          BY <1>1, <2>4, <4>2 DEF Handles
        <5> QED  BY <1>1, <2>3, <5>1 DEF Handles
      <4> QED  BY <4>1, <4>2
    <3>2. ASSUME NEW m \in DOMAIN timers2'
          PROVE  timers2'[m].handle = timers2'[m].task /\ Mark(timers2'[m].task) = m
      BY <1>1, <2>1, <2>4 DEF Handles
    <3>3. ASSUME NEW h \in DOMAIN wheel'
          PROVE  /\ wheel'[h].due > 0
                 /\ wheel'[h].repeats => h = wheel'[h].task /\ tasks[h].interval > 0
                 /\ h # wheel'[h].task => Mark(wheel'[h].task) \in Repeating
      BY <1>1, <2>1, <2>3 DEF Handles
    <3>4. ASSUME NEW k \in DOMAIN tasks, k \in DOMAIN wheel', Rearmed(k) \in DOMAIN wheel'
          PROVE  FALSE
      <4>1. Rearmed(k) \in DOMAIN wheel
        BY <2>3, <2>7, <3>4
      <4>2. k \in DOMAIN wheel
        BY <2>2, <2>3, <3>4, <4>1
      <4> QED  BY <1>1, <4>1, <4>2 DEF Handles
    <3> QED  BY <1>2, <1>6, <3>1, <3>2, <3>3, <3>4 DEF Handles
  <2>9. Alone'
    <3> SUFFICES ASSUME NEW h \in DOMAIN wheel', NEW m, m = Mark(wheel'[h].task), m \notin misused
                 PROVE  /\ m \notin Repeating => m \in DOMAIN timers' /\ timers'[m].handle = h
                        /\ wheel'[h].repeats => m \in DOMAIN timers2' /\ h \notin ran /\ timers2'[m].handle = h
      BY <1>2, <1>6 DEF Alone
    <3>1. CASE h = n
      <4>1. wheel'[h].repeats => m \in Repeating
        BY <1>1, <1>3, <2>1, <2>3, <3>1 DEF TypeOK
      <4> QED  BY <2>1, <2>2, <2>3, <2>4, <3>1, <4>1
    <3>2. CASE h # n
      <4>1. h \in DOMAIN wheel /\ wheel'[h] = wheel[h]
        BY <2>3, <3>2
      <4>2. m = Mark(n) => m \notin DOMAIN timers /\ m \notin DOMAIN timers2
        <5>1. ASSUME m = Mark(n), NEW k, Kept(k), Mark(k) = m  PROVE FALSE
          <6>1. k \in DOMAIN tasks
            BY <1>1, <5>1, KeptMark
          <6>2. CancelledBefore(1, k)
            BY <1>1, <1>2, <1>3, <5>1, <6>1 DEF Ordered
          <6>3. Between(0, 1, Mark(k))
            BY <5>1, <6>2 DEF CancelledBefore
          <6> QED  BY <1>1, <1>2, <6>3, HeadIsFirst DEF Between
        <5>2. /\ m \in DOMAIN timers => Kept(timers[m].task) /\ Mark(timers[m].task) = m
              /\ m \in DOMAIN timers2 => Kept(timers2[m].task) /\ Mark(timers2[m].task) = m
          BY <1>1 DEF Kept, Handles
        <5> QED  BY <5>1, <5>2
      <4>3. /\ m \notin Repeating => m \in DOMAIN timers /\ timers[m].handle = h
            /\ wheel[h].repeats => m \in DOMAIN timers2 /\ h \notin ran /\ timers2[m].handle = h
        BY <1>1, <4>1 DEF Alone
      <4> QED  BY <2>4, <4>1, <4>2, <4>3
    <3> QED  BY <3>1, <3>2
  <2> QED  BY <2>6, <2>8, <2>9 DEF Inv
<1> QED  BY <1>2, <1>7, <1>8 DEF HandleAddTimer, Full

\* Taking entry m out of the maps, or out of one that has it, with its timer.
LEMMA CancelStep ==
  ASSUME Inv, HandleCancelTimer, TypeOK'
  PROVE  Inv'
<1>1. TypeOK /\ Handles /\ Alone
  BY DEF Inv
<1>2. /\ queue # <<>> /\ queue' = Tail(queue) /\ 1 \in DOMAIN queue
      /\ Head(queue) = queue[1] /\ queue[1].kind = "cancel"
      /\ UNCHANGED <<streams, closed, tasks, misused, strays, ran>>
  BY <1>1, TakesStep DEF HandleCancelTimer
<1>3. PICK m \in Marks : queue[1] = CancelTimer(m) /\ queue[1].mark = m
  BY <1>1, <1>2, MessageKinds
<1>4. /\ conn' = conn /\ revoked' = revoked \cup Revoked(m)
      /\ \/ /\ m \in DOMAIN timers
            /\ timers' = Without(timers, m) /\ timers2' = timers2
            /\ wheel' = Without(wheel, timers[m].handle)
         \/ /\ m \notin DOMAIN timers /\ m \in DOMAIN timers2
            /\ timers2' = Without(timers2, m) /\ timers' = timers
            /\ wheel' = Without(wheel, timers2[m].handle)
         \/ /\ m \notin DOMAIN timers \cup DOMAIN timers2
            /\ UNCHANGED <<wheel, timers, timers2>>
  BY <1>2, <1>3 DEF HandleCancelTimer, mapVars
<1>5. \A k : (Mark(k))' = Mark(k) /\ (Rearmed(k))' = Rearmed(k)
  BY <1>2 DEF Mark, Rearmed
<1>6. m \in DOMAIN timers => m \notin DOMAIN timers2
  BY <1>1 DEF Handles, TypeOK
<1>7. /\ DOMAIN timers' = DOMAIN timers \ {m} /\ \A x \in DOMAIN timers \ {m} : timers'[x] = timers[x]
      /\ DOMAIN timers2' = DOMAIN timers2 \ {m} /\ \A x \in DOMAIN timers2 \ {m} : timers2'[x] = timers2[x]
  <2>1. \A f : /\ DOMAIN Without(f, m) = DOMAIN f \ {m}
               /\ \A x \in DOMAIN f \ {m} : Without(f, m)[x] = f[x]
               /\ m \notin DOMAIN f => DOMAIN f = DOMAIN f \ {m}
    BY WithoutType
  <2>2. CASE m \in DOMAIN timers
    BY <1>4, <1>6, <2>1, <2>2
  <2>3. CASE m \notin DOMAIN timers /\ m \in DOMAIN timers2
    BY <1>4, <2>1, <2>3
  <2>4. CASE m \notin DOMAIN timers /\ m \notin DOMAIN timers2
    BY <1>4, <2>1, <2>4
  <2> QED  BY <2>2, <2>3, <2>4
<1>8. /\ DOMAIN wheel' \subseteq DOMAIN wheel /\ \A h \in DOMAIN wheel' : wheel'[h] = wheel[h]
      /\ m \in DOMAIN timers => timers[m].handle \notin DOMAIN wheel'
      /\ m \in DOMAIN timers2 => timers2[m].handle \notin DOMAIN wheel'
      /\ \A h \in 1 .. MaxTasks : h \in DOMAIN wheel /\ Mark(h) # m => h \in DOMAIN wheel'
  <2>1. /\ m \in DOMAIN timers => Mark(timers[m].handle) = m
        /\ m \in DOMAIN timers2 => Mark(timers2[m].handle) = m
    BY <1>1 DEF Handles
  <2>2. \A h : DOMAIN Without(wheel, h) = DOMAIN wheel \ {h}
               /\ \A g \in DOMAIN wheel \ {h} : Without(wheel, h)[g] = wheel[g]
    BY WithoutType
  <2>3. CASE m \in DOMAIN timers
    BY ZenonT(60), <1>4, <1>6, <2>1, <2>2, <2>3
  <2>4. CASE m \notin DOMAIN timers /\ m \in DOMAIN timers2
    BY <1>4, <2>1, <2>2, <2>4
  <2>5. CASE m \notin DOMAIN timers \cup DOMAIN timers2
    BY <1>4, <2>5
  <2> QED  BY <2>3, <2>4, <2>5
<1>9. Fresh' /\ Ordered' /\ Ends'
  <2>1. ASSUME NEW k \in DOMAIN tasks, (Kept(k))'
        PROVE  Kept(k) /\ queue[1] # CancelTimer(Mark(k))
    <3>1. \/ \E x \in DOMAIN timers : x # m /\ timers[x].task = k
          \/ \E x \in DOMAIN timers2 : x # m /\ timers2[x].task = k
      <4>1. \/ \E x \in DOMAIN timers' : timers'[x].task = k
            \/ \E x \in DOMAIN timers2' : timers2'[x].task = k
        BY <2>1 DEF Kept
      <4> QED  BY <1>7, <4>1
    <3>2. Mark(k) # m
      BY <1>1, <3>1 DEF Handles
    <3> QED  BY <1>3, <3>1, <3>2, Distinct DEF Kept
  <2>2. revoked' \subseteq revoked \cup {k \in DOMAIN tasks : /\ queue[1] = CancelTimer(Mark(k))
                                                             /\ ~Posted(AddTimer(k))}
    BY <1>3, <1>4 DEF Revoked, Posted
  <2> QED  BY <1>2, <1>4, <1>8, <2>1, <2>2, QueueStep
<1>10. Handles'
  <2>1. ASSUME NEW x \in DOMAIN timers'
        PROVE  /\ timers'[x].handle = timers'[x].task /\ timers'[x].task \in DOMAIN wheel'
               /\ Mark(timers'[x].task) = x /\ x \notin Repeating
    <3>1. /\ x \in DOMAIN timers /\ x # m /\ timers'[x] = timers[x]
          /\ timers[x].handle = timers[x].task /\ timers[x].task \in DOMAIN wheel
          /\ Mark(timers[x].task) = x /\ x \notin Repeating
      BY <1>1, <1>7 DEF Handles
    <3>2. timers[x].task \in 1 .. MaxTasks
      BY <1>1, <3>1, RearmedApart DEF TypeOK
    <3> QED  BY <1>8, <3>1, <3>2
  <2>2. \A x \in DOMAIN timers2' : timers2'[x].handle = timers2'[x].task /\ Mark(timers2'[x].task) = x
    BY <1>1, <1>7 DEF Handles
  <2>3. \A h \in DOMAIN wheel' : h \in DOMAIN wheel /\ wheel'[h] = wheel[h]
    BY <1>8
  <2> QED  BY <1>1, <1>2, <1>5, <2>1, <2>2, <2>3 DEF Handles
<1>11. Alone'
  <2> SUFFICES ASSUME NEW h \in DOMAIN wheel', NEW x, x = Mark(wheel'[h].task), x \notin misused
               PROVE  /\ x \notin Repeating => x \in DOMAIN timers' /\ timers'[x].handle = h
                      /\ wheel'[h].repeats => x \in DOMAIN timers2' /\ h \notin ran /\ timers2'[x].handle = h
    BY <1>2, <1>5 DEF Alone
  <2>1. h \in DOMAIN wheel /\ wheel'[h] = wheel[h]
    BY <1>8
  <2>2. /\ x \notin Repeating => x \in DOMAIN timers /\ timers[x].handle = h
        /\ wheel[h].repeats => x \in DOMAIN timers2 /\ h \notin ran /\ timers2[x].handle = h
    BY <1>1, <2>1 DEF Alone
  <2>3. x = m => ~(x \notin Repeating) /\ ~wheel[h].repeats
    BY <1>8, <2>1, <2>2
  <2> QED  BY <1>7, <2>1, <2>2, <2>3
<1> QED  BY <1>9, <1>10, <1>11 DEF Inv

LEMMA FireOnceStep ==
  ASSUME Inv, NEW h \in DOMAIN wheel, FireOnce(h), TypeOK'
  PROVE  Inv'
<1>1. TypeOK /\ Handles /\ Alone
  BY DEF Inv
<1>2. PICK n \in DOMAIN tasks : n = wheel[h].task
  BY <1>1 DEF TypeOK
<1>3. PICK m : m = Mark(n)
  OBVIOUS
<1>4. /\ wheel' = Without(wheel, h) /\ timers' = Without(timers, m) /\ timers2' = timers2
      /\ ran' = ran \cup {e.task : e \in Runs(timers, h)}
      /\ UNCHANGED <<conn, closed, tasks, misused, strays, queue, revoked>>
      /\ ~wheel[h].repeats
  BY <1>2, <1>3 DEF FireOnce, Run, connVars, userVars
<1>5. /\ DOMAIN timers' = DOMAIN timers \ {m} /\ \A x \in DOMAIN timers \ {m} : timers'[x] = timers[x]
      /\ DOMAIN wheel' = DOMAIN wheel \ {h} /\ \A g \in DOMAIN wheel \ {h} : wheel'[g] = wheel[g]
  BY <1>4 DEF Without
<1>6. \A k : (Mark(k))' = Mark(k) /\ (Rearmed(k))' = Rearmed(k)
  BY <1>4 DEF Mark, Rearmed
<1>7. \A k \in ran' : k \notin ran => /\ m \in DOMAIN timers /\ k = timers[m].task /\ m \notin Repeating
                                     /\ Mark(k) = m /\ Kept(k)
  <2>1. \A e \in Runs(timers, h) : m \in DOMAIN timers /\ e = timers[m]
    BY <1>2, <1>3 DEF Runs, Found
  <2>2. m \in DOMAIN timers => m \notin Repeating /\ Mark(timers[m].task) = m /\ Kept(timers[m].task)
    BY <1>1 DEF Handles, Kept
  <2> QED  BY <1>4, <2>1, <2>2
<1>8. Fresh' /\ Ordered' /\ Ends'
  <2>1. \A k : (Kept(k))' => Kept(k)
    BY <1>4, <1>5 DEF Kept
  <2>2. ASSUME NEW k, Mark(k) = m, m \notin Repeating, (Kept(k))'  PROVE FALSE
    <3>1. \/ \E x \in DOMAIN timers : x # m /\ timers[x].task = k
          \/ \E x \in DOMAIN timers2 : timers2[x].task = k
      BY <1>4, <1>5, <2>2 DEF Kept
    <3>2. \A x \in DOMAIN timers2 : x \in Repeating
      BY <1>1 DEF TypeOK
    <3> QED  BY <1>1, <2>2, <3>1, <3>2 DEF Handles
  <2>3. \A k \in ran' : k \notin ran => Kept(k) /\ (Mark(k) \in Repeating \/ ~(Kept(k))')
    BY <1>7, <2>2
  <2> QED  BY <1>4, <1>5, <2>1, <2>3, FireStep
<1>9. Handles'
  <2>1. ASSUME NEW x \in DOMAIN timers'
        PROVE  /\ timers'[x].handle = timers'[x].task /\ timers'[x].task \in DOMAIN wheel'
               /\ Mark(timers'[x].task) = x /\ x \notin Repeating
    <3>1. /\ x \in DOMAIN timers /\ x # m /\ timers'[x] = timers[x]
          /\ timers[x].handle = timers[x].task /\ timers[x].task \in DOMAIN wheel
          /\ Mark(timers[x].task) = x /\ x \notin Repeating
      BY <1>1, <1>5 DEF Handles
    <3>2. timers[x].task \in 1 .. MaxTasks
      BY <1>1, <3>1, RearmedApart DEF TypeOK
    <3>3. timers[x].task # h
      BY <1>1, <1>2, <1>3, <3>1, <3>2, SlotOf
    <3> QED  BY <1>5, <3>1, <3>3
  <2>2. \A g \in DOMAIN wheel' : g \in DOMAIN wheel /\ wheel'[g] = wheel[g]
    BY <1>5
  <2> QED  BY <1>1, <1>4, <1>6, <2>1, <2>2 DEF Handles
<1>10. Alone'
  <2> SUFFICES ASSUME NEW g \in DOMAIN wheel', NEW x, x = Mark(wheel'[g].task), x \notin misused
               PROVE  /\ x \notin Repeating => x \in DOMAIN timers' /\ timers'[x].handle = g
                      /\ wheel'[g].repeats => x \in DOMAIN timers2' /\ g \notin ran' /\ timers2'[x].handle = g
    BY <1>4, <1>6 DEF Alone
  <2>1. g \in DOMAIN wheel /\ g # h /\ wheel'[g] = wheel[g]
    BY <1>5
  <2>2. /\ x \notin Repeating => x \in DOMAIN timers /\ timers[x].handle = g
        /\ wheel[g].repeats => x \in DOMAIN timers2 /\ g \notin ran /\ timers2[x].handle = g
    BY <1>1, <2>1 DEF Alone
  <2>3. x \notin Repeating => x # m
    <3> SUFFICES ASSUME x \notin Repeating, x = m  PROVE FALSE
      OBVIOUS
    <3>1. timers[m].handle = h
      BY <1>1, <1>2, <1>3 DEF Alone
    <3> QED  BY <2>1, <2>2, <3>1
  <2>4. wheel[g].repeats => g \notin ran'
    <3> SUFFICES ASSUME wheel[g].repeats, g \in ran'  PROVE FALSE
      OBVIOUS
    <3>1. Mark(g) = m /\ m \notin Repeating
      BY <1>7, <2>2
    <3>2. g = wheel[g].task /\ tasks[g].interval > 0 /\ g \in DOMAIN tasks
      BY <1>1, <2>1, SlotOf DEF Handles
    <3> QED  BY <1>1, <3>1, <3>2 DEF TypeOK
  <2> QED  BY <1>4, <1>5, <2>1, <2>2, <2>3, <2>4
<1> QED  BY <1>8, <1>9, <1>10 DEF Inv

LEMMA FireRepeatingStep ==
  ASSUME Inv, NEW h \in DOMAIN wheel, FireRepeating(h), TypeOK'
  PROVE  Inv'
<1>1. TypeOK /\ Handles /\ Alone
  BY DEF Inv
<1>2. PICK n \in DOMAIN tasks : n = wheel[h].task
  BY <1>1 DEF TypeOK
<1> DEFINE again == [task |-> n, due |-> clock + tasks[n].interval, repeats |-> FALSE]
<1>3. /\ wheel' = Put(Without(wheel, h), Rearmed(n), again)
      /\ timers' = [m \in DOMAIN timers |->
                      IF m = Mark(n) THEN [timers[m] EXCEPT !.handle = Rearmed(n)] ELSE timers[m]]
      /\ timers2' = timers2
      /\ ran' = ran \cup {e.task : e \in Runs(timers2, h)}
      /\ UNCHANGED <<conn, closed, tasks, misused, strays, queue, revoked>>
      /\ wheel[h].repeats
  BY <1>2 DEF FireRepeating, Run, connVars, userVars
<1>4. /\ h = n /\ tasks[n].interval > 0 /\ Mark(n) \in Repeating
  <2>1. h = n /\ tasks[n].interval > 0
    BY <1>1, <1>2, <1>3 DEF Handles
  <2> QED  BY <1>1, <2>1 DEF TypeOK
<1>5. again.task = n /\ again.repeats = FALSE /\ again.due > 0
  BY <1>1, <1>4, DelaysPass
<1> HIDE DEF again
<1>6. \A k : (Mark(k))' = Mark(k) /\ (Rearmed(k))' = Rearmed(k)
  BY <1>3 DEF Mark, Rearmed
<1>7. DOMAIN timers' = DOMAIN timers /\ \A x \in DOMAIN timers : timers'[x] = timers[x]
  <2>1. Mark(n) \notin DOMAIN timers
    BY <1>1, <1>4 DEF Handles
  <2> QED  BY <1>3, <2>1
<1>8. /\ DOMAIN wheel' = (DOMAIN wheel \ {h}) \cup {Rearmed(n)} /\ wheel'[Rearmed(n)] = again
      /\ \A g \in DOMAIN wheel \ {h} : g # Rearmed(n) => wheel'[g] = wheel[g]
  BY <1>3 DEF Put, Without
<1>9. /\ Rearmed(n) # n /\ n \in 1 .. MaxTasks
      /\ \A k \in DOMAIN tasks : k \in 1 .. MaxTasks /\ k # Rearmed(n) /\ (Rearmed(k) = Rearmed(n) => k = n)
      /\ \A k \in DOMAIN tasks : Rearmed(k) # n
  BY <1>1, <1>2, RearmedApart
<1>10. \A k \in ran' : k \notin ran => /\ Mark(n) \in DOMAIN timers2 /\ k = timers2[Mark(n)].task
                                      /\ Mark(k) = Mark(n) /\ Kept(k)
  <2>1. \A e \in Runs(timers2, h) : Mark(n) \in DOMAIN timers2 /\ e = timers2[Mark(n)]
    BY <1>2 DEF Runs, Found
  <2>2. Mark(n) \in DOMAIN timers2 => Mark(timers2[Mark(n)].task) = Mark(n) /\ Kept(timers2[Mark(n)].task)
    BY <1>1 DEF Handles, Kept
  <2> QED  BY <1>3, <2>1, <2>2
<1>11. Fresh' /\ Ordered' /\ Ends'
  <2>1. \A k : (Kept(k))' => Kept(k)
    BY <1>3, <1>7 DEF Kept
  <2>2. \A k \in ran' : k \notin ran => Kept(k) /\ (Mark(k) \in Repeating \/ ~(Kept(k))')
    BY <1>4, <1>10
  <2>3. ASSUME NEW k \in DOMAIN tasks, k \notin DOMAIN wheel
        PROVE  /\ k \notin DOMAIN wheel'
               /\ Rearmed(k) \notin DOMAIN wheel => Rearmed(k) \notin DOMAIN wheel'
    BY <1>4, <1>8, <1>9, <2>3
  <2> QED  BY <1>3, <2>1, <2>2, <2>3, FireStep
<1>12. Handles'
  <2>1. ASSUME NEW x \in DOMAIN timers
        PROVE  /\ timers[x].handle = timers[x].task /\ timers[x].task \in DOMAIN wheel'
               /\ Mark(timers[x].task) = x /\ x \notin Repeating
    <3>1. /\ timers[x].handle = timers[x].task /\ timers[x].task \in DOMAIN wheel
          /\ Mark(timers[x].task) = x /\ x \notin Repeating
      BY <1>1 DEF Handles
    <3>2. timers[x].task # h
      BY <1>4, <3>1
    <3> QED  BY <1>8, <3>1, <3>2
  <2>2. ASSUME NEW g \in DOMAIN wheel'
        PROVE  /\ wheel'[g].due > 0
               /\ wheel'[g].repeats => g = wheel'[g].task /\ tasks[g].interval > 0
               /\ g # wheel'[g].task => Mark(wheel'[g].task) \in Repeating
    <3>1. CASE g = Rearmed(n)
      BY <1>4, <1>5, <1>8, <3>1
    <3>2. CASE g # Rearmed(n)
      <4>1. g \in DOMAIN wheel /\ wheel'[g] = wheel[g]
        BY <1>8, <3>2
      <4> QED  BY <1>1, <4>1 DEF Handles
    <3> QED  BY <3>1, <3>2
  <2>3. ASSUME NEW k \in DOMAIN tasks, k \in DOMAIN wheel', Rearmed(k) \in DOMAIN wheel'
        PROVE  FALSE
    <3>1. k # n /\ k \in DOMAIN wheel
      BY <1>4, <1>8, <1>9, <2>3
    <3>2. Rearmed(k) \in DOMAIN wheel
      BY <1>8, <1>9, <2>3, <3>1
    <3> QED  BY <1>1, <3>1, <3>2 DEF Handles
  <2>4. \A x \in DOMAIN timers' :
          /\ timers'[x].handle = timers'[x].task /\ timers'[x].task \in DOMAIN wheel'
          /\ Mark(timers'[x].task) = x /\ x \notin Repeating
    BY <1>7, <2>1
  <2>5. \A x \in DOMAIN timers2' : timers2'[x].handle = timers2'[x].task /\ Mark(timers2'[x].task) = x
    BY <1>1, <1>3 DEF Handles
  <2> QED  BY <1>3, <1>6, <2>2, <2>3, <2>4, <2>5 DEF Handles
<1>13. Alone'
  <2> SUFFICES ASSUME NEW g \in DOMAIN wheel', NEW x, x = Mark(wheel'[g].task), x \notin misused
               PROVE  /\ x \notin Repeating => x \in DOMAIN timers /\ timers[x].handle = g
                      /\ wheel'[g].repeats => x \in DOMAIN timers2 /\ g \notin ran' /\ timers2[x].handle = g
    <3>1. \A x \in DOMAIN timers' : timers'[x].handle = timers[x].handle
      BY <1>7
    <3> QED  BY <1>3, <1>6, <1>7, <3>1 DEF Alone
  <2>1. CASE g = Rearmed(n)
    BY <1>4, <1>5, <1>8, <2>1
  <2>2. CASE g # Rearmed(n)
    <3>1. g \in DOMAIN wheel /\ g # h /\ wheel'[g] = wheel[g]
      BY <1>4, <1>8, <1>9, <2>2
    <3>2. /\ x \notin Repeating => x \in DOMAIN timers /\ timers[x].handle = g
          /\ wheel[g].repeats => x \in DOMAIN timers2 /\ g \notin ran /\ timers2[x].handle = g
      BY <1>1, <3>1 DEF Alone
    <3>3. ASSUME wheel[g].repeats, g \in ran'  PROVE FALSE
      <4>1. Mark(n) \in DOMAIN timers2 /\ g = timers2[Mark(n)].task /\ Mark(g) = Mark(n)
        BY <1>10, <3>2, <3>3
      <4>2. g = wheel[g].task
        BY <1>1, <3>1, <3>3 DEF Handles
      <4>3. timers2[Mark(n)].handle = h
        BY <1>1, <1>2, <1>3, <3>1, <4>1, <4>2 DEF Alone
      <4> QED  BY <1>1, <3>1, <4>1, <4>3 DEF Handles
    <3> QED  BY <3>1, <3>2, <3>3
  <2> QED  BY <2>1, <2>2
<1> QED  BY <1>11, <1>12, <1>13 DEF Inv

\* The message that a step appends is the last one.
LEMMA LastIsNew ==
  ASSUME TypeOK, NEW msg, queue' = Append(queue, msg), NEW last, last = Len(queue) + 1
  PROVE  /\ last \in Nat /\ last > 0 /\ last \notin DOMAIN queue /\ DOMAIN queue' = DOMAIN queue \cup {last}
         /\ \A i \in DOMAIN queue : i \in Nat /\ i > 0 /\ i < last /\ queue'[i] = queue[i]
         /\ queue'[last] = msg
<1>1. Len(queue) \in Nat /\ DOMAIN queue = 1 .. Len(queue) /\ queue \in Seq(Messages(DOMAIN tasks))
  BY MessageKinds
<1>2. queue \in Seq(Messages(DOMAIN tasks) \cup {msg})
  BY <1>1, SeqWiden
<1>3. /\ Len(queue') = Len(queue) + 1 /\ DOMAIN queue' = 1 .. Len(queue')
      /\ \A i \in 1 .. Len(queue) : queue'[i] = queue[i]
      /\ queue'[Len(queue) + 1] = msg
  BY <1>2
<1> QED  BY <1>1, <1>3

\* What has been cancelled before a message still is when one is appended.
LEMMA AppendKeeps ==
  ASSUME TypeOK, NEW msg, queue' = Append(queue, msg), UNCHANGED <<timers, timers2>>,
         NEW n, (Mark(n))' = Mark(n), NEW j \in DOMAIN queue, CancelledBefore(j, n)
  PROVE  (CancelledBefore(j, n))'
<1>1. PICK last : last = Len(queue) + 1
  OBVIOUS
<1>2. /\ last \in Nat /\ DOMAIN queue' = DOMAIN queue \cup {last}
      /\ \A i \in DOMAIN queue : i \in Nat /\ i < last /\ queue'[i] = queue[i]
  BY <1>1, LastIsNew
<1>3. \A i : Between(i, j, Mark(n)) => (Between(i, j, Mark(n)))'
  BY <1>2 DEF Between, CancelTimer
<1>4. (Kept(n))' <=> Kept(n)
  BY DEF Kept
<1>5. \A i \in DOMAIN queue' : i < j => i \in DOMAIN queue /\ queue'[i] = queue[i]
  BY <1>2
<1> QED  BY <1>3, <1>4, <1>5 DEF CancelledBefore, AddTimer

\* A step that posts no AddTimer keeps all but what it ends.
LEMMA PostStep ==
  ASSUME Inv, NEW msg, queue' = Append(queue, msg), \A n : msg # AddTimer(n),
         UNCHANGED <<tasks, misused, wheel, timers, timers2, ran, revoked>>
  PROVE  Handles' /\ Fresh' /\ Alone' /\ Ordered'
<1>1. TypeOK /\ Handles /\ Fresh /\ Alone /\ Ordered
  BY DEF Inv
<1>2. PICK last : last = Len(queue) + 1
  OBVIOUS
<1>3. /\ last \notin DOMAIN queue /\ DOMAIN queue' = DOMAIN queue \cup {last} /\ queue'[last] = msg
      /\ \A i \in DOMAIN queue : queue'[i] = queue[i]
  BY <1>1, <1>2, LastIsNew
<1>4. \A n : /\ (Mark(n))' = Mark(n) /\ (Rearmed(n))' = Rearmed(n) /\ ((Kept(n))' <=> Kept(n))
             /\ ((Posted(AddTimer(n)))' <=> Posted(AddTimer(n)))
  BY <1>3 DEF Mark, Rearmed, Kept, Posted, AddTimer
<1>5. \A n, i : i \in DOMAIN queue' /\ queue'[i] = AddTimer(n) => i \in DOMAIN queue /\ queue[i] = AddTimer(n)
  BY <1>3
<1>6. Handles' /\ Alone'
  BY <1>1, <1>4 DEF Handles, Alone
<1>7. Fresh'
  <2> SUFFICES ASSUME NEW n \in DOMAIN tasks
               PROVE  /\ (Posted(AddTimer(n)))' => /\ n \notin ran \cup revoked /\ ~(Kept(n))'
                                                   /\ n \notin DOMAIN wheel /\ Rearmed(n) \notin DOMAIN wheel
                      /\ \A i, j \in DOMAIN queue' :
                           queue'[i] = AddTimer(n) /\ queue'[j] = AddTimer(n) => i = j
                      /\ (Kept(n))' => n \notin revoked
                      /\ (Kept(n))' /\ Mark(n) \notin Repeating => n \notin ran
    BY <1>4 DEF Fresh, AddTimer
  <2> QED  BY <1>1, <1>4, <1>5 DEF Fresh
<1>8. Ordered'
  <2> SUFFICES ASSUME NEW j \in DOMAIN queue', NEW n \in DOMAIN tasks, NEW k \in DOMAIN tasks,
                      queue'[j] = AddTimer(n), Mark(k) = Mark(n), Mark(n) \notin misused
               PROVE  (CancelledBefore(j, k))'
    BY <1>4 DEF Ordered, AddTimer
  <2>1. j \in DOMAIN queue /\ CancelledBefore(j, k)
    BY <1>1, <1>5 DEF Ordered
  <2> QED  BY <1>1, <1>4, <2>1, AppendKeeps
<1> QED  BY <1>6, <1>7, <1>8

LEMMA ScheduleCancelStep ==
  ASSUME Inv, NEW m \in Marks, ScheduleCancel(m), TypeOK'
  PROVE  Inv'
<1>1. TypeOK /\ Ends
  BY DEF Inv
<1>2. /\ queue' = Append(queue, CancelTimer(m))
      /\ UNCHANGED <<conn, closed, tasks, misused, strays, wheel, timers, timers2, ran, revoked>>
  BY DEF ScheduleCancel, connVars, mapVars, histVars
<1>3. Handles' /\ Fresh' /\ Alone' /\ Ordered'
  BY <1>2, Distinct, PostStep
<1>4. PICK last : last = Len(queue) + 1
  OBVIOUS
<1>5. /\ last \notin DOMAIN queue /\ DOMAIN queue' = DOMAIN queue \cup {last} /\ queue'[last] = CancelTimer(m)
      /\ \A i \in DOMAIN queue : queue'[i] = queue[i]
  BY <1>1, <1>2, <1>4, LastIsNew
<1>6. \A n : (Mark(n))' = Mark(n) /\ ((Live(n))' <=> Live(n))
  BY <1>2, <1>5, Distinct DEF Mark, Live, Kept, Posted, AddTimer
<1>7. Ends'
  <2>1. ASSUME NEW j \in DOMAIN queue', NEW t \in Tokens, queue'[j] = Removed(t)
        PROVE  /\ conn[t] \in closed
               /\ \A i \in DOMAIN queue' : queue'[i] = Removed(t) => i = j
               /\ \A n \in DOMAIN tasks \ strays : tasks[n].token = t =>
                    (CancelledBefore(j, n))' /\ \A i \in DOMAIN queue' : queue'[i] = AddTimer(n) => i < j
    <3>1. j \in DOMAIN queue /\ queue[j] = Removed(t)
      BY <1>5, <2>1, Distinct
    <3>2. /\ conn[t] \in closed
          /\ \A i \in DOMAIN queue : queue[i] = Removed(t) => i = j
          /\ \A n \in DOMAIN tasks \ strays : tasks[n].token = t =>
               CancelledBefore(j, n) /\ \A i \in DOMAIN queue : queue[i] = AddTimer(n) => i < j
      BY <1>1, <3>1 DEF Ends
    <3>3. \A n, i : i \in DOMAIN queue' /\ (queue'[i] = AddTimer(n) \/ queue'[i] = Removed(t)) =>
            i \in DOMAIN queue /\ queue'[i] = queue[i]
      BY <1>5, Distinct
    <3> QED  BY <1>1, <1>2, <1>6, <3>1, <3>2, <3>3, AppendKeeps
  <2> QED  BY <1>1, <1>2, <1>6, <2>1 DEF Ends, Removed, AddTimer
<1> QED  BY <1>3, <1>7 DEF Inv

\* What is not awaited has been cancelled behind all messages.
LEMMA NotAwaited ==
  ASSUME TypeOK, NEW n, ~Awaited(n), NEW last, last = Len(queue) + 1, NEW msg, queue' = Append(queue, msg),
         UNCHANGED <<timers, timers2>>, (Mark(n))' = Mark(n)
  PROVE  (CancelledBefore(last, n))'
<1>1. /\ DOMAIN queue' = DOMAIN queue \cup {last} /\ last \in Nat
      /\ \A i \in DOMAIN queue : i \in Nat /\ i < last /\ queue'[i] = queue[i]
  BY LastIsNew
<1>2. (Kept(n))' <=> Kept(n)
  BY DEF Kept
<1>3. \A i : Behind(i, Mark(n)) => (Between(i, last, Mark(n)))'
  BY <1>1 DEF Behind, Between, CancelTimer
<1>4. \A i \in DOMAIN queue' : i < last => i \in DOMAIN queue /\ queue'[i] = queue[i]
  BY <1>1
<1>5. /\ Kept(n) => Behind(0, Mark(n))
      /\ \A i \in DOMAIN queue : queue[i] = AddTimer(n) => Behind(i, Mark(n))
  BY DEF Awaited
<1> QED  BY <1>2, <1>3, <1>4, <1>5 DEF CancelledBefore, AddTimer

LEMMA StreamEndsStep ==
  ASSUME Inv, NEW t \in Tokens, StreamEnds(t), TypeOK'
  PROVE  Inv'
<1>1. TypeOK /\ Ends
  BY DEF Inv
<1>2. /\ queue' = Append(queue, Removed(t)) /\ conn[t] # 0 /\ conn[t] \notin closed
      /\ closed' = closed \cup {conn[t]}
      /\ strays' = strays \cup {n \in DOMAIN tasks : tasks[n].stream = conn[t] /\ Awaited(n)}
      /\ UNCHANGED <<conn, tasks, misused, wheel, timers, timers2, ran, revoked>>
  BY DEF StreamEnds, mapVars, histVars
<1>3. Handles' /\ Fresh' /\ Alone' /\ Ordered'
  BY <1>2, Distinct, PostStep
<1>4. PICK last : last = Len(queue) + 1
  OBVIOUS
<1>5. /\ last \notin DOMAIN queue /\ DOMAIN queue' = DOMAIN queue \cup {last} /\ queue'[last] = Removed(t)
      /\ \A i \in DOMAIN queue : queue'[i] = queue[i] /\ i < last
  BY <1>1, <1>2, <1>4, LastIsNew
<1>6. \A n : (Mark(n))' = Mark(n) /\ ((Live(n))' <=> Live(n))
  BY <1>2, <1>5, Distinct DEF Mark, Live, Kept, Posted, AddTimer
<1>7. \A i \in DOMAIN queue : queue[i] # Removed(t)
  BY <1>1, <1>2 DEF Ends
<1>8. ASSUME NEW j \in DOMAIN queue', NEW u \in Tokens, queue'[j] = Removed(u)
      PROVE  /\ conn[u] \in closed'
             /\ \A i \in DOMAIN queue' : queue'[i] = Removed(u) => i = j
             /\ \A n \in DOMAIN tasks \ strays' : tasks[n].token = u =>
                  (CancelledBefore(j, n))' /\ \A i \in DOMAIN queue' : queue'[i] = AddTimer(n) => i < j
  <2>1. CASE j = last
    <3>1. u = t
      BY <1>5, <1>8, <2>1, Distinct
    <3>2. \A i \in DOMAIN queue' : queue'[i] = Removed(u) => i = j
      BY <1>5, <1>7, <2>1, <3>1
    <3>3. \A n : \A i \in DOMAIN queue' : queue'[i] = AddTimer(n) => i \in DOMAIN queue /\ i < j
      BY <1>5, <2>1, Distinct
    <3>4. ASSUME NEW n \in DOMAIN tasks \ strays', tasks[n].token = u
          PROVE  (CancelledBefore(j, n))'
      <4>1. CASE tasks[n].stream = conn[t]
        <5>1. ~Awaited(n)
          BY <1>2, <3>4, <4>1
        <5> QED  BY <1>1, <1>2, <1>4, <1>6, <2>1, <5>1, NotAwaited
      <4>2. CASE tasks[n].stream # conn[t]
        <5>1. ~Live(n)
          BY <1>1, <1>2, <3>1, <3>4, <4>2 DEF Ends
        <5>2. ~(Live(n))'
          BY <1>6, <5>1
        <5> QED  BY <5>2 DEF Live, Posted, CancelledBefore, AddTimer
      <4> QED  BY <4>1, <4>2
    <3> QED  BY <1>2, <3>1, <3>2, <3>3, <3>4
  <2>2. CASE j # last
    <3>1. j \in DOMAIN queue /\ queue[j] = Removed(u)
      BY <1>5, <1>8, <2>2
    <3>2. /\ conn[u] \in closed
          /\ \A i \in DOMAIN queue : queue[i] = Removed(u) => i = j
          /\ \A n \in DOMAIN tasks \ strays : tasks[n].token = u =>
               CancelledBefore(j, n) /\ \A i \in DOMAIN queue : queue[i] = AddTimer(n) => i < j
      BY <1>1, <3>1 DEF Ends
    <3>3. u # t
      BY <1>7, <3>1
    <3>4. \A n, i : i \in DOMAIN queue' /\ (queue'[i] = AddTimer(n) \/ queue'[i] = Removed(u)) =>
            i \in DOMAIN queue /\ queue'[i] = queue[i]
      BY <1>5, <3>3, Distinct
    <3> QED  BY ZenonT(60), <1>1, <1>2, <1>6, <3>1, <3>2, <3>4, AppendKeeps
  <2> QED  BY <2>1, <2>2
<1>9. Ends'
  BY <1>1, <1>2, <1>6, <1>8 DEF Ends, Removed, AddTimer
<1> QED  BY <1>3, <1>9 DEF Inv

LEMMA ScheduleStep ==
  ASSUME Inv, NEW t \in Tokens, NEW m \in Marks, NEW d \in Delays, NEW i \in IntervalsOf(m),
         Schedule(t, m, d, i), TypeOK'
  PROVE  Inv'
<1>1. TypeOK /\ Handles /\ Fresh /\ Alone /\ Ordered /\ Ends
  BY DEF Inv
<1>2. PICK n : n = Len(tasks) + 1
  OBVIOUS
<1>3. /\ tasks' = Append(tasks, [mark |-> m, token |-> t, stream |-> conn[t], delay |-> d, interval |-> i])
      /\ conn[t] # 0 /\ n <= MaxTasks
      /\ misused' = misused \cup (IF Running(m) THEN {m} ELSE {})
      /\ strays' = strays \cup (IF conn[t] \in closed THEN {n} ELSE {})
      /\ queue' = Append(queue, AddTimer(n))
      /\ UNCHANGED <<conn, closed, wheel, timers, timers2, ran, revoked>>
  BY <1>2 DEF Schedule, connVars, mapVars, histVars
<1>4. /\ n \in 1 .. MaxTasks /\ n \notin DOMAIN tasks /\ DOMAIN tasks' = DOMAIN tasks \cup {n}
      /\ \A k \in DOMAIN tasks : tasks'[k] = tasks[k] /\ (Mark(k))' = Mark(k)
      /\ tasks'[n].token = t /\ tasks'[n].stream = conn[t] /\ (Mark(n))' = m
  BY <1>1, <1>2, <1>3, TasksType DEF Mark
<1>5. PICK last : last = Len(queue) + 1
  OBVIOUS
<1>6. /\ last \in Nat /\ last \notin DOMAIN queue /\ DOMAIN queue' = DOMAIN queue \cup {last}
      /\ \A j \in DOMAIN queue : j \in Nat /\ j < last /\ queue'[j] = queue[j]
      /\ queue'[last] = AddTimer(n)
  BY <1>1, <1>3, <1>5, LastIsNew
<1>7. \A k : ((Kept(k))' <=> Kept(k)) /\ (Rearmed(k))' = Rearmed(k)
  BY <1>3 DEF Kept, Rearmed
<1>8. /\ ~Kept(n) /\ n \notin ran /\ n \notin revoked /\ n \notin strays
      /\ n \notin DOMAIN wheel /\ Rearmed(n) \notin DOMAIN wheel
      /\ \A j \in DOMAIN queue : queue[j] # AddTimer(n)
  <2>1. ~Kept(n)
    BY <1>1, <1>4, KeptMark
  <2>2. ran \cup revoked \cup strays \subseteq DOMAIN tasks
    BY <1>1 DEF TypeOK
  <2>3. n \notin DOMAIN wheel /\ Rearmed(n) \notin DOMAIN wheel
    BY <1>1, <1>4, SlotOf
  <2>4. \A j \in DOMAIN queue : queue[j] # AddTimer(n)
    BY <1>1, <1>4, MessageKinds
  <2> QED  BY <1>4, <2>1, <2>2, <2>3, <2>4
<1>9. /\ \A h \in DOMAIN wheel : wheel[h].task \in DOMAIN tasks
      /\ \A x \in DOMAIN timers : timers[x].task \in DOMAIN tasks
      /\ \A x \in DOMAIN timers2 : timers2[x].task \in DOMAIN tasks
  BY <1>1 DEF TypeOK
<1>10. Handles'
  <2>1. \A h \in DOMAIN wheel : /\ (Mark(wheel[h].task))' = Mark(wheel[h].task)
                                /\ h = wheel[h].task => tasks'[h] = tasks[h]
    BY <1>3, <1>4, <1>9 DEF Mark
  <2>2. \A x \in DOMAIN timers : (Mark(timers[x].task))' = Mark(timers[x].task)
    BY <1>3, <1>4, <1>9 DEF Mark
  <2>3. \A x \in DOMAIN timers2 : (Mark(timers2[x].task))' = Mark(timers2[x].task)
    BY <1>3, <1>4, <1>9 DEF Mark
  <2>4. \A k \in DOMAIN tasks' : ~(k \in DOMAIN wheel /\ Rearmed(k) \in DOMAIN wheel)
    BY <1>1, <1>4, <1>8 DEF Handles
  <2>5. ASSUME NEW x \in DOMAIN timers
        PROVE  /\ timers[x].handle = timers[x].task /\ timers[x].task \in DOMAIN wheel
               /\ (Mark(timers[x].task))' = x /\ x \notin Repeating
    BY <1>1, <2>2 DEF Handles
  <2>6. ASSUME NEW x \in DOMAIN timers2
        PROVE  timers2[x].handle = timers2[x].task /\ (Mark(timers2[x].task))' = x
    BY <1>1, <2>3 DEF Handles
  <2>7. ASSUME NEW h \in DOMAIN wheel
        PROVE  /\ wheel[h].due > 0
               /\ wheel[h].repeats => h = wheel[h].task /\ tasks'[h].interval > 0
               /\ h # wheel[h].task => (Mark(wheel[h].task))' \in Repeating
    BY <1>1, <2>1 DEF Handles
  <2> QED  BY <1>3, <1>7, <2>4, <2>5, <2>6, <2>7 DEF Handles, Mark
<1>11. Alone'
  <2>1. \A h \in DOMAIN wheel : (Mark(wheel[h].task))' = Mark(wheel[h].task)
    BY <1>3, <1>4, <1>9 DEF Mark
  <2> QED  BY <1>1, <1>3, <2>1 DEF Alone
<1>12. \A k \in DOMAIN tasks, j \in DOMAIN queue' :
         queue'[j] = AddTimer(k) => j \in DOMAIN queue /\ queue[j] = AddTimer(k)
  BY <1>4, <1>6, Distinct
<1>13. Fresh'
  <2> SUFFICES ASSUME NEW k \in DOMAIN tasks'
               PROVE  /\ (Posted(AddTimer(k)))' => /\ k \notin ran \cup revoked /\ ~Kept(k)
                                                   /\ k \notin DOMAIN wheel /\ Rearmed(k) \notin DOMAIN wheel
                      /\ \A a, b \in DOMAIN queue' :
                           queue'[a] = AddTimer(k) /\ queue'[b] = AddTimer(k) => a = b
                      /\ Kept(k) => k \notin revoked
                      /\ Kept(k) /\ (Mark(k))' \notin Repeating => k \notin ran
    BY <1>3, <1>7 DEF Fresh, AddTimer
  <2>1. CASE k = n
    BY <1>6, <1>8, <2>1
  <2>2. CASE k # n
    <3>1. k \in DOMAIN tasks /\ ((Posted(AddTimer(k)))' => Posted(AddTimer(k))) /\ (Mark(k))' = Mark(k)
      BY <1>4, <1>12, <2>2 DEF Posted, AddTimer
    <3> QED  BY <1>1, <1>12, <3>1 DEF Fresh
  <2> QED  BY <2>1, <2>2
<1>14. \A k \in DOMAIN tasks, j \in DOMAIN queue : CancelledBefore(j, k) => (CancelledBefore(j, k))'
  BY <1>1, <1>3, <1>4, AppendKeeps
<1>15. \A j \in DOMAIN queue' : (CancelledBefore(j, n))'
  BY <1>6, <1>7, <1>8 DEF CancelledBefore, AddTimer
<1>16. Ordered'
  <2> SUFFICES ASSUME NEW j \in DOMAIN queue', NEW b \in DOMAIN tasks', NEW k \in DOMAIN tasks,
                      queue'[j] = AddTimer(b), Mark(k) = (Mark(b))', (Mark(b))' \notin misused'
               PROVE  (CancelledBefore(j, k))'
    BY <1>4, <1>15 DEF Ordered, AddTimer
  <2>1. CASE b = n
    <3>1. j = last
      BY <1>6, <1>8, <2>1
    <3>2. ~Awaited(k)
      BY <1>3, <1>4, <2>1 DEF Running
    <3> QED  BY <1>1, <1>3, <1>4, <1>5, <3>1, <3>2, NotAwaited
  <2>2. CASE b # n
    <3>1. b \in DOMAIN tasks /\ Mark(b) = Mark(k) /\ Mark(b) \notin misused
      BY <1>3, <1>4, <2>2
    <3>2. j \in DOMAIN queue /\ queue[j] = AddTimer(b)
      BY <1>12, <3>1
    <3> QED  BY <1>1, <1>14, <3>1, <3>2 DEF Ordered
  <2> QED  BY <2>1, <2>2
<1>17. Ends'
  <2>1. ASSUME NEW k \in DOMAIN tasks' \ strays', (Live(k))'
        PROVE  conn[tasks'[k].token] = tasks'[k].stream
    <3>1. CASE k = n
      BY <1>4, <3>1
    <3>2. CASE k # n
      <4>1. k \in DOMAIN tasks \ strays
        BY <1>3, <1>4, <3>2
      <4>2. Live(k)
        BY <1>7, <1>12, <2>1, <4>1 DEF Live, Posted, AddTimer
      <4> QED  BY <1>1, <1>4, <4>1, <4>2 DEF Ends
    <3> QED  BY <3>1, <3>2
  <2>2. ASSUME NEW j \in DOMAIN queue', NEW u \in Tokens, queue'[j] = Removed(u)
        PROVE  /\ conn[u] \in closed
               /\ \A a \in DOMAIN queue' : queue'[a] = Removed(u) => a = j
               /\ \A k \in DOMAIN tasks' \ strays' : tasks'[k].token = u =>
                    (CancelledBefore(j, k))' /\ \A a \in DOMAIN queue' : queue'[a] = AddTimer(k) => a < j
    <3>1. j \in DOMAIN queue /\ queue[j] = Removed(u)
      BY <1>6, <2>2, Distinct
    <3>2. /\ conn[u] \in closed
          /\ \A a \in DOMAIN queue : queue[a] = Removed(u) => a = j
          /\ \A k \in DOMAIN tasks \ strays : tasks[k].token = u =>
               CancelledBefore(j, k) /\ \A a \in DOMAIN queue : queue[a] = AddTimer(k) => a < j
      BY <1>1, <3>1 DEF Ends
    <3>3. \A a \in DOMAIN queue' : queue'[a] = Removed(u) => a = j
      BY <1>6, <3>2, Distinct
    <3>4. ASSUME NEW k \in DOMAIN tasks' \ strays', tasks'[k].token = u
          PROVE  k \in DOMAIN tasks \ strays /\ tasks[k].token = u
      <4>1. k # n
        BY <1>3, <1>4, <3>2, <3>4
      <4> QED  BY <1>3, <1>4, <3>4, <4>1
    <3> QED  BY <1>12, <1>14, <3>1, <3>2, <3>3, <3>4
  <2> QED  BY <1>3, <2>1, <2>2 DEF Ends, Removed, AddTimer
<1> QED  BY <1>10, <1>11, <1>13, <1>16, <1>17 DEF Inv

LEMMA EstablishedStep ==
  ASSUME Inv, NEW t \in Tokens, HandleEstablished(t), TypeOK'
  PROVE  Inv'
<1>1. TypeOK /\ Handles /\ Fresh /\ Alone /\ Ordered /\ Ends
  BY DEF Inv
<1>2. /\ conn[t] = 0 /\ conn' = [conn EXCEPT ![t] = streams + 1]
      /\ UNCHANGED <<closed, tasks, misused, strays, queue, wheel, timers, timers2, ran, revoked>>
  BY DEF HandleEstablished, userVars, mapVars, histVars
<1>3. \A u : u # t => conn'[u] = conn[u]
  BY <1>1, <1>2 DEF TypeOK
<1>4. \A k : /\ (Mark(k))' = Mark(k) /\ (Rearmed(k))' = Rearmed(k)
             /\ ((Kept(k))' <=> Kept(k)) /\ ((Live(k))' <=> Live(k))
             /\ ((Posted(AddTimer(k)))' <=> Posted(AddTimer(k)))
  BY <1>2 DEF Mark, Rearmed, Kept, Live, Posted, AddTimer
<1>5. Handles' /\ Fresh' /\ Alone'
  BY <1>1, <1>2, <1>4 DEF Handles, Fresh, Alone, AddTimer
<1>6. \A j, k : (CancelledBefore(j, k))' <=> CancelledBefore(j, k)
  BY <1>2, <1>4 DEF CancelledBefore, Between, AddTimer, CancelTimer
<1>7. Ordered'
  BY <1>1, <1>2, <1>4, <1>6 DEF Ordered, AddTimer
<1>8. Ends'
  <2>1. 0 \notin closed /\ \A k \in DOMAIN tasks : tasks[k].stream # 0
    BY SMTT(30), <1>1, TasksType DEF TypeOK
  <2>2. \A k \in DOMAIN tasks \ strays : Live(k) => conn'[tasks[k].token] = tasks[k].stream
    BY <1>1, <1>2, <1>3, <2>1 DEF Ends
  <2>3. ASSUME NEW j \in DOMAIN queue, NEW u \in Tokens, queue[j] = Removed(u)
        PROVE  /\ conn'[u] \in closed
               /\ \A i \in DOMAIN queue : queue[i] = Removed(u) => i = j
               /\ \A n \in DOMAIN tasks \ strays : tasks[n].token = u =>
                    (CancelledBefore(j, n))' /\ \A i \in DOMAIN queue : queue[i] = AddTimer(n) => i < j
    <3>1. /\ conn[u] \in closed
          /\ \A i \in DOMAIN queue : queue[i] = Removed(u) => i = j
          /\ \A n \in DOMAIN tasks \ strays : tasks[n].token = u =>
               CancelledBefore(j, n) /\ \A i \in DOMAIN queue : queue[i] = AddTimer(n) => i < j
      BY <1>1, <2>3 DEF Ends
    <3>2. u # t
      BY <1>2, <2>1, <3>1
    <3> QED  BY <1>3, <1>6, <3>1, <3>2
  <2>4. \A k \in DOMAIN tasks' \ strays' : (Live(k))' => conn'[tasks'[k].token] = tasks'[k].stream
    BY <1>2, <1>4, <2>2
  <2>5. \A j \in DOMAIN queue', u \in Tokens : queue'[j] = Removed(u) =>
          /\ conn'[u] \in closed'
          /\ \A i \in DOMAIN queue' : queue'[i] = Removed(u) => i = j
          /\ \A n \in DOMAIN tasks' \ strays' : tasks'[n].token = u =>
               (CancelledBefore(j, n))' /\ \A i \in DOMAIN queue' : queue'[i] = AddTimer(n) => i < j
    BY <1>2, <2>3
  <2> QED  BY <2>4, <2>5 DEF Ends, Removed, AddTimer
<1> QED  BY <1>5, <1>7, <1>8 DEF Inv

LEMMA InvStep ==
  ASSUME Inv, [Next]_vars
  PROVE  Inv'
<1>1. TypeOK'
  BY TypeUser, TypeLoop DEF Inv, Next, vars, TypeOK, Rearmed, Mark, connVars, userVars, mapVars, histVars
<1>2. CASE Tick \/ EventsDone \/ DrainEmpty \/ TimersDone \/ HandleStop \/ UNCHANGED vars
  <2>1. UNCHANGED <<conn, closed, tasks, misused, strays, queue, wheel, timers, timers2, ran, revoked>>
    BY <1>2 DEF Tick, EventsDone, DrainEmpty, TimersDone, HandleStop, vars,
                connVars, userVars, mapVars, histVars
  <2> QED  BY <1>1, <2>1, InvStutter
<1>3. CASE UserStep
  BY <1>1, <1>2, <1>3, ScheduleStep, ScheduleCancelStep, StreamEndsStep, EstablishedStep DEF UserStep
<1>4. CASE LoopStep
  BY <1>1, <1>2, <1>4, RemovedStep, AddStep, CancelStep, FireOnceStep, FireRepeatingStep DEF LoopStep
<1> QED  BY <1>2, <1>3, <1>4 DEF Next

\* The invariant that the maps and the runs of callbacks rest on.
THEOREM InvHolds == Spec => []Inv
BY InvInit, InvStep, PTL DEF Spec

\* The handles of the callbacks are those of armed timers of their tasks; the
\* other way round, unless a mark is used again while its callback is to run.
THEOREM MapsAgree == Spec => []MapAgreesWithWheel
<1>1. Inv => MapAgreesWithWheel
  <2> SUFFICES ASSUME Inv  PROVE MapAgreesWithWheel
    OBVIOUS
  <2>1. TypeOK /\ Handles /\ Alone
    BY DEF Inv
  <2>2. ASSUME NEW m \in DOMAIN timers
        PROVE  /\ timers[m].handle \in DOMAIN wheel
               /\ wheel[timers[m].handle].task = timers[m].task
               /\ Mark(timers[m].task) = m
    <3>1. /\ timers[m].handle = timers[m].task /\ timers[m].task \in DOMAIN wheel
          /\ Mark(timers[m].task) = m
      BY <2>1 DEF Handles
    <3>2. timers[m].task \in 1 .. MaxTasks
      BY <2>1, RearmedApart DEF TypeOK
    <3> QED  BY <2>1, <3>1, <3>2, SlotOf
  <2> QED  BY <2>1, <2>2 DEF MapAgreesWithWheel, Alone
<1> QED  BY <1>1, InvHolds, PTL

\* What a firing runs is kept, and has its token's connection there.
LEMMA CallbackIsKept ==
  ASSUME Inv, NEW h \in DOMAIN wheel, NEW e \in Callbacks(h)
  PROVE  /\ e.task \in DOMAIN tasks /\ Kept(e.task) /\ e.task \notin revoked
         /\ Mark(e.task) = Mark(wheel[h].task)
         /\ wheel[h].repeats => Mark(e.task) \in DOMAIN timers2 /\ e = timers2[Mark(e.task)]
         /\ ~wheel[h].repeats => /\ Mark(e.task) \in DOMAIN timers /\ e = timers[Mark(e.task)]
                                 /\ Mark(e.task) \notin Repeating /\ e.task \notin ran
<1>1. TypeOK /\ Handles /\ Fresh
  BY DEF Inv
<1>2. PICK m : m = Mark(wheel[h].task)
  OBVIOUS
<1>3. CASE wheel[h].repeats
  <2>1. m \in DOMAIN timers2 /\ e = timers2[m]
    BY <1>2, <1>3 DEF Callbacks, Runs, Found
  <2>2. Kept(e.task) /\ Mark(e.task) = m /\ e.task \in DOMAIN tasks
    BY <1>1, <2>1 DEF Kept, Handles, TypeOK
  <2> QED  BY <1>1, <1>2, <1>3, <2>1, <2>2 DEF Fresh
<1>4. CASE ~wheel[h].repeats
  <2>1. m \in DOMAIN timers /\ e = timers[m]
    BY <1>2, <1>4 DEF Callbacks, Runs, Found
  <2>2. Kept(e.task) /\ Mark(e.task) = m /\ m \notin Repeating /\ e.task \in DOMAIN tasks
    BY <1>1, <2>1 DEF Kept, Handles, TypeOK
  <2> QED  BY <1>1, <1>2, <1>4, <2>1, <2>2 DEF Fresh
<1> QED  BY <1>3, <1>4

\* No callback runs after its cancel, and none of schedule_after twice; nor,
\* unless its mark is used again too early, any for another's timer or twice.
THEOREM CallbacksRunOnce == Spec => RunsItsTask
<1>1. ASSUME Inv, NEW h \in DOMAIN wheel, NEW e \in Callbacks(h)
      PROVE  /\ e.task \notin revoked
             /\ e.task \in ran => wheel[h].repeats
             /\ Mark(e.task) \notin misused => e.task = wheel[h].task /\ e.task \notin ran
  <2>1. TypeOK /\ Handles /\ Alone
    BY <1>1 DEF Inv
  <2>2. PICK m : m = Mark(wheel[h].task)
    OBVIOUS
  <2>3. /\ e.task \notin revoked /\ Mark(e.task) = m
        /\ wheel[h].repeats => m \in DOMAIN timers2 /\ e = timers2[m]
        /\ ~wheel[h].repeats => m \in DOMAIN timers /\ e = timers[m] /\ m \notin Repeating /\ e.task \notin ran
    BY <1>1, <2>2, CallbackIsKept
  <2>4. ASSUME m \notin misused  PROVE e.task = wheel[h].task /\ e.task \notin ran
    <3>1. CASE wheel[h].repeats
      <4>1. timers2[m].handle = h /\ h \notin ran
        BY <2>1, <2>2, <2>4, <3>1 DEF Alone
      <4>2. timers2[m].handle = timers2[m].task /\ h = wheel[h].task
        BY <2>1, <2>3, <3>1 DEF Handles
      <4> QED  BY <2>3, <3>1, <4>1, <4>2
    <3>2. CASE ~wheel[h].repeats
      <4>1. timers[m].handle = h
        BY <2>1, <2>2, <2>3, <2>4, <3>2 DEF Alone
      <4>2. timers[m].handle = timers[m].task /\ timers[m].task \in 1 .. MaxTasks
        BY <2>1, <2>3, <3>2, RearmedApart DEF Handles, TypeOK
      <4>3. h = wheel[h].task
        BY <2>1, <4>1, <4>2, SlotOf
      <4> QED  BY <2>3, <3>2, <4>1, <4>2, <4>3
    <3> QED  BY <3>1, <3>2
  <2> QED  BY <2>3, <2>4
<1>2. Inv /\ [Next]_vars =>
        [\A h \in DOMAIN wheel : FireOnce(h) \/ FireRepeating(h) =>
           \A e \in Callbacks(h) :
             /\ e.task \notin revoked
             /\ e.task \in ran => wheel[h].repeats
             /\ Mark(e.task) \notin misused => e.task = wheel[h].task /\ e.task \notin ran]_vars
  BY <1>1
<1> QED  BY <1>2, InvHolds, PTL DEF Spec, RunsItsTask

\* Of what on_close has to do, and what may not be scheduled after it: what is
\* neither left nor scheduled late runs on its connection, however the tokens
\* are used again.  Nothing in the code sees to that.
THEOREM CallbacksRunAtHome == Spec => RunsOnItsConnection
<1>1. ASSUME Inv, NEW h \in DOMAIN wheel, NEW e \in Callbacks(h), e.task \notin strays
      PROVE  conn[tasks[e.task].token] = tasks[e.task].stream
  <2>1. e.task \in DOMAIN tasks /\ Live(e.task)
    BY <1>1, CallbackIsKept DEF Live
  <2> QED  BY <1>1, <2>1 DEF Inv, Ends
<1>2. Inv /\ [Next]_vars =>
        [\A h \in DOMAIN wheel : FireOnce(h) \/ FireRepeating(h) =>
           \A e \in Callbacks(h) : e.task \notin strays => conn[tasks[e.task].token] = tasks[e.task].stream]_vars
  BY <1>1
<1> QED  BY <1>2, InvHolds, PTL DEF Spec, RunsOnItsConnection

----------------------------------------------------------------------------
(* The wheel and the timer service *)

TickServed == ServedTick \in 0 .. clock /\ Serving(ServedTick)

\* There is a tick up to which the wheel has served.
LEMMA SomeTickServed == TypeOK => TickServed
<1> SUFFICES ASSUME TypeOK  PROVE TickServed
  OBVIOUS
<1> DEFINE Candidates == {t \in 0 .. clock : t = clock \/ \E h \in DOMAIN wheel : wheel[h].due = t}
<1>1. clock \in Nat /\ \A h \in DOMAIN wheel : wheel[h].due \in Nat
  BY SlotOf DEF TypeOK
<1>2. \E t \in Candidates : \A u \in Candidates : t <= u
  <2>1. clock \in Candidates /\ Candidates \subseteq Nat
    BY <1>1
  <2>2. \E t \in Candidates : \A u \in Candidates : ~(<<u, t>> \in OpToRel(<, Nat))
    <3> HIDE DEF Candidates
    <3> QED  BY <2>1, NatLessThanWellFounded, WFMin
  <2>3. \A t, u \in Nat : ~(<<u, t>> \in OpToRel(<, Nat)) => t <= u
    BY DEF OpToRel
  <2> QED  BY <2>1, <2>2, <2>3
<1>3. PICK t \in Candidates : \A u \in Candidates : t <= u
  BY <1>2
<1>4. \A h \in DOMAIN wheel : wheel[h].due >= t
  <2> SUFFICES ASSUME NEW h \in DOMAIN wheel  PROVE wheel[h].due >= t
    OBVIOUS
  <2>1. CASE wheel[h].due <= clock
    <3>1. wheel[h].due \in Candidates
      BY <1>1, <2>1
    <3> QED  BY <1>1, <1>3, <3>1
  <2>2. CASE wheel[h].due > clock
    BY <1>1, <1>3, <2>2
  <2> QED  BY <1>1, <2>1, <2>2
<1>5. t \in 0 .. clock /\ Serving(t)
  BY <1>3, <1>4 DEF Serving
<1> QED  BY <1>5 DEF ServedTick, TickServed

\* A task has one timer at most.
LEMMA OneTimer ==
  ASSUME TypeOK, Handles, NEW n \in 1 .. MaxTasks
  PROVE  ~(n \in DOMAIN wheel /\ Rearmed(n) \in DOMAIN wheel)
<1>1. n \in DOMAIN wheel => n \in DOMAIN tasks
  BY SlotOf
<1> QED  BY <1>1 DEF Handles

DueTickMeaning ==
  /\ \A h \in DOMAIN wheel :
       /\ wheel[h].task \in 1 .. MaxTasks /\ DueTick[wheel[h].task] = wheel[h].due
       /\ wheel[h].due \in Nat \ {0}
  /\ \A n \in 1 .. MaxTasks :
       DueTick[n] # 0 => \E h \in DOMAIN wheel : wheel[h].task = n /\ DueTick[n] = wheel[h].due

\* The due tick of a task is that of its timer.
LEMMA DueTickIs == TypeOK /\ Handles => DueTickMeaning
<1> SUFFICES ASSUME TypeOK, Handles  PROVE DueTickMeaning
  OBVIOUS
<1>1. ASSUME NEW h \in DOMAIN wheel
      PROVE  /\ wheel[h].task \in 1 .. MaxTasks /\ DueTick[wheel[h].task] = wheel[h].due
             /\ wheel[h].due \in Nat \ {0}
  <2>1. /\ wheel[h].task \in 1 .. MaxTasks /\ wheel[h].due \in Nat
        /\ h = wheel[h].task \/ h = Rearmed(wheel[h].task)
    BY SlotOf
  <2>2. wheel[h].due > 0
    BY DEF Handles
  <2>3. ~(wheel[h].task \in DOMAIN wheel /\ Rearmed(wheel[h].task) \in DOMAIN wheel)
    BY <2>1, OneTimer
  <2>4. DueTick[wheel[h].task] = wheel[h].due
    BY <2>1, <2>3 DEF DueTick
  <2> QED  BY <2>1, <2>2, <2>4
<1>2. ASSUME NEW n \in 1 .. MaxTasks, DueTick[n] # 0
      PROVE  \E h \in DOMAIN wheel : wheel[h].task = n /\ DueTick[n] = wheel[h].due
  <2>1. CASE n \in DOMAIN wheel
    <3>1. wheel[n].task = n
      BY <2>1, SlotOf
    <3> QED  BY <2>1, <3>1 DEF DueTick
  <2>2. CASE n \notin DOMAIN wheel
    <3>1. Rearmed(n) \in DOMAIN wheel /\ DueTick[n] = wheel[Rearmed(n)].due
      BY <1>2, <2>2 DEF DueTick
    <3>2. wheel[Rearmed(n)].task = n
      BY <3>1, SlotOf
    <3> QED  BY <3>1, <3>2
  <2> QED  BY <2>1, <2>2
<1> QED  BY <1>1, <1>2 DEF DueTickMeaning

\* What changes the timers of one task changes its due tick.
LEMMA OneTaskChanges ==
  ASSUME NEW n \in 1 .. MaxTasks,
         \A g : g \notin {n, Rearmed(n)} =>
           (g \in DOMAIN wheel' <=> g \in DOMAIN wheel) /\ (g \in DOMAIN wheel => wheel'[g] = wheel[g])
  PROVE  DueTick' = [DueTick EXCEPT ![n] = DueTick'[n]]
<1>1. ASSUME NEW k \in 1 .. MaxTasks, k # n
      PROVE  DueTick'[k] = DueTick[k]
  <2>1. k \notin {n, n + MaxTasks} /\ k + MaxTasks \notin {n, n + MaxTasks}
    BY <1>1, TaskAssumption
  <2>2. k \notin {n, Rearmed(n)} /\ Rearmed(k) \notin {n, Rearmed(n)}
    BY <2>1 DEF Rearmed
  <2>3. /\ k \in DOMAIN wheel' <=> k \in DOMAIN wheel
        /\ k \in DOMAIN wheel => wheel'[k] = wheel[k]
        /\ Rearmed(k) \in DOMAIN wheel' <=> Rearmed(k) \in DOMAIN wheel
        /\ Rearmed(k) \in DOMAIN wheel => wheel'[Rearmed(k)] = wheel[Rearmed(k)]
    BY <2>2
  <2>4. /\ DueTick'[k] = IF k \in DOMAIN wheel' THEN wheel'[k].due
                         ELSE IF Rearmed(k) \in DOMAIN wheel' THEN wheel'[Rearmed(k)].due ELSE 0
        /\ DueTick[k] = IF k \in DOMAIN wheel THEN wheel[k].due
                        ELSE IF Rearmed(k) \in DOMAIN wheel THEN wheel[Rearmed(k)].due ELSE 0
    BY DEF DueTick, Rearmed
  <2> QED  BY <2>3, <2>4
<1>2. DOMAIN DueTick = 1 .. MaxTasks /\ DOMAIN DueTick' = 1 .. MaxTasks
  BY DEF DueTick
<1>3. /\ DueTick = [k \in 1 .. MaxTasks |-> DueTick[k]]
      /\ DueTick' = [k \in 1 .. MaxTasks |-> DueTick'[k]]
  BY DEF DueTick
<1> QED  BY <1>1, <1>2, <1>3

\* Timers are armed for ticks to come, so that none is passed.
LEMMA NonePasses ==
  ASSUME TypeOK, TypeOK', Handles', clock' >= clock,
         \A g \in DOMAIN wheel' :
           wheel'[g].due > clock \/ \E h \in DOMAIN wheel : wheel[h].due = wheel'[g].due
  PROVE  Service!NonePassed
<1>0. TickServed /\ TickServed' /\ DueTickMeaning'
  BY SomeTickServed, DueTickIs, PTL
<1>1. PICK t : t = ServedTick /\ t \in 0 .. clock /\ \A h \in DOMAIN wheel : wheel[h].due >= t
  BY <1>0 DEF TickServed, Serving
<1>2. PICK u : /\ u = ServedTick' /\ u \in 0 .. clock'
               /\ \A g \in DOMAIN wheel' : wheel'[g].due >= u
               /\ u = clock' \/ \E g \in DOMAIN wheel' : wheel'[g].due = u
  BY <1>0 DEF TickServed, Serving
<1>3. clock \in Nat /\ clock' \in Nat /\ \A g \in DOMAIN wheel' : wheel'[g].due \in Nat
  BY SlotOf DEF TypeOK
<1>4. u \in Nat /\ u >= t
  <2>1. CASE u = clock'
    BY <1>1, <1>3, <2>1
  <2>2. CASE \E g \in DOMAIN wheel' : wheel'[g].due = u
    <3>1. PICK g \in DOMAIN wheel' : wheel'[g].due = u
      BY <2>2
    <3>2. CASE u > clock
      BY <1>1, <1>2, <1>3, <3>2
    <3>3. CASE \E h \in DOMAIN wheel : wheel[h].due = u
      BY <1>1, <1>2, <3>3
    <3> QED  BY <3>1, <3>2, <3>3
  <2> QED  BY <1>2, <2>1, <2>2
<1>5. \A n \in 1 .. MaxTasks : DueTick'[n] # 0 => DueTick'[n] >= u
  BY <1>0, <1>2 DEF DueTickMeaning
<1> QED  BY <1>1, <1>2, <1>4, <1>5 DEF Service!NonePassed

\* A timer that is taken out of the wheel is the one of its task.
LEMMA RemovalDisarms ==
  ASSUME TypeOK, Handles, NEW h \in DOMAIN wheel, wheel' = Without(wheel, h),
         NEW n, n = wheel[h].task
  PROVE  /\ n \in 1 .. MaxTasks /\ DueTick[n] = wheel[h].due /\ DueTick[n] # 0
         /\ DueTick' = [DueTick EXCEPT ![n] = 0]
<1>1. n \in 1 .. MaxTasks /\ DueTick[n] = wheel[h].due /\ DueTick[n] # 0
  BY DueTickIs DEF DueTickMeaning
<1>2. h = n \/ h = Rearmed(n)
  BY SlotOf
<1>3. /\ DOMAIN wheel' = DOMAIN wheel \ {h}
      /\ \A g \in DOMAIN wheel \ {h} : wheel'[g] = wheel[g]
  BY DEF Without
<1>4. n \notin DOMAIN wheel' /\ Rearmed(n) \notin DOMAIN wheel'
  BY <1>1, <1>2, <1>3, OneTimer
<1>5. DueTick'[n] = 0
  BY <1>1, <1>4 DEF DueTick, Rearmed
<1>6. DueTick' = [DueTick EXCEPT ![n] = DueTick'[n]]
  BY <1>1, <1>2, <1>3, OneTaskChanges
<1> QED  BY <1>1, <1>5, <1>6

\* A new timer of a task that has none, or whose only timer it replaces.
LEMMA ArmingSets ==
  ASSUME TypeOK, NEW n \in 1 .. MaxTasks, NEW h \in {n, Rearmed(n)}, NEW d \in Nat, d > clock,
         h \in DOMAIN wheel', wheel'[h].due = d, h = n \/ n \notin DOMAIN wheel',
         \A g : g \notin {n, Rearmed(n)} =>
           (g \in DOMAIN wheel' <=> g \in DOMAIN wheel) /\ (g \in DOMAIN wheel => wheel'[g] = wheel[g])
  PROVE  Service!Sets(n)
<1>1. DueTick'[n] = d
  BY DEF DueTick, Rearmed
<1>2. DueTick' = [DueTick EXCEPT ![n] = DueTick'[n]]
  BY OneTaskChanges
<1>3. ServedTick \in 0 .. clock /\ clock \in Nat
  BY SomeTickServed DEF TickServed, TypeOK
<1> QED  BY <1>1, <1>2, <1>3 DEF Service!Sets

\* The timer that process_timers takes next is due in the tick that is served.
LEMMA DueIsServed ==
  ASSUME TypeOK, NEW h \in DOMAIN wheel, Due(h)
  PROVE  ServedTick = wheel[h].due
<1>1. /\ ServedTick \in 0 .. clock
      /\ \A g \in DOMAIN wheel : wheel[g].due >= ServedTick
      /\ ServedTick = clock \/ \E g \in DOMAIN wheel : wheel[g].due = ServedTick
  BY SomeTickServed DEF TickServed, Serving
<1>2. wheel[h].due <= clock /\ \A g \in DOMAIN wheel : wheel[h].due <= wheel[g].due
  BY DEF Due
<1>3. clock \in Nat /\ \A g \in DOMAIN wheel : wheel[g].due \in Nat
  BY SlotOf DEF TypeOK
<1>4. wheel[h].due <= ServedTick /\ wheel[h].due >= ServedTick
  BY <1>1, <1>2, <1>3
<1> QED  BY <1>1, <1>3, <1>4

LEMMA CoarseStep ==
  ASSUME Inv, Inv', [Next]_vars
  PROVE  /\ Service!CoarseNext
         /\ \A h \in DOMAIN wheel :
              /\ FireOnce(h) => Service!Fire(wheel[h].task)
              /\ FireRepeating(h) => Service!Again(wheel[h].task)
<1>1. TypeOK /\ Handles /\ TypeOK' /\ Handles' /\ clock \in Nat
  BY DEF Inv, TypeOK
<1>2. ASSUME wheel' = wheel, clock' >= clock  PROVE Service!CoarseNext
  <2>1. Service!NonePassed
    BY <1>1, <1>2, NonePasses
  <2>2. DueTick' = DueTick
    BY <1>2 DEF DueTick, Rearmed
  <2> QED  BY <2>1, <2>2 DEF Service!CoarseNext
<1>3. ASSUME Tick  PROVE Service!CoarseNext
  BY <1>1, <1>2, <1>3 DEF Tick
<1>4. ASSUME \/ EventsDone \/ DrainEmpty \/ TimersDone \/ HandleRemoved \/ UserStep \/ UNCHANGED vars
      PROVE  Service!CoarseNext
  <2>1. wheel' = wheel /\ clock' = clock
    BY <1>4 DEF EventsDone, DrainEmpty, TimersDone, HandleRemoved, UserStep, Schedule, ScheduleCancel,
                StreamEnds, HandleEstablished, HandleStop, Takes, vars
  <2> QED  BY <1>1, <1>2, <2>1
<1>5. ASSUME NEW h \in DOMAIN wheel, wheel' = Without(wheel, h), clock' = clock
      PROVE  /\ Service!NonePassed /\ wheel[h].task \in 1 .. MaxTasks
             /\ Service!Cancel(wheel[h].task)
             /\ Due(h) => Service!Fire(wheel[h].task)
  <2>1. \A g \in DOMAIN wheel' : g \in DOMAIN wheel /\ wheel'[g] = wheel[g]
    BY <1>5 DEF Without
  <2>2. Service!NonePassed
    BY <1>1, <1>5, <2>1, NonePasses
  <2>3. PICK n : n = wheel[h].task
    OBVIOUS
  <2>4. /\ n \in 1 .. MaxTasks /\ DueTick[n] = wheel[h].due /\ DueTick[n] # 0
        /\ DueTick' = [DueTick EXCEPT ![n] = 0]
    BY <1>1, <1>5, <2>3, RemovalDisarms
  <2>5. Due(h) => DueTick[n] = ServedTick
    BY <1>1, <2>4, DueIsServed
  <2> QED  BY <2>2, <2>3, <2>4, <2>5 DEF Service!Cancel, Service!Fire, Service!Armed
<1>6. ASSUME NEW h \in DOMAIN wheel, FireOnce(h)
      PROVE  Service!CoarseNext /\ Service!Fire(wheel[h].task)
  <2>1. Due(h) /\ wheel' = Without(wheel, h) /\ clock' = clock
    BY <1>6 DEF FireOnce
  <2> QED  BY <1>5, <2>1 DEF Service!CoarseNext
<1>7. ASSUME HandleCancelTimer  PROVE Service!CoarseNext
  <2>1. clock' = clock
    BY <1>7 DEF HandleCancelTimer, Takes
  <2>2. \/ wheel' = wheel
        \/ \E h : wheel' = Without(wheel, h)
    BY <1>7 DEF HandleCancelTimer
  <2>3. CASE wheel' = wheel
    BY <1>1, <1>2, <2>1, <2>3
  <2>4. ASSUME NEW h, wheel' = Without(wheel, h)  PROVE Service!CoarseNext
    <3>1. CASE h \in DOMAIN wheel
      BY <1>5, <2>1, <2>4, <3>1 DEF Service!CoarseNext
    <3>2. CASE h \notin DOMAIN wheel
      <4>1. /\ DOMAIN wheel' = DOMAIN wheel
            /\ \A g \in DOMAIN wheel : wheel'[g] = wheel[g]
        BY <2>4, <3>2 DEF Without
      <4>2. DueTick' = DueTick
        BY <4>1 DEF DueTick, Rearmed
      <4>3. Service!NonePassed
        BY <1>1, <2>1, <4>1, NonePasses
      <4> QED  BY <4>2, <4>3 DEF Service!CoarseNext
    <3> QED  BY <3>1, <3>2
  <2> QED  BY <2>2, <2>3, <2>4
<1>8. ASSUME HandleAddTimer  PROVE Service!CoarseNext
  <2>1. PICK n : n = Head(queue).task
    OBVIOUS
  <2>2. /\ queue # <<>> /\ 1 \in DOMAIN queue /\ Head(queue) = queue[1]
        /\ n \in DOMAIN tasks /\ queue[1] = AddTimer(n) /\ n \in 1 .. MaxTasks
    <3>1. queue # <<>> /\ Head(queue) = queue[1] /\ 1 \in DOMAIN queue /\ queue[1].kind = "add"
      BY <1>1, <1>8, TakesStep DEF HandleAddTimer
    <3>2. n \in DOMAIN tasks /\ queue[1] = AddTimer(n)
      BY <1>1, <2>1, <3>1, MessageKinds
    <3> QED  BY <1>1, <3>1, <3>2, TasksType
  <2>3. clock' = clock
    BY <1>8 DEF HandleAddTimer, Takes
  <2>4. CASE wheel' = wheel
    BY <1>1, <1>2, <2>3, <2>4
  <2>5. CASE wheel' = Put(wheel, n, [task |-> n, due |-> clock + tasks[n].delay,
                                     repeats |-> tasks[n].interval > 0])
    <3>1. PICK d : d = clock + tasks[n].delay /\ d \in Nat /\ d > clock
      BY <1>1, <2>2, DelaysPass
    <3>2. /\ DOMAIN wheel' = DOMAIN wheel \cup {n} /\ wheel'[n].due = d
          /\ \A g \in DOMAIN wheel : g # n => wheel'[g] = wheel[g]
      BY <2>5, <3>1 DEF Put
    <3>3. n \notin DOMAIN wheel /\ Rearmed(n) \notin DOMAIN wheel
      BY <2>2 DEF Inv, Fresh, Posted
    <3>4. Service!Sets(n)
      BY <1>1, <2>2, <3>1, <3>2, ArmingSets
    <3>5. ~Service!Armed(n)
      BY <2>2, <3>3 DEF Service!Armed, DueTick
    <3>6. Service!NonePassed
      <4>1. \A g \in DOMAIN wheel' : wheel'[g].due > clock \/ \E h \in DOMAIN wheel : wheel[h].due = wheel'[g].due
        BY <3>1, <3>2
      <4> QED  BY <1>1, <2>3, <4>1, NonePasses
    <3> QED  BY <2>2, <3>4, <3>5, <3>6 DEF Service!CoarseNext, Service!Arm
  <2> QED  BY <1>8, <2>1, <2>4, <2>5 DEF HandleAddTimer
<1>9. ASSUME NEW h \in DOMAIN wheel, FireRepeating(h)
      PROVE  Service!CoarseNext /\ Service!Again(wheel[h].task)
  <2>1. PICK n \in DOMAIN tasks : n = wheel[h].task /\ n \in 1 .. MaxTasks
    BY <1>1, SlotOf
  <2>2. /\ Due(h) /\ clock' = clock /\ wheel[h].repeats
        /\ wheel' = Put(Without(wheel, h), Rearmed(n),
                        [task |-> n, due |-> clock + tasks[n].interval, repeats |-> FALSE])
    BY <1>9, <2>1 DEF FireRepeating
  <2>3. PICK d : d = clock + tasks[n].interval /\ d \in Nat /\ d > clock
    <3>1. tasks[n].interval > 0
      BY <1>1, <2>1, <2>2 DEF Handles
    <3> QED  BY <1>1, <2>1, <3>1, DelaysPass
  <2>4. /\ DOMAIN wheel' = (DOMAIN wheel \ {h}) \cup {Rearmed(n)} /\ wheel'[Rearmed(n)].due = d
        /\ \A g \in DOMAIN wheel \ {h} : g # Rearmed(n) => wheel'[g] = wheel[g]
    BY <2>2, <2>3 DEF Put, Without
  <2>5. h = n /\ Rearmed(n) # n
    <3>1. h = n
      BY <1>1, <2>1, <2>2 DEF Handles
    <3>2. n \in 1 .. MaxTasks /\ Rearmed(n) \in Nat /\ Rearmed(n) > MaxTasks
      BY <1>1, TasksType
    <3> QED  BY <3>1, <3>2, TaskAssumption
  <2>6. Service!Sets(n)
    <3>1. n \notin DOMAIN wheel' /\ Rearmed(n) \in DOMAIN wheel'
      BY <2>4, <2>5
    <3>2. \A g : g \notin {n, Rearmed(n)} =>
            (g \in DOMAIN wheel' <=> g \in DOMAIN wheel) /\ (g \in DOMAIN wheel => wheel'[g] = wheel[g])
      BY <2>4, <2>5
    <3> QED  BY <1>1, <2>1, <2>3, <2>4, <3>1, <3>2, ArmingSets
  <2>7. DueTick[n] = ServedTick /\ DueTick[n] # 0
    <3>1. DueTick[n] = wheel[h].due /\ wheel[h].due # 0
      BY <1>1, <2>1, DueTickIs DEF DueTickMeaning
    <3> QED  BY <1>1, <2>2, <3>1, DueIsServed
  <2>8. Service!NonePassed
    <3>1. \A g \in DOMAIN wheel' : wheel'[g].due > clock \/ \E k \in DOMAIN wheel : wheel[k].due = wheel'[g].due
      BY <2>3, <2>4
    <3>2. clock' >= clock
      BY <1>1, <2>2
    <3> QED  BY <1>1, <3>1, <3>2, NonePasses
  <2>9. Service!Again(n)
    BY <2>6, <2>7 DEF Service!Again, Service!Armed
  <2> QED  BY <2>1, <2>8, <2>9 DEF Service!CoarseNext
<1>10. Service!CoarseNext
  BY <1>3, <1>4, <1>6, <1>7, <1>8, <1>9 DEF Next, LoopStep
<1> QED  BY <1>6, <1>9, <1>10

\* What the Dispatcher and process_timers do with the wheel is what a user of
\* the timer service may do: one timer for a task, for a tick to come, fired in
\* it, and no tick passes a waiting timer.
THEOREM TasksUseService == Spec => UsesService
<1>1. Init => Service!Init
  <2> SUFFICES ASSUME Init  PROVE Service!Init
    OBVIOUS
  <2>1. DOMAIN wheel = {} /\ clock = 0
    BY DEF Init
  <2>2. DueTick = [n \in 1 .. MaxTasks |-> 0]
    BY <2>1 DEF DueTick
  <2>3. ServedTick = 0
    BY <2>1, TypeInit, SomeTickServed DEF TickServed
  <2> QED  BY <2>2, <2>3 DEF Service!Init
<1>2. Inv /\ Inv' /\ [Next]_vars =>
        /\ [Service!CoarseNext]_(Service!vars)
        /\ [\A h \in DOMAIN wheel :
              /\ FireOnce(h) => Service!Fire(wheel[h].task)
              /\ FireRepeating(h) => Service!Again(wheel[h].task)]_vars
  BY CoarseStep
<1> QED
  BY <1>1, <1>2, InvHolds, PTL DEF Spec, UsesService, Service!CoarseSpec

=============================================================================
