------------------------------ MODULE TimerTasks ------------------------------
(***************************************************************************)
(* The timed callbacks of connections: schedule_after, schedule_every and   *)
(* schedule_cancel (src/tcp_connection.rs) post messages to the loop, whose *)
(* Dispatcher (src/tcp_server.rs) arms a timer of the wheel for a mark and  *)
(* keeps the callback in `timers' or `timers2' until the mark is due        *)
(* (process_timers, src/event_loop.rs).                                     *)
(*                                                                          *)
(* The wheel is that of TimerService: an armed timer fires in its tick.     *)
(* Each call of schedule_after or schedule_every is a task with a number.   *)
(* A callback of a connection calls them for any mark and at any time, also  *)
(* after on_close.  The Dispatcher keeps one callback by mark: `misused'     *)
(* are the marks that have been used again while their callback was still   *)
(* to run, and `strays' the callbacks that on_close has not cancelled or     *)
(* that were scheduled after it.                                            *)
(***************************************************************************)
EXTENDS Naturals, Sequences, FiniteSets

CONSTANTS
  Marks,       \* values of TcpConnection::Timeout
  Repeating,   \* the marks used with schedule_every
  Tokens,      \* tokens of the loop
  Delays,      \* ticks until the wheel gets to what is scheduled
  Intervals,   \* intervals of schedule_every, in ticks
  Capacity,    \* EventLoopConfig::timer_cap
  MaxTasks,    \* bound: calls of schedule_after and schedule_every
  MaxStreams,  \* bound: connections
  MaxStops,    \* bound: Stops
  MaxCancels,  \* bound: calls of schedule_cancel
  MaxClock     \* bound: ticks in which something is scheduled

ASSUME TaskAssumption ==
  /\ IsFiniteSet(Marks) /\ Repeating \subseteq Marks
  /\ Delays \subseteq Nat \ {0} /\ Intervals \subseteq Nat
  /\ Capacity \in Nat /\ MaxTasks \in Nat /\ MaxStreams \in Nat
  /\ MaxStops \in Nat /\ MaxCancels \in Nat /\ MaxClock \in Nat

AddTimer(n) == [kind |-> "add", task |-> n]
CancelTimer(m) == [kind |-> "cancel", mark |-> m]
Removed(t) == [kind |-> "removed", token |-> t]

VARIABLES
  conn,      \* local_connections: the stream of each token, 0 for none
  streams,   \* connections so far, which are numbered from 1
  closed,    \* streams whose on_close has run
  tasks,     \* what has been scheduled
  cancels,   \* calls of schedule_cancel so far
  misused,   \* marks used again while their callback was still to run
  strays,    \* tasks that on_close has left behind
  queue,     \* the loop's channel
  stops,     \* Stops handled so far
  phase,     \* where the loop is
  clock,     \* the current tick
  wheel,     \* the armed timers, by handle
  timers,    \* one-shot callbacks, by mark
  timers2,   \* repeating callbacks, by mark
  ran,       \* tasks whose callback has run
  revoked    \* tasks whose CancelTimer has been handled

connVars == <<conn, streams, closed>>
userVars == <<tasks, cancels, misused, strays>>
mapVars == <<timers, timers2>>
histVars == <<ran, revoked>>
vars == <<connVars, userVars, queue, stops, phase, clock, wheel, mapVars, histVars>>

----------------------------------------------------------------------------
Mark(n) == tasks[n].mark

\* The handle of the timer that process_timers arms for a repeating task.
Rearmed(n) == n + MaxTasks

Put(f, x, y) == [z \in DOMAIN f \cup {x} |-> IF z = x THEN y ELSE f[z]]
Without(f, x) == [z \in DOMAIN f \ {x} |-> f[z]]

\* The callback of n is in one of the maps.
Kept(n) ==
  \/ \E m \in DOMAIN timers : timers[m].task = n
  \/ \E m \in DOMAIN timers2 : timers2[m].task = n

\* A CancelTimer for m comes behind the i-th message.
Behind(i, m) == \E c \in DOMAIN queue : c > i /\ queue[c] = CancelTimer(m)

\* The callback of n may still run, and nothing is on its way to cancel it.
Awaited(n) ==
  \/ Kept(n) /\ ~Behind(0, Mark(n))
  \/ \E i \in DOMAIN queue : queue[i] = AddTimer(n) /\ ~Behind(i, Mark(n))

Running(m) == \E n \in DOMAIN tasks : Mark(n) = m /\ Awaited(n)

----------------------------------------------------------------------------
(* The connections *)

\* A callback schedules f for a mark, after d and, if it is a repeating one,
\* every i.  What one of process_timers schedules is left to the next poll,
\* before which no message is taken.
Schedule(t, m, d, i) ==
  LET n == Len(tasks) + 1
  IN  /\ phase # "timers"
      /\ conn[t] # 0
      /\ n <= MaxTasks /\ clock <= MaxClock
      /\ tasks' = Append(tasks, [mark |-> m, token |-> t, stream |-> conn[t],
                                 delay |-> d, interval |-> i])
      /\ queue' = Append(queue, AddTimer(n))
      /\ misused' = misused \cup (IF Running(m) THEN {m} ELSE {})
      /\ strays' = strays \cup (IF conn[t] \in closed THEN {n} ELSE {})
      /\ UNCHANGED <<connVars, cancels, stops, phase, clock, wheel, mapVars, histVars>>

IntervalsOf(m) == IF m \in Repeating THEN Intervals ELSE {0}

ScheduleCancel(m) ==
  /\ phase # "timers"
  /\ \E t \in Tokens : conn[t] # 0
  /\ cancels < MaxCancels
  /\ cancels' = cancels + 1
  /\ queue' = Append(queue, CancelTimer(m))
  /\ UNCHANGED <<connVars, tasks, misused, strays, stops, phase, clock, wheel, mapVars, histVars>>

\* handle_read meets the end of the stream: on_close, whose calls are the steps
\* Schedule and ScheduleCancel before this one, and then Removed.
StreamEnds(t) ==
  /\ phase = "io" /\ conn[t] # 0 /\ conn[t] \notin closed
  /\ closed' = closed \cup {conn[t]}
  /\ strays' = strays \cup {n \in DOMAIN tasks : tasks[n].stream = conn[t] /\ Awaited(n)}
  /\ queue' = Append(queue, Removed(t))
  /\ UNCHANGED <<conn, streams, tasks, cancels, misused, stops, phase, clock, wheel, mapVars, histVars>>

----------------------------------------------------------------------------
(* The loop: poll and drain *)

\* Time passes in the poll: after MaxClock, only up to the next timer.
Tick ==
  /\ phase = "io"
  /\ \/ clock < MaxClock
     \/ DOMAIN wheel # {} /\ \A h \in DOMAIN wheel : wheel[h].due > clock
  /\ clock' = clock + 1
  /\ UNCHANGED <<connVars, userVars, queue, stops, phase, wheel, mapVars, histVars>>

EventsDone ==
  /\ phase = "io"
  /\ phase' = "drain"
  /\ UNCHANGED <<connVars, userVars, queue, stops, clock, wheel, mapVars, histVars>>

\* Another thread's Established is next; a token is used again at once.
HandleEstablished(t) ==
  /\ phase = "drain" /\ conn[t] = 0 /\ streams < MaxStreams
  /\ streams' = streams + 1
  /\ conn' = [conn EXCEPT ![t] = streams + 1]
  /\ UNCHANGED <<closed, userVars, queue, stops, phase, clock, wheel, mapVars, histVars>>

\* Another thread's Stop is next, and the drain breaks off.
HandleStop ==
  /\ phase = "drain" /\ stops < MaxStops
  /\ stops' = stops + 1
  /\ phase' = "timers"
  /\ UNCHANGED <<connVars, userVars, queue, clock, wheel, mapVars, histVars>>

Takes(kind) ==
  /\ phase = "drain" /\ queue # <<>> /\ Head(queue).kind = kind
  /\ queue' = Tail(queue)
  /\ UNCHANGED <<streams, closed, userVars, stops, phase, clock, ran>>

HandleRemoved ==
  /\ Takes("removed")
  /\ conn' = [conn EXCEPT ![Head(queue).token] = 0]
  /\ UNCHANGED <<wheel, mapVars, revoked>>

NeverFull == FALSE

\* Timer::insert fails.
Full == Cardinality(DOMAIN wheel) = Capacity

\* AddTimer and AddTimer2: that the wheel is full is only logged.
HandleAddTimer ==
  /\ Takes("add")
  /\ LET n == Head(queue).task
         due == clock + tasks[n].delay
         entry == [handle |-> n, task |-> n]
     IN  \/ /\ ~Full
            /\ wheel' = Put(wheel, n, [task |-> n, due |-> due, repeats |-> tasks[n].interval > 0])
            /\ \/ Mark(n) \notin Repeating /\ timers' = Put(timers, Mark(n), entry) /\ UNCHANGED timers2
               \/ Mark(n) \in Repeating /\ timers2' = Put(timers2, Mark(n), entry) /\ UNCHANGED timers
         \/ Full /\ UNCHANGED <<wheel, mapVars>>
  /\ UNCHANGED <<conn, revoked>>

\* What is cancelled by a CancelTimer for m, whether it still ran or not.
Revoked(m) == {n \in DOMAIN tasks : Mark(n) = m /\ \A i \in DOMAIN queue : queue[i] # AddTimer(n)}

CancelForgetsWheel ==
  /\ Takes("cancel")
  /\ timers' = Without(timers, Head(queue).mark)
  /\ timers2' = Without(timers2, Head(queue).mark)
  /\ revoked' = revoked \cup Revoked(Head(queue).mark)
  /\ UNCHANGED <<conn, wheel>>

CancelForgetsMap ==
  /\ Takes("cancel")
  /\ LET m == Head(queue).mark
     IN  /\ wheel' = IF m \in DOMAIN timers THEN Without(wheel, timers[m].handle) ELSE wheel
         /\ revoked' = revoked \cup Revoked(m)
  /\ UNCHANGED <<conn, mapVars>>

CancelDoesNothing ==
  /\ Takes("cancel")
  /\ revoked' = revoked \cup Revoked(Head(queue).mark)
  /\ UNCHANGED <<conn, wheel, mapVars>>

HandleCancelTimer ==
  /\ Takes("cancel")
  /\ LET m == Head(queue).mark
     IN  /\ \/ /\ m \in DOMAIN timers
               /\ timers' = Without(timers, m) /\ UNCHANGED timers2
               /\ wheel' = Without(wheel, timers[m].handle)
            \/ /\ m \notin DOMAIN timers /\ m \in DOMAIN timers2
               /\ timers2' = Without(timers2, m) /\ UNCHANGED timers
               /\ wheel' = Without(wheel, timers2[m].handle)
            \/ /\ m \notin DOMAIN timers \cup DOMAIN timers2
               /\ UNCHANGED <<wheel, mapVars>>
         /\ revoked' = revoked \cup Revoked(m)
  /\ UNCHANGED conn

DrainEmpty ==
  /\ phase = "drain" /\ queue = <<>>
  /\ phase' = "timers"
  /\ UNCHANGED <<connVars, userVars, queue, stops, clock, wheel, mapVars, histVars>>

----------------------------------------------------------------------------
(* The loop: process_timers *)

DueTooEarly(h) ==
  /\ phase = "timers"
  /\ h \in DOMAIN wheel /\ wheel[h].due <= clock + 1
  /\ \A g \in DOMAIN wheel : wheel[h].due <= wheel[g].due

\* tick_to returns h next: of what is due, the ticks are in order.
Due(h) ==
  /\ phase = "timers"
  /\ h \in DOMAIN wheel /\ wheel[h].due <= clock
  /\ \A g \in DOMAIN wheel : wheel[h].due <= wheel[g].due

\* The entries of a map that a firing of h finds.
Found(map, h) == {map[m] : m \in {Mark(wheel[h].task)} \cap DOMAIN map}

\* Those of them whose connection, or who else has its token now, is there.
Runs(map, h) == {e \in Found(map, h) : conn[tasks[e.task].token] # 0}

Run(map, h) == ran' = ran \cup {e.task : e \in Runs(map, h)}

\* handle_timeout of a one-shot timer takes the callback out of timers.
FireOnce(h) ==
  /\ Due(h) /\ ~wheel[h].repeats
  /\ wheel' = Without(wheel, h)
  /\ timers' = Without(timers, Mark(wheel[h].task)) /\ UNCHANGED timers2
  /\ Run(timers, h)
  /\ UNCHANGED <<connVars, userVars, queue, stops, phase, clock, revoked>>

\* A repeating one is armed again, as a one-shot timer; refresh_timeout looks
\* for its mark in timers; the callback stays in timers2.
FireRepeating(h) ==
  /\ Due(h) /\ wheel[h].repeats
  /\ LET n == wheel[h].task
         again == [task |-> n, due |-> clock + tasks[n].interval, repeats |-> FALSE]
     IN  /\ wheel' = Put(Without(wheel, h), Rearmed(n), again)
         /\ timers' = [m \in DOMAIN timers |->
                         IF m = Mark(n) THEN [timers[m] EXCEPT !.handle = Rearmed(n)] ELSE timers[m]]
  /\ Run(timers2, h)
  /\ UNCHANGED <<connVars, userVars, queue, stops, phase, clock, timers2, revoked>>

TimersDone ==
  /\ phase = "timers" /\ \A h \in DOMAIN wheel : wheel[h].due > clock
  /\ phase' = "io"
  /\ UNCHANGED <<connVars, userVars, queue, stops, clock, wheel, mapVars, histVars>>

----------------------------------------------------------------------------
Init ==
  /\ conn = [t \in Tokens |-> 0] /\ streams = 0 /\ closed = {}
  /\ tasks = <<>> /\ cancels = 0 /\ misused = {} /\ strays = {}
  /\ queue = <<>> /\ stops = 0
  /\ phase = "io" /\ clock = 0
  /\ wheel = <<>> /\ timers = <<>> /\ timers2 = <<>>
  /\ ran = {} /\ revoked = {}

UserStep ==
  \/ \E t \in Tokens, m \in Marks, d \in Delays : \E i \in IntervalsOf(m) : Schedule(t, m, d, i)
  \/ \E m \in Marks : ScheduleCancel(m)
  \/ \E t \in Tokens : StreamEnds(t)
  \/ \E t \in Tokens : HandleEstablished(t)
  \/ HandleStop

LoopStep ==
  \/ EventsDone
  \/ HandleRemoved
  \/ HandleAddTimer
  \/ HandleCancelTimer
  \/ DrainEmpty
  \/ \E h \in DOMAIN wheel : FireOnce(h) \/ FireRepeating(h)
  \/ TimersDone

Next == UserStep \/ Tick \/ LoopStep

Spec == Init /\ [][Next]_vars

\* The loop runs, and time passes while it polls.
FairSpec == Spec /\ WF_vars(LoopStep) /\ SF_vars(Tick)

----------------------------------------------------------------------------
(* Properties *)

Task == [mark : Marks, token : Tokens, stream : 1 .. MaxStreams,
         delay : Delays, interval : Intervals \cup {0}]

TypeOK ==
  /\ conn \in [Tokens -> 0 .. streams] /\ streams \in 0 .. MaxStreams
  /\ closed \subseteq 1 .. streams
  /\ tasks \in Seq(Task) /\ Len(tasks) <= MaxTasks /\ cancels \in 0 .. MaxCancels
  /\ \A n \in DOMAIN tasks : tasks[n].interval > 0 => Mark(n) \in Repeating
  /\ misused \subseteq Marks
  /\ queue \in Seq([kind : {"add"}, task : DOMAIN tasks] \cup [kind : {"cancel"}, mark : Marks]
                    \cup [kind : {"removed"}, token : Tokens])
  /\ stops \in 0 .. MaxStops /\ phase \in {"io", "drain", "timers"} /\ clock \in Nat
  /\ Cardinality(DOMAIN wheel) <= Capacity
  /\ \A h \in DOMAIN wheel :
       /\ wheel[h] \in [task : DOMAIN tasks, due : Nat, repeats : BOOLEAN]
       /\ h \in {wheel[h].task, Rearmed(wheel[h].task)}
  /\ DOMAIN timers \subseteq Marks /\ DOMAIN timers2 \subseteq Repeating
  /\ \A m \in DOMAIN timers : timers[m] \in [handle : Nat, task : DOMAIN tasks]
  /\ \A m \in DOMAIN timers2 : timers2[m] \in [handle : Nat, task : DOMAIN tasks]
  /\ ran \cup revoked \cup strays \subseteq DOMAIN tasks

\* The handle kept with a one-shot callback is that of an armed timer for its
\* task, so a cancel always finds what it is for; and every armed one-shot timer
\* has such a callback, so no slot of the wheel is taken for nothing, unless its
\* mark has been used again too early: then AddTimer has replaced the callback
\* of a timer that stays armed (timers and the wheel, AddTimer and CancelTimer).
MapAgreesWithWheel ==
  /\ \A m \in DOMAIN timers :
       /\ timers[m].handle \in DOMAIN wheel
       /\ wheel[timers[m].handle].task = timers[m].task
       /\ Mark(timers[m].task) = m
  /\ \A h \in DOMAIN wheel :
       Mark(wheel[h].task) \notin Repeating \cup misused =>
         /\ Mark(wheel[h].task) \in DOMAIN timers
         /\ timers[Mark(wheel[h].task)].handle = h

Callbacks(h) == Runs(IF wheel[h].repeats THEN timers2 ELSE timers, h)

\* A callback never runs after a CancelTimer for its mark has been handled, and
\* one of schedule_after runs once at most.  Unless its mark has been used again
\* too early, each runs when the timer of its own task is due, and once at most.
RunsItsTask ==
  [][\A h \in DOMAIN wheel : FireOnce(h) \/ FireRepeating(h) =>
       \A e \in Callbacks(h) :
         /\ e.task \notin revoked
         /\ e.task \in ran => wheel[h].repeats
         /\ Mark(e.task) \notin misused => e.task = wheel[h].task /\ e.task \notin ran]_vars

\* A callback that on_close has cancelled, if it was still to run, and that was
\* not scheduled afterwards, runs on the connection that scheduled it and not
\* on a later one with its token; handle_timeout finds it by the token alone
\* ("one timeout token == (one conn + one timer)").
RunsOnItsConnection ==
  [][\A h \in DOMAIN wheel : FireOnce(h) \/ FireRepeating(h) =>
       \A e \in Callbacks(h) : e.task \notin strays => conn[tasks[e.task].token] = tasks[e.task].stream]_vars

\* Every one-shot callback that has been accepted is run, cancelled or dropped
\* with its connection.
EveryTaskResolves == \A m \in Marks \ Repeating : m \in DOMAIN timers ~> m \notin DOMAIN timers

\* The tick that task n is to run in, as far as the wheel goes: 0 is none.
DueTick == [n \in 1 .. MaxTasks |->
              IF n \in DOMAIN wheel THEN wheel[n].due
              ELSE IF Rearmed(n) \in DOMAIN wheel THEN wheel[Rearmed(n)].due
              ELSE 0]

\* The wheel has served the ticks before t, and has nothing to do until it.
Serving(t) ==
  /\ t \in 0 .. clock
  /\ \A h \in DOMAIN wheel : wheel[h].due >= t
  /\ t = clock \/ \E h \in DOMAIN wheel : wheel[h].due = t

ServedTick == CHOOSE t \in 0 .. clock : Serving(t)

Service ==
  INSTANCE TimerService WITH
    Marks <- 1 .. MaxTasks, Idle <- 0, due <- DueTick, tick <- ServedTick

\* What the Dispatcher does with the wheel, and process_timers with the timers
\* that repeat, is what a user of the timer service may do: a task has one timer
\* at most, it is for a tick to come, it is fired in that tick, and no tick is
\* left while one waits for it.
UsesService ==
  /\ Service!CoarseSpec
  /\ [][\A h \in DOMAIN wheel :
          /\ FireOnce(h) => Service!Fire(wheel[h].task)
          /\ FireRepeating(h) => Service!Again(wheel[h].task)]_vars

\* "update timeout (repeat task)" (process_timers): a repeating task that is
\* kept has a timer that repeats, and its entry has the handle of it.
RepeatStaysArmed ==
  phase = "io" => \A m \in DOMAIN timers2 :
    timers2[m].handle \in DOMAIN wheel /\ wheel[timers2[m].handle].repeats

=============================================================================
