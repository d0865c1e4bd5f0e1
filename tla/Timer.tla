------------------------------- MODULE Timer -------------------------------
(***************************************************************************)
(* The hashed timer wheel (src/timer.rs) and the part of EventLoop::step    *)
(* that drives it (src/event_loop.rs): ask how long to sleep, poll, run     *)
(* handlers that arm and cancel timers, then tick up to the present.        *)
(*                                                                          *)
(* `wheel' maps a slot to the head of a doubly linked list of slab entries; *)
(* `next' is the cursor of tick_to in the list of the current tick.  Times  *)
(* are milliseconds since start_ms, and the clock does not go backwards.    *)
(***************************************************************************)
EXTENDS Integers, FiniteSets

CONSTANTS
  TickMs,      \* length of a tick
  Slots,       \* slots of the wheel (a power of two in the code)
  Cap,         \* capacity of the slab of entries
  Marks,       \* the tokens timers are armed with
  Intervals,   \* repeat intervals of schedule_every, 0 for a one-shot timer
  PollMs,      \* the configured poll timeout
  MaxMs,       \* bound of the model: the clock stops here
  Empty,       \* EMPTY, the null key
  Vacant,      \* an unused slab slot
  None         \* no Timeout handle is kept / no timer is being handled

ASSUME WheelAssumption == TickMs \in Nat \ {0} /\ Slots \in Nat \ {0} /\ Cap \in Nat \ {0}

ASSUME TimeAssumption == Intervals \subseteq Nat /\ PollMs \in Nat /\ MaxMs \in Nat

Keys == 0 .. Cap - 1

Link == Keys \cup {Empty}

\* `due' is history: the tick in which the timer is to fire, see Due.
Entry == [mark : Marks, interval : Intervals \cup {0}, tick : Nat, due : Nat,
          prev : Link, next : Link]

Timeout == [key : Keys, tick : Nat]

Fired == [mark : Marks, interval : Intervals \cup {0}]

ASSUME NullAssumption == Empty \notin Keys /\ Vacant \notin Entry
                         /\ None \notin Timeout /\ None \notin Fired /\ None \notin Nat

VARIABLES
  now,       \* the clock, now_ms() - start_ms
  tick,      \* Timer.tick
  next,      \* Timer.next
  wheel,     \* Timer.wheel
  entries,   \* Timer.entries
  held,      \* held[m]: the last Timeout the Handle kept for mark m
  phase,     \* where EventLoop::step is
  nowTick,   \* process_timers' snapshot of the clock, in ticks
  deadline,  \* when the current poll times out
  fired      \* the (token, interval) tick_to returned last

wheelVars == <<tick, next, wheel, entries>>
vars == <<now, tick, next, wheel, entries, held, phase, nowTick, deadline, fired>>

Live == {k \in Keys : entries[k] # Vacant}

HasTimer(m) == \E k \in Live : entries[k].mark = m

SlotFor(t) == t % Slots

----------------------------------------------------------------------------
(* The wheel *)

TwoTicksWhenLate(at) ==
  LET t == (at + TickMs - 1) \div TickMs
  IN  IF t < tick THEN t + 1 ELSE t

\* timeout_ms_at: round up to a tick, and one more if that tick is not after
\* the current one.
TickOf(at) ==
  LET t == (at + TickMs - 1) \div TickMs
  IN  IF t <= tick THEN t + 1 ELSE t

\* The tick in which an entry for tick t is met if it is inserted now: t itself,
\* or, if t is not to come any more, the next tick that shares its slot.
Due(t) == IF t > tick THEN t ELSE (tick + 1) + ((t - tick - 1) % Slots)

\* An entry that was inserted too late for its tick: its request was not for
\* the future.
Late(e) == e.due # e.tick

HeadKeepsPrev(key, m, t, interval) ==
  LET curr == wheel[SlotFor(t)]
  IN  /\ entries' = [entries EXCEPT ![key] =
                       [mark |-> m, interval |-> interval, tick |-> t, due |-> Due(t),
                        prev |-> Empty, next |-> curr]]
      /\ wheel' = [wheel EXCEPT ![SlotFor(t)] = key]
      /\ UNCHANGED <<tick, next>>

\* Timer::insert: a new entry becomes the head of its slot.  The cursor is
\* left where it is.
Insert(key, m, t, interval) ==
  LET curr == wheel[SlotFor(t)]
  IN  /\ entries' = [k \in Keys |->
                       IF k = key
                         THEN [mark |-> m, interval |-> interval, tick |-> t,
                               due |-> Due(t), prev |-> Empty, next |-> curr]
                       ELSE IF k = curr
                         THEN [entries[k] EXCEPT !.prev = key]
                       ELSE entries[k]]
      /\ wheel' = [wheel EXCEPT ![SlotFor(t)] = key]
      /\ UNCHANGED <<tick, next>>

CursorDropped(key) ==
  LET link == entries[key]
  IN  /\ wheel' = IF link.prev = Empty
                    THEN [wheel EXCEPT ![SlotFor(link.tick)] = link.next]
                    ELSE wheel
      /\ entries' = [k \in Keys |->
                       IF k = key THEN Vacant
                       ELSE IF k = link.prev THEN [entries[k] EXCEPT !.next = link.next]
                       ELSE IF k = link.next THEN [entries[k] EXCEPT !.prev = link.prev]
                       ELSE entries[k]]
      /\ next' = IF key = next THEN Empty ELSE next
      /\ UNCHANGED tick

\* Slab::remove and Timer::unlink: the neighbours close up, and the cursor
\* moves on if it stood on this entry.
Remove(key) ==
  LET link == entries[key]
  IN  /\ wheel' = IF link.prev = Empty
                    THEN [wheel EXCEPT ![SlotFor(link.tick)] = link.next]
                    ELSE wheel
      /\ entries' = [k \in Keys |->
                       IF k = key THEN Vacant
                       ELSE IF k = link.prev THEN [entries[k] EXCEPT !.next = link.next]
                       ELSE IF k = link.next THEN [entries[k] EXCEPT !.prev = link.prev]
                       ELSE entries[k]]
      /\ next' = IF key = next THEN link.next ELSE next
      /\ UNCHANGED tick

----------------------------------------------------------------------------
(* The environment: real time passes whatever the loop is doing. *)

Advance ==
  /\ now < MaxMs
  /\ now' = now + 1
  /\ UNCHANGED <<wheelVars, held, phase, nowTick, deadline, fired>>

----------------------------------------------------------------------------
(* Handlers of I/O events and messages, and timer callbacks *)

InHandler == phase \in {"handlers", "callback"}

\* schedule_at, for an instant that may be past; schedule_after and, with an
\* interval, schedule_every, for now or later.  The slab hands out any unused
\* key.  A full slab is refused with TimerError::overflow.
TimeoutMsAt(m, at, interval) ==
  /\ InHandler
  /\ ~HasTimer(m)
  /\ interval > 0 => at >= now
  /\ \E key \in Keys \ Live :
       LET t == TickOf(at)
       IN  /\ Insert(key, m, t, interval)
           /\ held' = [held EXCEPT ![m] = [key |-> key, tick |-> t]]
  /\ UNCHANGED <<now, phase, nowTick, deadline, fired>>

ClearKeepsHandle(m) ==
  /\ InHandler
  /\ held[m] # None
  /\ IF held[m].key \in Live /\ entries[held[m].key].tick = held[m].tick
       THEN Remove(held[m].key)
       ELSE UNCHANGED wheelVars
  /\ UNCHANGED <<now, held, phase, nowTick, deadline, fired>>

\* Timer::clear with the handle kept for m, which the call consumes.  The
\* tick of the handle is compared with the entry's, because the entry may be
\* gone and its key in use again.
Clear(m) ==
  /\ InHandler
  /\ held[m] # None
  /\ IF held[m].key \in Live /\ entries[held[m].key].tick = held[m].tick
       THEN Remove(held[m].key)
       ELSE UNCHANGED wheelVars
  /\ held' = [held EXCEPT ![m] = None]
  /\ UNCHANGED <<now, phase, nowTick, deadline, fired>>

----------------------------------------------------------------------------
(* EventLoop::step *)

Least(a, b) == IF a <= b THEN a ELSE b

SleepIgnoresTimers == PollMs

NextTickTooFar ==
  IF Live = {} THEN PollMs
  ELSE LET at == (tick + 2) * TickMs IN IF at <= now THEN 0 ELSE at - now

\* next_tick_in_ms, with the poll timeout for None.  `tick' has already been
\* advanced past the tick that was served last.
NextTickInMs ==
  IF Live = {} THEN PollMs
  ELSE LET at == (tick + 1) * TickMs IN IF at <= now THEN 0 ELSE at - now

\* The wait is zero when messages are queued.
EnterPoll(pending) ==
  /\ phase = "ready"
  /\ phase' = "poll"
  /\ deadline' = now + IF pending THEN 0 ELSE Least(PollMs, NextTickInMs)
  /\ UNCHANGED <<now, wheelVars, held, nowTick, fired>>

ReturnFromPoll ==
  /\ phase = "poll"
  /\ phase' = "handlers"
  /\ deadline' = 0
  /\ UNCHANGED <<now, wheelVars, held, nowTick, fired>>

PollTimesOut == now >= deadline /\ ReturnFromPoll

\* An I/O event or the waker ends the wait early.
PollWakes == now < deadline /\ ReturnFromPoll

OneTickShort ==
  /\ phase = "handlers"
  /\ phase' = "ticking"
  /\ nowTick' = (now \div TickMs) - 1
  /\ UNCHANGED <<now, wheelVars, held, deadline, fired>>

BeginProcess ==
  /\ phase = "handlers"
  /\ phase' = "ticking"
  /\ nowTick' = now \div TickMs
  /\ UNCHANGED <<now, wheelVars, held, deadline, fired>>

\* tick_to, its three branches.
TickAdvance ==
  /\ phase = "ticking" /\ tick <= nowTick
  /\ next = Empty
  /\ tick' = tick + 1
  /\ next' = wheel[SlotFor(tick + 1)]
  /\ UNCHANGED <<now, wheel, entries, held, phase, nowTick, deadline, fired>>

TickSkip ==
  /\ phase = "ticking" /\ tick <= nowTick
  /\ next # Empty
  /\ entries[next].tick > tick
  /\ next' = entries[next].next
  /\ UNCHANGED <<now, tick, wheel, entries, held, phase, nowTick, deadline, fired>>

TickFire ==
  /\ phase = "ticking" /\ tick <= nowTick
  /\ next # Empty
  /\ entries[next].tick <= tick
  /\ Remove(next)
  /\ fired' = [mark |-> entries[next].mark, interval |-> entries[next].interval]
  /\ phase' = IF entries[next].interval > 0 THEN "rearm" ELSE "callback"
  /\ UNCHANGED <<now, held, nowTick, deadline>>

TickDone ==
  /\ phase = "ticking" /\ tick > nowTick
  /\ phase' = "ready"
  /\ nowTick' = 0
  /\ UNCHANGED <<now, wheelVars, held, deadline, fired>>

\* process_timers arms a repeating timer again through schedule_after, whose
\* interval is 0; refresh_timeout may or may not keep the new Timeout.
Rearm ==
  /\ phase = "rearm"
  /\ \E key \in Keys \ Live :
       LET t == TickOf(now + fired.interval)
       IN  /\ Insert(key, fired.mark, t, 0)
           /\ held' \in {held, [held EXCEPT ![fired.mark] = [key |-> key, tick |-> t]]}
  /\ phase' = "callback"
  /\ UNCHANGED <<now, nowTick, deadline, fired>>

EndCallback ==
  /\ phase = "callback"
  /\ phase' = "ticking"
  /\ fired' = None
  /\ UNCHANGED <<now, wheelVars, held, nowTick, deadline>>

----------------------------------------------------------------------------
Init ==
  /\ now = 0
  /\ tick = 0
  /\ next = Empty
  /\ wheel = [s \in 0 .. Slots - 1 |-> Empty]
  /\ entries = [k \in Keys |-> Vacant]
  /\ held = [m \in Marks |-> None]
  /\ phase = "ready"
  /\ nowTick = 0
  /\ deadline = 0
  /\ fired = None

UserStep ==
  \E m \in Marks :
    \/ \E at \in 0 .. MaxMs, interval \in Intervals : TimeoutMsAt(m, at, interval)
    \/ Clear(m)

LoopStep ==
  \/ \E pending \in BOOLEAN : EnterPoll(pending)
  \/ PollTimesOut
  \/ BeginProcess
  \/ TickAdvance
  \/ TickSkip
  \/ TickFire
  \/ TickDone
  \/ Rearm
  \/ EndCallback

Next == Advance \/ UserStep \/ PollWakes \/ LoopStep

Spec == Init /\ [][Next]_vars

\* Time passes, handlers return, and a poll ends by its timeout.  Nothing
\* promises that an event ends it earlier.
FairSpec == Spec /\ WF_vars(Advance) /\ WF_vars(LoopStep)

----------------------------------------------------------------------------
(* Properties *)

TypeOK ==
  /\ now \in Nat /\ tick \in Nat /\ nowTick \in Nat /\ deadline \in Nat
  /\ next \in Link
  /\ wheel \in [0 .. Slots - 1 -> Link]
  /\ entries \in [Keys -> Entry \cup {Vacant}]
  /\ held \in [Marks -> Timeout \cup {None}]
  /\ phase \in {"ready", "poll", "handlers", "ticking", "rearm", "callback"}
  /\ fired \in Fired \cup {None}

\* What the slab indexing in insert, unlink and tick_to relies on: the cursor
\* and every head, prev and next name a live entry of the same slot, and prev
\* and next are each other's inverse.
LinksSound ==
  /\ \A s \in 0 .. Slots - 1 :
       wheel[s] # Empty => /\ wheel[s] \in Live
                           /\ SlotFor(entries[wheel[s]].tick) = s
                           /\ entries[wheel[s]].prev = Empty
  /\ \A k \in Live :
       LET e == entries[k]
       IN  /\ e.prev = Empty => wheel[SlotFor(e.tick)] = k
           /\ e.prev # Empty => e.prev \in Live /\ entries[e.prev].next = k
           /\ e.next # Empty => /\ e.next \in Live
                                /\ entries[e.next].prev = k
                                /\ SlotFor(entries[e.next].tick) = SlotFor(e.tick)
  /\ next # Empty => next \in Live /\ SlotFor(entries[next].tick) = SlotFor(tick)

\* The order of each slot's list, seen from outside: a strict total order of
\* the live entries in which a list visits all the entries of its slot, none
\* skipped, newest first.
ListsInOrder(before) ==
  /\ \A j, k \in Live : j # k => (<<j, k>> \in before \/ <<k, j>> \in before)
  /\ \A j, k \in Live : ~(<<j, k>> \in before /\ <<k, j>> \in before)
  /\ \A i, j, k \in Live : <<i, j>> \in before /\ <<j, k>> \in before => <<i, k>> \in before
  /\ \A k \in Live :
       LET h == wheel[SlotFor(entries[k].tick)]
       IN  h # Empty /\ (h = k \/ <<h, k>> \in before)
  /\ \A j, k \in Live :
       SlotFor(entries[j].tick) = SlotFor(entries[k].tick) /\ <<j, k>> \in before
         => LET n == entries[j].next IN n # Empty /\ (n = k \/ <<n, k>> \in before)
  /\ \A j \in Live : entries[j].next # Empty => <<j, entries[j].next>> \in before

\* The cursor stands on k or will come to it in the current tick.
Reaches(before, k) ==
  /\ next # Empty
  /\ SlotFor(entries[k].tick) = SlotFor(tick)
  /\ next = k \/ <<next, k>> \in before

\* An entry is due in a tick to come, or in the current one and the cursor has
\* not passed it; and the cursor meets none that it would fire too early.
NoneBehind(before) ==
  \A k \in Live :
    /\ entries[k].due >= tick
    /\ entries[k].due = tick => Reaches(before, k)
    /\ entries[k].tick <= tick /\ Reaches(before, k) => entries[k].due = tick

\* The cursor reaches every entry in the tick in which it is due, and no earlier
\* (tick_to's claim, that each timer is found when its tick comes, although the
\* lists are edited by callbacks while the cursor walks them).  A timer that
\* was requested for the past has to wait until its slot comes round.
CursorReachesAllDue ==
  \E before \in SUBSET (Keys \X Keys) : ListsInOrder(before) /\ NoneBehind(before)

\* A Timeout that outlived its timer never matches another timer's entry, so
\* that a late cancel removes nothing (the "sanity check" of clear); unless that
\* entry was inserted late, whose tick may have been a served timer's before.
StaleHandleIsHarmless ==
  \A m \in Marks :
    held[m] # None /\ held[m].key \in Live /\ entries[held[m].key].tick = held[m].tick
      => entries[held[m].key].mark = m \/ Late(entries[held[m].key])

\* The poll never sleeps more than a tick beyond the start of the tick in
\* which an armed timer is due (next_tick_in_ms bounds the wait).
SleepIsBounded ==
  phase = "poll" =>
    \A k \in Live : \/ deadline <= (entries[k].due + 1) * TickMs
                    \/ deadline <= now

\* A timer that is armed is fired, unless it is cancelled, if the tick in which
\* it is due ends before the clock of the model stops.
EveryTimerResolves ==
  \A k \in Keys, t \in 0 .. (MaxMs \div TickMs) - 1 :
    (k \in Live /\ entries[k].due = t) ~> ~(k \in Live /\ entries[k].due = t)

Armed(m) == CHOOSE k \in Live : entries[k].mark = m

\* The wheel implements the timer service: every timer fires once, in the tick
\* in which it is due, and no tick is left with a timer unserved; and what
\* tick_to fires is fired by the service, not taken back.  The tick in which a
\* request for the future is due begins at its instant or later, but less than
\* two ticks later (timeout_ms_at rounds up, and advances by one).
Service ==
  INSTANCE TimerService WITH
    Idle <- None,
    due <- [m \in Marks |-> IF HasTimer(m) THEN entries[Armed(m)].due ELSE None]

ArmsInTime(m, at, interval) ==
  TimeoutMsAt(m, at, interval) /\ at > now =>
    LET begins == TickMs * entries'[held'[m].key].due
    IN  at <= begins /\ begins < at + 2 * TickMs

ImplementsService ==
  /\ Service!Spec
  /\ [][TickFire => Service!Fire(entries[next].mark)]_vars
  /\ [][\A m \in Marks, at \in 0 .. MaxMs, interval \in Intervals : ArmsInTime(m, at, interval)]_vars

=============================================================================
