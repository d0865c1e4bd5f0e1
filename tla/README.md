# ruduo: models and proofs

TLA+ models of `ruduo` (`src/src/`), an event-loop TCP library on top of `mio`, with the TLC
configurations that check them on small instances and TLAPS proofs about all of their components.
Every definition is translated from the source; `PROJECT.json` names the lines of each (`map`), the
plausible bug that each property catches (`mutants`), and the places where the code is hard to test
(`hazards`).

    tlc -workers 2 -config MCTimer.cfg MCTimer        # a run
    tlapm TimerProofs.tla                             # a proof

Reading order: `TimerService`, `Timer`, `EventLoop`, `ByteQueue`, `Buffer`, `BytePipe`,
`Connection`, `StreamTable`, `Dispatcher`, `TimerTasks`; then the proof modules.

## 1. The system

A program has one *acceptor* loop and a pool of loops, each in a thread of its own. A loop
(`EventLoop::step`) polls the selector, handles I/O events, drains its message channel, and
processes timers, in this order, for ever. Threads talk to a loop only through a `Notifier`: a
channel sender plus a waker that ends the poll.

| component | state | operations | talks to |
|---|---|---|---|
| timer wheel, `timer.rs` | slots with doubly linked lists in a slab, current tick, cursor | arm, cancel, tick up to a time, time to the next tick | called by the loop; callbacks call it back |
| event loop, `event_loop.rs` | channel, waker, `running`, wheel | step, run, schedule, cancel, shutdown; notify, wake, dead_letter of its notifiers | calls its `Handle` |
| loop thread and pool, `event_loop_thread_pool.rs` | join handle, notifier; list of threads, round-robin counter | spawn, drop (dead letter, join); start, next_loop | owns loops |
| dispatcher, `tcp_server.rs` | slab of connections, timer maps, pending connects, shared table | the `Handle` of a pool loop: add, remove, I/O events, messages, timeouts, stop | connections, its own notifier, the shared table |
| server and shared table, `tcp_server.rs` | listener; map from token to loop, behind a mutex | start, shutdown | pool, every dispatcher |
| accept loop, `service.rs` | none of its own | accept and hand over; letter on an error | server, pool |
| connection, `tcp_connection.rs` | stream, interests, input and output buffer | enable, disable, send, read, write, shut down | selector, socket, its loop's channel |
| buffer, `buffer.rs` | vector, two indices | append, prepend, retrieve, peek | used by connections |
| connector, `connector.rs` | pool | start, connect | posts `Connecting` to a loop of its pool, whose dispatcher finishes the connect |
| logger, `channel.rs`, examples | | | |

`acceptor.rs` and `ex/` are not compiled. `examples/chat.rs` and `examples/tunnel.rs` show how the
traits are meant to be implemented and which messages other threads send.

What is hard here, and what makes each part correct:

* **Wheel.** Callbacks edit the list that `tick_to` is walking; slab keys are used again while old
  handles exist; time goes on during all of it. Correct: no list or cursor dangles, every timer
  fires once, in its tick or, if it was requested for the past, when its slot comes round; a late
  cancel hits nothing; the poll does not oversleep.
* **Loop.** Two steps to send (channel, waker) against two steps to go to sleep (look at the
  channel, poll); `Stop` breaks off the drain; the loop ends by a handler, by `Stop`, or because all
  senders are gone. Correct: no lost wakeup, what precedes the first `Stop` is handled, the join
  returns.
* **Connection.** An edge-triggered selector, a registration that must agree with the connection's
  own idea of it, partial writes, and messages that are queued behind what they depend on. Correct:
  bytes in order, no lost edge, output and input make progress.
* **Buffer.** Three cases of making room, one of which moves the content over itself.
* **Dispatcher.** Tokens and slab keys are used again at once; several loops share a table under a
  mutex that a panic poisons. Correct: the table follows the slabs, a message about a removed
  connection does no harm, and a loop that ends does not take others with it.
* **Connector.** A stream is handed over before it is connected; the loop learns of the peer from
  the message, from an event, or never. Correct: every stream is set up once, before it is used, and
  nothing of it is left for the next owner of its token.
* **Timed callbacks.** A callback is kept by mark in one of two maps, its timer by key in the wheel;
  marks, tokens and keys are used again, and cancels arrive late. Correct: maps and wheel agree, no
  callback runs after its cancel; and, as far as users do their part (marks are not used again too
  early, `on_close` cancels), one runs for its own timer, on its own connection, once.

## 2. Modules and code

**`Timer`** is `timer.rs` and the timer half of `step`. `wheel`, `entries`, `tick`, `next` are the
fields of `Timer`; `held` is the `Timeout` that a Handle keeps for a mark; `phase`, `nowTick`,
`deadline`, `fired` are the local variables of `step` and `process_timers`. One action per branch of
`tick_to` (`TickAdvance`, `TickSkip`, `TickFire`, `TickDone`), `Rearm` for the repeat branch,
`TimeoutMsAt` and `Clear` for what handlers and callbacks may call, the former for any instant,
past, present or future. A new entry may get any free slab key. The field `due` of an entry is
history: the tick in which it is to fire, which is its `tick` unless that is not to come any more
when it is inserted (`Late`); then it is the next tick that shares the slot (`Due`).
**`TimerService`** is its abstract specification: each mark has a due tick, fires exactly in it, and
the tick counter does not pass a waiting timer. A second, coarser specification in it (`CoarseSpec`)
is the same service for a client whose steps are whole handlers: a repeating timer is fired and
armed again at once, and the counter moves together with what is done, never past a timer that waits
(`NonePassed`).

**`EventLoop`** is `event_loop.rs` and the thread of `event_loop_thread_pool.rs`. `Send` and `Wake`
are the two halves of `notify`; `OwnerStops`, `OwnerWakes`, `OwnerJoins` are
`EventLoopThread::drop`; `Check` computes the poll timeout; `EventActs`, `HandleMessage`,
`TimerActs` are handlers of I/O events, messages and timers. Each of these may post to its own loop
(`Post`), send it a dead letter (`PostLetter`, as the accept loop does after an error) or call
`shutdown` (`ShutDown`); other threads than the owner may send dead letters too (`SendLetter`, as
`TcpServer::shutdown` does). The constants say what the Handle does: `StopEndsLoop` (its
`graceful_shutdown` calls `shutdown`) and `HandleKeepsNotifier` (it holds a notifier of its own
loop).

**`Connection`** is one established connection in its dispatcher's loop: poll, read, write, drain,
timers. **`BytePipe`** is the abstract specification of its writing side: bytes given, bytes taken
in the same order, and a note whenever all have been taken. Bytes that `send` is given are numbered,
so order and loss are visible. Socket, selector and peer are external: `reg` and `edge` model epoll
with `EPOLLET` (a registration reports what is ready; afterwards only changes are reported), `room`
is the socket's send buffer, `unread`, `fin`, `rst` what the peer did, `shut` the sides that this
end has shut down (`Shutdown` with Read, Write or Both). The constant `Requests` are the messages
that other threads send. A reset may fall between two writes of one `send` or `handle_write`; then
`output` gets what was written already once more (`tcp_connection.rs:139`), but `wire` does not. An
`expect` that fails ends the loop in phase `panicked` or `no peer`, and `spinning` is a loop of
`handle_write` that never ends.

**`Buffer`** is `buffer.rs`: the vector as a function from indices, `Grows` and `Compacts` the cases
of `ensure_writable`. The calls that return strings return `Lossy` of the bytes, a constant operator
for `from_utf8_lossy`. **`ByteQueue`** is its abstract specification, a byte string with two ends.

**`Dispatcher`** composes who hands streams over with several pool loops: round-robin hand-over,
slab with its stack of vacant keys, token offsets, shared table and its poisoning, removal, stop.
`role` is fixed in the initial state: the pool of a `TcpServer` (`Accept`, `DeadLetter`, `Shutdown`)
or of a `ConnectorService` (`Connect`, `PeerConnects`, `HandleConnecting`, `PendingReady`). So is
`asks`, whether `on_established` enables input. The address of a peer is `connected` (there),
`failed` (an error, for which `HandleConnecting` drops the stream, `DropsFailed`) or neither
(`NotConnected`). `remove_connection` unwraps it for a log line when the connection is out of slab
and table: the loop then may end in phase `no peer` (`LogsPeer`). Of each connection it keeps only
whether it waits for input (`reading`) and is registered (`registered`). **`StreamTable`** is its
abstract specification: one table of tokens for all loops, in which a stream is opened once, set up
once, and closed after that.

**`TimerTasks`** is what lies between connections and the wheel: `schedule_after`, `schedule_every`
and `schedule_cancel` of `tcp_connection.rs`, the messages they post, the maps `timers` and
`timers2` of the dispatcher with `handle_timeout` and `refresh_timeout`, and the removal of
connections. Each scheduled callback has a number, so a mark that is used again is told from its
earlier use. Nothing is assumed of the users: they schedule for any mark at any time, also after
`on_close`, and cancel what they like. Two histories say when they did what the dispatcher relies on
without ensuring it: `misused` are the marks that were used again while their callback was still to
run (its entry in the map is then replaced, its timer is not), `strays` the callbacks that
`on_close` has left behind or that were scheduled after it.

The modules meet at the loop. `Timer` and `EventLoop` are two views of `EventLoop::step`: in
`EventLoop` timers are events that end a poll and run handlers, in `Timer` messages are what makes
the poll return early. `Connection` and `Dispatcher` keep the phases of the loop, because their
properties depend on the order poll, events, drain, timers; they take from `EventLoop` that a queued
message is handled and leave the wheel out. `TimerTasks` takes the loop's phases from `EventLoop`
and the wheel from `TimerService`, and this is checked and proved, not assumed: `Timer` implements
the service (`ImplementsService`), `TimerTasks` uses it (`UsesService`), and section 5 says how the
two theorems meet.

### Abstractions to know about

* A handler is one step, except where another thread can see the middle of it: `notify`, going to
  sleep, drop of a loop thread, and two writes with a reset between them.
* User callbacks of `Connection`, and the closure of a `SetContext`, may send or call `shutdown`,
  and `on_write_complete` may disable `WRITABLE`, as that of `examples/chat.rs:172`. After a read
  error other than the end of the stream the connection stays, as in the code, and a later read
  meets the end.
* In `Dispatcher` a connect that fails or is refused is a stream that never connects: `peer_addr`
  answers `NotConnected` in both cases. It fails otherwise only for streams that are in `failed`. A
  pending stream gets its event when its peer sends or closes: whether the event of the connect
  itself calls the callback depends on the selector. A connector is not stopped (`ConnectorService`
  has no shutdown).
* In `TimerTasks` a mark stands for one-shot or for repeating tasks for good (`Repeating`). `Delays`
  are ticks until the wheel gets to what is scheduled, at least one: how late that is for a request
  of the past is `Timer`'s subject. An interval of 0 makes an `AddTimer2` that does not repeat and
  whose callback stays in `timers2`. `examples/chat.rs` is a user of both kinds: line 143 may use a
  mark again that is still running (`misused`), and its `on_close` at line 175 cancels nothing, so
  its mark `TimeoutQuit(token, 0)` fires for the next connection with that token (`strays`). Timer
  callbacks schedule nothing themselves; what they post is handled by the next drain, as if
  scheduled then. The clock ticks during polls only.
* In `Dispatcher` other threads send `Enable` only; `Disable`, `Write` and `Shutdown` are in
  `Connection`.
* A write error stays (a reset, an own shutdown); one that goes away after a short write is left
  out.
* Integers are unbounded: ticks, tokens and indices are 64-bit in the code and stay far below. The
  subtractions that could go below zero are either modelled as the code guards them or excluded by
  the assumptions that the clock does not go back and that no request is for a time before the wheel
  was made (`timer.rs:56`).
* Logging is left out, except that its argument `peer_addr().unwrap()` may panic (`HandleRemoved` of
  `Connection` and `Dispatcher`); whether it does depends on the level of the logger too.

## 3. Runs

Every property below has a mutant in `PROJECT.json`: a plausible bug in a mapped definition, under
which the same run finds the property violated.

| run | question | bounds, and why they are enough |
|---|---|---|
| `timer` | lists, cursor, stale handles, poll timeout | 3 timers in 2 slots: lists of three entries have a middle, and entries of different revolutions share a list; requests for every instant of 5 ms at 2 ms a tick, whether it is past, present or to come, so within a tick and beyond a revolution. Marks are symmetric |
| `timer_live` | refinement of `TimerService`; every timer fires or is cancelled | 2 timers, without symmetry, 7 ms |
| `event_loop` | wakeups, order of each thread's messages, `Stop`, end of the loop, join | 2 producers with up to two messages each, so that there is an order, and an owner; three messages in all, handlers' included; one dead letter besides the owner's, of another thread or a handler. Each can act between any two steps of the loop |
| `loop_join` | violation: the join after a dead letter | a Handle like `Dispatcher`, so that a `Stop` breaks off a drain of a loop that goes on |
| `connection` | order, registration, edges, progress | a socket with room for one byte and sends of one and two bytes, so full, short and blocked writes all occur; 3 bytes are enough for two sends with one waiting; 3 inputs from other threads (each kind of message), peer and timers in any mixture |
| `conn_spin` | violation: "to avoid case of infinite write" | the peer resets while output waits |
| `buffer` | queue of bytes, asserts, growth | `CheapPrepend` 2, room for 1, strings up to 3 over two byte values, one of which is no UTF-8: all cases of `ensure_writable`, and a move whose source and target overlap |
| `dispatcher` | shared table, reuse of tokens, hand-over, pending connects, watched connections, removal, refinement of `StreamTable` | server and connector, 2 loops with room for 2, 3 streams: the third reuses a key or gets a new one, and a loop is at its limit; one stale request; two letters, the second of which panics the acceptor |
| `disp_overflow` | violation: "Connection already dispatched!" | a server with room for 1 and two open streams for the first loop |
| `connect_usable` | violation: "Now the stream can be used." | a connector with one loop and two streams |
| `tasks` | timed callbacks: maps against wheel, use of `TimerService`, marks and tokens that are used again, late cancels | 2 marks, one of them repeating, a wheel with 2 slots, so one request finds it full; 3 calls, so a mark is used again after it ran, after it was cancelled and too early; 2 connections one after the other on one token; one cancel, one Stop that breaks off a drain; calls in 2 ticks |
| `task_repeat` | violation: "update timeout (repeat task)" | one repeating mark |

`CHECK_DEADLOCK FALSE` is used where the system does stop: a loop that has ended (`EventLoop`), a
thread that panicked or hangs (`Connection`, `Dispatcher`), and all streams, calls and ticks of the
bounds used up (`TimerTasks`).

What each passing run's properties say:

* `timer`: `LinksSound`, `CursorReachesAllDue` (there is an order of the entries in which every list
  is complete, nothing due is behind the cursor and nothing else ahead of it would fire),
  `StaleHandleIsHarmless` (an old handle matches no other timer's entry but one that was inserted
  late, which may have its key and tick), `SleepIsBounded`.
* `timer_live`: `ImplementsService` (a callback of the wheel is a `Fire` of the service, so a timer
  that fires too early cannot be taken for a cancelled one; and the due tick of a request for the
  future begins at its instant or less than two ticks later, `ArmsInTime`); `EveryTimerResolves`.
* `event_loop`: `NoLostWakeup`; `StopDrainsAhead` (if a `Stop` has ended the loop, what was ahead of
  the first one has been handled, whoever sent it: what a join is good for); `QueuedIsHandled`,
  `QuitEnds`, `JoinReturns`; `ThreadOrderKept` (what a thread has sent is what has been handled of
  it, followed by what waits in the channel, in this order). The other models put one channel per
  loop between threads and handlers because of it.
* `connection`: `StreamIntegrity` (the socket has got a prefix of what was given, and with the
  output buffer all of it as long as the peer has not reset); `InterestsAgree` (no registration call
  fails its `expect`); `NoLostEdge`; `OutputKeepsWriter` (only a Disable, an `on_write_complete`
  that disables, a Stop or the end of the stream may leave output without the interest in writing;
  the second may strand it, which is up to the callback, and the property allows that);
  `ImplementsPipe` (the writing side refines `BytePipe`: after a shutdown nothing passes, and a
  `WriteComplete` is posted exactly when the socket has everything); `OutputDrains` and
  `InputIsNoticed` (progress).
* `buffer`: `AssertsHold`, `ImplementsQueue`.
* `dispatcher`: `SharedAgrees`; `EndsOnlyWithoutPeer` (a server's loop ends only in the unwrap of an
  address that is gone, also when other loops have ended); `NoStreamLost` (a stream is with the loop
  `next_loop` chose for it until it is set up, unless its socket failed); `NoneStranded` (a
  connection that asks for input is watched, or its `Removed` is on the way); `RemovesItsOwn`;
  `ImplementsTable`; `EveryStreamIsServed`, `EndedIsForgotten`.
* `tasks`: `MapAgreesWithWheel` (a kept handle is that of its task's timer; an armed timer has a
  callback unless its mark is `misused`), `RunsItsTask` (nothing runs after its cancel, nothing
  one-shot twice; and of a mark that is not `misused` each callback runs for its own timer),
  `RunsOnItsConnection` (what is no stray runs on the connection that scheduled it), `UsesService`
  (seen through its own wheel, every step is one that `TimerService` allows, and every callback that
  runs is a firing), `EveryTaskResolves`.

Fairness. `Timer`: the clock and the loop go on; nobody has to wake a poll. `EventLoop`: the loop's
thread runs, its poll has a timeout (`poll_timeout` is always `Some`), and a thread inside `notify`
or `join` goes on; nobody has to send, stop or drop. `Connection`: the loop runs and the peer reads
what it is sent; `OutputDrains` needs the latter. `Dispatcher`: each loop runs. `TimerTasks`: the
loop runs, and its tick advances: strong fairness, as a tick passes in some poll while other polls
return within it. All others are weak fairness of threads that the operating system schedules.

## 4. Findings

Comments and one assertion that disagree with the code; `PROJECT.json` quotes them:

* `loop_join`: the drop of a pool thread waits in `join` for ever, because `Stop` does not end a
  `Dispatcher`'s loop.
* `conn_spin`: a hard write error ("to avoid case of infinite write") never leaves the loop of
  `handle_write`.
* `disp_overflow`: one connection above the limit takes the token of the next loop, whose next
  connection panics with the shared mutex locked.
* `connect_usable`: `add_connecting` registers the stream and leaves `interests` at `None`, so the
  `enable_io` of a connection that was set up late registers it twice and panics.
* `task_repeat`: a repeating timer is armed again with interval 0 and looked for in the wrong map,
  so its callback runs once, its entry stays, and its cancel misses the timer.

More observations have no run, because nothing in the repository says otherwise or because the
models say what the code does:

* "Always advance 1 tick" (`timer.rs:59`) does not make every request a future one: a request for
  the past, or for an instant inside the current tick that is being served, gets a tick that is
  over, and waits until its slot comes round, up to a revolution. `Timer` models it and the
  properties say when such a timer fires; a late cancel may hit it (`StaleHandleIsHarmless`).
* A dead letter of another thread, or of a handler, that comes before the owner's ends the drain
  and, where `Stop` ends the loop, the loop: what is queued behind it is not handled although it is
  ahead of the owner's own `Stop` and `join` returns (`StopDrainsAhead` is about the first).
* `remove_connection` unwraps the address of a peer that may be gone (`tcp_server.rs:194-196`): a
  connection whose peer has reset, or which has been shut down, can end a loop well below its
  capacity.
* Nothing in `src/` sees to it that `on_close` cancels timers or that a mark is not used again while
  it runs; `examples/chat.rs` does neither, so a callback may run on another connection or at
  another callback's time ("one timeout token == (one conn + one timer)", `tcp_server.rs:336`).
* A handler that always posts to its own loop keeps the drain going, although `send` notifies "to
  give chance to poller".

## 5. Proofs

All theorems hold for every value of the constants that satisfies the named assumptions. Four of the
listed ones state what no run checks: `StopEndsTheDrain` (`StopIsLast`), `GrowthIsNeeded`
(`GrowsOnlyWhenFull`), `PendingsKept` (`PendingAgrees`) and `ServiceIsCoarse`.

**`TimerProofs`** (`WheelAssumption`, `TimeAssumption`, `NullAssumption`). `TypeCorrect` and
`LinksAlwaysSound` rest on `WheelInv`: the types, the links, and that some order of the keys agrees
with every list (the code stores no such order; without it, that removing an entry leaves its
neighbours sound does not follow from the links). Each action shows how the next order is obtained:
an inserted entry becomes the first of all, a removed one is left out.

`NoTimerMissed`, `StaleHandlesHarmless`, `SleepAlwaysBounded` and `WheelImplementsService` hold of
requests for any instant. They rest on `ServedInv`, which is `WheelInv` with `CursorReachesAllDue`
itself, `ClockInv` (the tick counter is at most a tick ahead of the clock), `HandleInv` (what a held
handle's key may be used by now) and `DueInv` (an entry's due tick shares the slot of its tick, and
is another one only if that is over, then at most a revolution ahead). That a late entry is met when
it should, and not in the tick being served, is because `insert` puts it at the head of the list,
which the cursor has already left. `SleepAlwaysBounded` adds `SleepInv`, the refinement adds
`MarkInv` (a mark has one entry at most), from which the due table of the abstract service lists
exactly the live entries; a step of the cursor past a tick then leaves nothing due behind.

**`TimerServiceProofs`** (no assumption of its own). `ServiceIsCoarse`: what implements the service
implements its coarse view, because a tick that may pass in the first passes no waiting timer. With
`WheelImplementsService` the wheel implements the coarse view too, and `TasksUseService` says that
`TimerTasks` stays within it.

**`EventLoopProofs`** (`LoopAssumption`). `TypeCorrect`; `NoWakeupLost`, which is inductive given
the types; `StopEndsTheDrain`, from `DrainIsOver` (a loop that quit by a `Stop` is not handling a
message); `StopDrainsFirst`, from `OwedInv`, which follows each message that was in the channel
before the first `Stop`, of whatever thread or handler: it is delivered, or still ahead of every
`Stop` there is. `ThreadOrderKept` is inductive given the types, as it says of each thread where it
stands: what the channel holds of it is an interval of its messages, ascending, and what has been
delivered is the interval before it.

**`BufferProofs`** (`BufferAssumption`; nothing is assumed of `Lossy`). `TypeCorrect` is inductive
as it stands; the asserts (`AssertsNeverFail`) and `GrowthIsNeeded` are arithmetic from it;
`BufferIsAQueue` compares the readable bytes before and after each call index by index, for each
case of `ensure_writable`.

**`ConnectionProofs`** (`ConnectionAssumption`, `RequestAssumption`). `TypeCorrect` and `StreamKept`
come first: given the types, `StreamIntegrity` is inductive as it stands: what the socket took
(`wire`), followed by the output buffer, is what was given, in order, so neither a partial write nor
a reset between two writes can change the order. `InterestsAlwaysAgree` rests on `AgreeInv`:
`InterestsAgree` alone is not inductive, because a `Removed` that came twice, or late, would find
the connection gone or registered differently; so the invariant says that there is one `Removed` at
most, that its connection is still there, and that outside the drain it does not read. `EdgesKept`
rests on `EdgeInv`, which ties what the selector has reported to what the loop has still to handle
in this round. `WriterKept` goes through the actions that touch the interests. `PipeImplemented`
maps `given`, `wire`, the state of the socket and the number of `WriteComplete`s in the channel to
`BytePipe`; it needs `StreamIntegrity` (what the socket takes next is the next byte) and that the
socket has never more than was given, and a lemma on how each channel operation changes that number.

**`DispatcherProofs`** (`DispatcherAssumption`). `TypeCorrect`, `PendingsKept` and `OwnRemoved` hold
of every pool, also of one whose loops get more connections than they have room for. They rest on
`Inv`: the stack of vacant keys lists each vacant entry of the slab once (`Slabs`); a stream is in
one place at a time, in one message or at one key of one loop (`Places`); a `Removed` names a
connection that is there, has been set up, and is not reported again before the message is handled
(`Leaves`); servers and connectors do not mix (`RoleKept`, without which a `Stop` could leave a
registered stream that has no interests). None of these is inductive without the others: that the
key of a `Removed` is not used again in between needs that its stream sends one only, which needs
that a stream comes to one loop only. `LoopsEndOnlyWithoutPeer`, `SharedKept` and `TableImplemented`
assume `MaxOpen <= Cap`, that no loop has more streams at a time than its capacity, which the code
does not ensure (`disp_overflow`). Under it, counting the streams of a loop bounds its keys
(`Limits`), so the tokens of two loops never meet and the table is exact entry by entry (`Sharing`).
The refinement of `StreamTable` then maps an arrival to `Open`, a pending connection's first event
to `SetUp`, the removal to `Close`, and everything else to a stutter.

`StreamsArrive` and `ConnectionsWatched` need no such assumption: they rest on `Inv` and `Placed`,
which joins them with the fact that no `Stop` is in a channel before the listener has been
deregistered (`NoStops`). `Inv` is needed for each removal: only because a `Removed` names the
connection of its own stream does taking it from the selector leave every other one watched.

**`TimerTasksProofs`** (`TaskAssumption`). `MapsAgree`, `CallbacksRunOnce` and `CallbacksRunAtHome`
rest on `Inv`, whose parts other than the types are:

* `Handles`: the handle kept for a mark is the task's own; a kept one-shot callback has its timer; a
  timer that was armed again belongs to a repeating task, which has no other.
* `Fresh`: a task whose `AddTimer` is still in the queue, once, is neither armed nor kept, run or
  cancelled; one that is kept has not been cancelled.
* `Alone`: the timers of a mark that is not `misused` are those of what is kept for it.
* `Ordered`: when an `AddTimer` for such a mark comes to the head of the queue, every other callback
  of the mark has run or its cancel has been handled.
* `Ends`: a callback that may still run and is no stray has its connection, and a `Removed` comes
  once and behind all of these.

`MapAgreesWithWheel` alone is not inductive: an `AddTimer` for a mark whose older callback is still
kept leaves that one's timer without an entry. For a mark that is not `misused` this is a matter of
the queue, which is why `Ordered` speaks of the messages and of what is ahead of them; `Ends` does
the same for connections. `Handles` and `Fresh` need no such condition, so that nothing runs after
its cancel, and that no callback of `schedule_after` runs twice, holds whatever users do. The two
conditions are stated by what the history has seen (`misused`, `strays`), never by a guard on what a
connection may do.

`TasksUseService` needs no condition either: from `Handles` a task has one wheel entry at most
(`OneTimer`), so that "the due tick of a task" is a function of the state; the tick of the service
is `ServedTick`, the least due tick of the wheel or else the clock, which exists because `<` on the
naturals is well-founded; that no tick passes a timer that waits follows because timers are armed
for ticks after the clock (`NonePasses`).

Only model-checked: all liveness (out of the prover's reach: `EveryTimerResolves`,
`QueuedIsHandled`, `QuitEnds`, `JoinReturns`, `OutputDrains`, `InputIsNoticed`,
`EveryStreamIsServed`, `EndedIsForgotten`, `EveryTaskResolves`).

## 6. Not modelled

* `EventLoopThreadPool`: its drop joins its threads one after another, each as in `EventLoop`, and
  with dispatchers hangs in the first (`loop_join`); `set_pool_size` has no caller.
* A failing `poll`, a failing `wake`, an accept error that repeats for ever, a clock that goes back.
* `Channel` (empty default methods), the logger, the examples, `acceptor.rs` and `ex/` (not
  compiled).

## 7. Plan

Next: the drop of a whole pool, once its loops can end; `Connection` inside a `Dispatcher` loop of
several connections, as a refinement of `Dispatcher`'s view of one.
