----------------------------- MODULE EventLoop -----------------------------
(***************************************************************************)
(* EventLoop::run with its message channel and waker (src/event_loop.rs),   *)
(* the threads that hold a Notifier, and the owner of the loop's thread     *)
(* (src/event_loop_thread_pool.rs).                                         *)
(*                                                                          *)
(* Sending is two steps, tx.send and waker.wake, and so is going to sleep:  *)
(* the loop looks at the channel, then polls.  I/O events and timers matter *)
(* here only because they end a poll and run handlers.                      *)
(***************************************************************************)
EXTENDS Naturals, Sequences, FiniteSets

CONSTANTS
  Producers,            \* threads that hold a clone of the Notifier
  Quota,                \* bound: messages a producer sends
  Sends,                \* bound: messages that are sent in all, by threads and by handlers
  Letters,              \* bound: dead letters of others than the owner
  StopEndsLoop,         \* the Handle's graceful_shutdown calls EventLoop::shutdown
  HandleKeepsNotifier   \* the Handle holds a Notifier of its own loop

ASSUME LoopAssumption == /\ Quota \in Nat /\ Sends \in Nat /\ Letters \in Nat
                         /\ StopEndsLoop \in BOOLEAN
                         /\ HandleKeepsNotifier \in BOOLEAN

Stop == [kind |-> "stop"]                  \* Message::Stop
Own == [kind |-> "own"]                    \* an Any message from a handler of the loop
AnyMessage == [kind : {"any"}, from : Producers, n : 1 .. Quota]
Message == AnyMessage \cup {Stop, Own}

VARIABLES
  queue,      \* the channel
  wake,       \* the waker has been triggered and not yet polled
  phase,      \* where the loop is
  mayBlock,   \* the poll timeout is not zero
  quit,       \* why `running' is false; "no" while it is true
  sends,      \* messages that may still be sent
  letters,    \* dead letters that may still be sent besides the owner's
  sent,       \* sent[p]: messages p has sent
  pc,         \* pc[p]: where producer p is in notify
  owner,      \* the EventLoopThread, or "absent" for a loop run by its creator
  delivered,  \* history: messages given to handle_notify
  owed        \* history: messages in the channel ahead of the first Stop

loopVars == <<phase, mayBlock, quit, delivered>>
vars == <<queue, wake, phase, mayBlock, quit, sends, letters, sent, pc, owner, delivered, owed>>

Queued == {queue[i] : i \in 1 .. Len(queue)}

\* Every Sender of the channel has been dropped.
Disconnected ==
  /\ \A p \in Producers : pc[p] = "dropped"
  /\ owner = "absent"
  /\ ~HandleKeepsNotifier

----------------------------------------------------------------------------
(* Threads that hold a Notifier *)

MessageOf(p, n) == [kind |-> "any", from |-> p, n |-> n]
NextMessage(p) == MessageOf(p, sent[p] + 1)

\* notify: the message goes into the channel; without a receiver the thread
\* panics.
Send(p) ==
  /\ pc[p] = "idle" /\ sent[p] < Quota /\ sends > 0
  /\ IF phase = "ended"
       THEN /\ pc' = [pc EXCEPT ![p] = "panicked"]
            /\ UNCHANGED <<queue, sent, sends>>
       ELSE /\ queue' = Append(queue, NextMessage(p))
            /\ sent' = [sent EXCEPT ![p] = @ + 1]
            /\ sends' = sends - 1
            /\ pc' = [pc EXCEPT ![p] = "wake"]
  /\ UNCHANGED <<loopVars, wake, owner, letters, owed>>

NotifierForgetsWake(p) ==
  /\ pc[p] = "wake"
  /\ pc' = [pc EXCEPT ![p] = "idle"]
  /\ UNCHANGED <<loopVars, sends, queue, wake, sent, owner, letters, owed>>

\* The second half of notify.
Wake(p) ==
  /\ pc[p] = "wake"
  /\ wake' = TRUE
  /\ pc' = [pc EXCEPT ![p] = "idle"]
  /\ UNCHANGED <<loopVars, sends, queue, sent, owner, letters, owed>>

\* Notifier::wake on its own.
WakeOnly(p) ==
  /\ pc[p] = "idle"
  /\ wake' = TRUE
  /\ UNCHANGED <<loopVars, sends, queue, sent, pc, owner, letters, owed>>

\* dead_letter puts a Stop behind q, which is what the channel holds.  What is
\* ahead of the first Stop is owed.
StopBehind(q) ==
  LET ahead == {q[i] : i \in 1 .. Len(q)}
  IN  /\ queue' = Append(q, Stop)
      /\ owed' = IF quit = "stop" \/ Stop \in ahead THEN owed ELSE ahead \cap AnyMessage

\* dead_letter by another thread than the owner (TcpServer::shutdown, a
\* Service).  Without a receiver this is only logged.
SendLetter(p) ==
  /\ pc[p] = "idle" /\ letters > 0
  /\ IF phase = "ended"
       THEN UNCHANGED <<queue, letters, owed>>
       ELSE StopBehind(queue) /\ letters' = letters - 1
  /\ pc' = [pc EXCEPT ![p] = "wake"]
  /\ UNCHANGED <<loopVars, sends, wake, sent, owner>>

\* Dropping a Notifier wakes nobody.
DropNotifier(p) ==
  /\ pc[p] = "idle"
  /\ pc' = [pc EXCEPT ![p] = "dropped"]
  /\ UNCHANGED <<loopVars, sends, queue, wake, sent, owner, letters, owed>>

----------------------------------------------------------------------------
(* EventLoopThread::drop: dead_letter, then join.  Its own Notifier lives on *)
(* until the join returns.                                                   *)

StopJumpsQueue ==
  /\ owner = "owning"
  /\ owner' = "waking"
  /\ IF phase = "ended"
       THEN UNCHANGED <<queue, owed>>
       ELSE /\ queue' = <<Stop>> \o queue
            /\ owed' = Queued \cap AnyMessage
  /\ UNCHANGED <<loopVars, sends, wake, sent, pc, letters>>

OwnerStops ==
  /\ owner = "owning"
  /\ owner' = "waking"
  /\ IF phase = "ended"
       THEN UNCHANGED <<queue, owed>>
       ELSE StopBehind(queue)
  /\ UNCHANGED <<loopVars, sends, wake, sent, pc, letters>>

OwnerWakes ==
  /\ owner = "waking"
  /\ owner' = "joining"
  /\ wake' = TRUE
  /\ UNCHANGED <<loopVars, sends, queue, sent, pc, letters, owed>>

OwnerJoins ==
  /\ owner = "joining"
  /\ phase = "ended"
  /\ owner' = "joined"
  /\ UNCHANGED <<loopVars, sends, queue, wake, sent, pc, letters, owed>>

----------------------------------------------------------------------------
(* EventLoop::step, by the loop's thread *)

\* rx.is_empty() decides whether the poll may block.
Check ==
  /\ phase = "check"
  /\ phase' = "poll"
  /\ mayBlock' = (queue = <<>>)
  /\ UNCHANGED <<queue, wake, quit, sends, sent, pc, owner, letters, delivered, owed>>

ReturnFromPoll ==
  /\ phase' = "events"
  /\ wake' = FALSE
  /\ mayBlock' = FALSE
  /\ UNCHANGED <<queue, quit, sends, sent, pc, owner, letters, delivered, owed>>

\* The waker, or a zero timeout, ends the poll.
PollWoken ==
  /\ phase = "poll"
  /\ wake \/ ~mayBlock
  /\ ReturnFromPoll

\* An I/O event, a timer's tick or the poll timeout ends the poll.
PollExpires ==
  /\ phase = "poll"
  /\ mayBlock /\ ~wake
  /\ ReturnFromPoll

\* A handler uses the Notifier of its own loop (send and wake with nothing of
\* the loop in between), for a message or, as the accept loop after an error,
\* for a dead letter; or it calls EventLoop::shutdown.  q is the channel then.
Post(q) ==
  /\ sends > 0
  /\ sends' = sends - 1
  /\ Own \notin {q[i] : i \in 1 .. Len(q)}
  /\ queue' = Append(q, Own)
  /\ wake' = TRUE
  /\ UNCHANGED <<quit, letters, owed>>

PostLetter(q) ==
  /\ letters > 0
  /\ letters' = letters - 1
  /\ StopBehind(q)
  /\ wake' = TRUE
  /\ UNCHANGED <<quit, sends>>

ShutDown(q) ==
  /\ quit = "no"
  /\ quit' = "handler"
  /\ queue' = q
  /\ UNCHANGED <<wake, sends, letters, owed>>

HandlerActs(q) == Post(q) \/ PostLetter(q) \/ ShutDown(q)

\* handle_io_event of the poll's events.
EventActs ==
  /\ phase = "events"
  /\ HandlerActs(queue)
  /\ UNCHANGED <<phase, mayBlock, sent, pc, owner, delivered>>

DrainSkipped ==
  /\ phase = "events"
  /\ phase' = "timers"
  /\ UNCHANGED <<queue, wake, mayBlock, quit, sends, sent, pc, owner, letters, delivered, owed>>

EventsDone ==
  /\ phase = "events"
  /\ phase' = "drain"
  /\ UNCHANGED <<queue, wake, mayBlock, quit, sends, sent, pc, owner, letters, delivered, owed>>

HasHead(ms) == queue # <<>> /\ Head(queue) \in ms

StopIsNotified ==
  /\ phase = "drain"
  /\ HasHead(Message)
  /\ delivered' = delivered \cup ({Head(queue)} \ {Own})
  /\ queue' = Tail(queue)
  /\ UNCHANGED <<wake, phase, mayBlock, quit, sends, letters, sent, pc, owner, owed>>

StopEmptiesChannel ==
  /\ phase = "drain"
  /\ HasHead({Stop})
  /\ queue' = <<>>
  /\ quit' = IF StopEndsLoop /\ quit = "no" THEN "stop" ELSE quit
  /\ phase' = "timers"
  /\ UNCHANGED <<wake, mayBlock, sends, sent, pc, owner, letters, delivered, owed>>

\* handle_notify of the message at the head.  Nothing it does ends the drain.
HandleMessage ==
  /\ phase = "drain"
  /\ HasHead(Message \ {Stop})
  /\ delivered' = delivered \cup ({Head(queue)} \cap AnyMessage)
  /\ \/ /\ queue' = Tail(queue)
        /\ UNCHANGED <<wake, quit, sends, letters, owed>>
     \/ HandlerActs(Tail(queue))
  /\ UNCHANGED <<phase, mayBlock, sent, pc, owner>>

StopSkipsShutdown ==
  /\ phase = "drain"
  /\ HasHead({Stop})
  /\ queue' = Tail(queue)
  /\ phase' = "timers"
  /\ UNCHANGED <<wake, quit, mayBlock, sends, sent, pc, owner, letters, delivered, owed>>

\* Message::Stop: graceful_shutdown, and the drain breaks off.
HandleStop ==
  /\ phase = "drain"
  /\ HasHead({Stop})
  /\ queue' = Tail(queue)
  /\ quit' = IF StopEndsLoop /\ quit = "no" THEN "stop" ELSE quit
  /\ phase' = "timers"
  /\ UNCHANGED <<wake, mayBlock, sends, sent, pc, owner, letters, delivered, owed>>

DrainEmpty ==
  /\ phase = "drain"
  /\ queue = <<>> /\ ~Disconnected
  /\ phase' = "timers"
  /\ UNCHANGED <<queue, wake, mayBlock, quit, sends, sent, pc, owner, letters, delivered, owed>>

DisconnectIgnored ==
  /\ phase = "drain"
  /\ queue = <<>> /\ Disconnected
  /\ phase' = "timers"
  /\ UNCHANGED <<queue, wake, mayBlock, quit, sends, sent, pc, owner, letters, delivered, owed>>

\* TryRecvError::Disconnected: the loop shuts itself down.
DrainDisconnected ==
  /\ phase = "drain"
  /\ queue = <<>> /\ Disconnected
  /\ quit' = IF quit = "no" THEN "gone" ELSE quit
  /\ phase' = "timers"
  /\ UNCHANGED <<queue, wake, mayBlock, sends, sent, pc, owner, letters, delivered, owed>>

\* Timer callbacks.
TimerActs ==
  /\ phase = "timers"
  /\ HandlerActs(queue)
  /\ UNCHANGED <<phase, mayBlock, sent, pc, owner, delivered>>

\* The end of step, and the test of `running' in run.  When run returns, the
\* receiver is dropped with what the channel still holds.
TimersDone ==
  /\ phase = "timers"
  /\ IF quit = "no"
       THEN phase' = "check" /\ UNCHANGED queue
       ELSE phase' = "ended" /\ queue' = <<>>
  /\ UNCHANGED <<wake, mayBlock, quit, sends, sent, pc, owner, letters, delivered, owed>>

----------------------------------------------------------------------------
Init ==
  /\ queue = <<>>
  /\ wake = FALSE
  /\ phase = "check"
  /\ mayBlock = FALSE
  /\ quit = "no"
  /\ sends = Sends /\ letters = Letters
  /\ sent = [p \in Producers |-> 0]
  /\ pc = [p \in Producers |-> "idle"]
  /\ owner \in {"owning", "absent"}
  /\ delivered = {}
  /\ owed = {}

ProducerStep ==
  \E p \in Producers : Send(p) \/ SendLetter(p) \/ Wake(p) \/ WakeOnly(p) \/ DropNotifier(p)

OwnerStep == OwnerStops \/ OwnerWakes \/ OwnerJoins

LoopStep ==
  \/ Check
  \/ PollWoken
  \/ EventActs
  \/ EventsDone
  \/ HandleMessage
  \/ HandleStop
  \/ DrainEmpty
  \/ DrainDisconnected
  \/ TimerActs
  \/ TimersDone

Next == ProducerStep \/ OwnerStep \/ LoopStep \/ PollExpires

Spec == Init /\ [][Next]_vars

\* The loop's thread runs, its poll has a timeout (poll_timeout is always
\* Some), and a thread inside notify or join goes on.  Nobody has to send,
\* stop or drop anything.
FairSpec ==
  /\ Spec
  /\ WF_vars(LoopStep) /\ WF_vars(PollExpires)
  /\ WF_vars(OwnerWakes) /\ WF_vars(OwnerJoins)
  /\ \A p \in Producers : WF_vars(Wake(p))

----------------------------------------------------------------------------
(* Properties *)

TypeOK ==
  /\ queue \in Seq(Message)
  /\ wake \in BOOLEAN /\ mayBlock \in BOOLEAN
  /\ phase \in {"check", "poll", "events", "drain", "timers", "ended"}
  /\ quit \in {"no", "stop", "handler", "gone"}
  /\ sends \in 0 .. Sends /\ letters \in 0 .. Letters
  /\ sent \in [Producers -> 0 .. Quota]
  /\ pc \in [Producers -> {"idle", "wake", "dropped", "panicked"}]
  /\ owner \in {"owning", "waking", "joining", "joined", "absent"}
  /\ delivered \subseteq AnyMessage /\ owed \subseteq AnyMessage

\* The loop never sleeps on a channel with messages in it: the waker is set, or
\* a thread is between send and wake.  (The order of send and wake in notify,
\* and of is_empty and poll in step.)
NoLostWakeup ==
  phase = "poll" /\ mayBlock /\ queue # <<>>
    => wake \/ owner = "waking" \/ \E p \in Producers : pc[p] = "wake"

IsFrom(m, p) == m \in AnyMessage /\ m.from = p

\* Of p's messages, q holds no other than those with a number in ns, in their
\* order; and it holds all of these.
OrderedIn(q, p, ns) ==
  \A i \in 1 .. Len(q) : IsFrom(q[i], p) =>
    q[i].n \in ns /\ \A j \in 1 .. (i - 1) : IsFrom(q[j], p) => q[j].n < q[i].n

AllIn(q, p, ns) == \A n \in ns : \E i \in 1 .. Len(q) : q[i] = MessageOf(p, n)

\* p's first k messages have been handled; the channel has the others.
HandledUpTo(p, k) ==
  /\ \A m \in AnyMessage : m.from = p => (m \in delivered <=> m.n <= k)
  /\ OrderedIn(queue, p, (k + 1) .. sent[p])
  /\ phase # "ended" => AllIn(queue, p, (k + 1) .. sent[p])

\* The messages of each thread are handled in the order in which it sent them,
\* each once, and none is lost as long as the loop lives (notify, and the drain
\* in step, which a Stop breaks off).
ThreadOrderKept == \A p \in Producers : \E k \in 0 .. sent[p] : HandledUpTo(p, k)

\* When a Stop has ended the loop, all that was in the channel ahead of the
\* first Stop has been handled, whoever sent it, and whoever sends more of them.
\* That is what a join is good for: what came behind a letter of somebody else
\* may be lost, although it was ahead of the owner's own Stop.
StopDrainsAhead == quit = "stop" => owed \subseteq delivered

\* A Stop that ends the loop is the last message it handles.
StopIsLast ==
  [][quit = "stop" => UNCHANGED delivered]_vars

\* A message in the channel is handled, unless the loop ends first.
QueuedIsHandled ==
  \A m \in AnyMessage : m \in Queued ~> (m \in delivered \/ phase = "ended")

\* A loop that was told to end, or has lost its last Notifier, ends.
QuitEnds == (quit # "no" \/ Disconnected) ~> phase = "ended"

\* Dropping an EventLoopThread returns.
JoinReturns == owner = "joining" ~> owner = "joined"

=============================================================================
