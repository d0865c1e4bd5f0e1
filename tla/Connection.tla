----------------------------- MODULE Connection -----------------------------
(***************************************************************************)
(* One established TcpConnection (src/tcp_connection.rs) in the loop of its *)
(* Dispatcher (src/tcp_server.rs): the interests the connection keeps, the  *)
(* edge-triggered selector it registers with, its output buffer, and the    *)
(* messages that it and other threads send to the loop.                     *)
(*                                                                          *)
(* The n-th byte given to `send' is the number n; input is only counted.    *)
(* A handler is one step: what the peer does between two system calls of a   *)
(* handler it could do before or after the handler as well, except for a    *)
(* reset between two writes, which Send and WriteError include.             *)
(***************************************************************************)
EXTENDS Naturals, Sequences, FiniteSets

CONSTANTS
  Sizes,      \* how many bytes one call of send may be given
  Room,       \* size of the socket's send buffer
  Requests,   \* the messages other threads send
  MaxBytes,   \* bound: callbacks stop sending here
  MaxInputs   \* bound: messages of other threads, bytes of the peer, timers

ASSUME ConnectionAssumption ==
  Sizes \subseteq Nat /\ Room \in Nat /\ MaxBytes \in Nat /\ MaxInputs \in Nat

Modes == {"R", "W"}      \* Interest::READABLE, Interest::WRITABLE

Write(n) == [kind |-> "write", size |-> n]
Enable(modes) == [kind |-> "enable", modes |-> modes]
Disable(modes) == [kind |-> "disable", modes |-> modes]
Shutdown(sides) == [kind |-> "shutdown", sides |-> sides]  \* Read, Write or Both
SetContext == [kind |-> "context"]          \* a closure for the connection
Stop == [kind |-> "stop"]
WriteComplete == [kind |-> "written"]
Removed == [kind |-> "removed"]

\* What other threads may send.
Request == {Write(n) : n \in Sizes} \cup {SetContext, Stop}
             \cup {Enable(m) : m \in SUBSET Modes \ {{}}}
             \cup {Disable(m) : m \in SUBSET Modes \ {{}}}
             \cup {Shutdown(m) : m \in SUBSET Modes \ {{}}}

Message == Request \cup {WriteComplete, Removed}

ASSUME RequestAssumption == Requests \subseteq Request

VARIABLES
  present,     \* the connection is in the Dispatcher's slab
  interests,   \* TcpConnection::interests, {} for None
  reg,         \* the selector's registration of the stream, {} for none
  edge,        \* the selector has something to report
  output,      \* the output buffer
  given,       \* bytes given to send so far
  queue,       \* the loop's channel
  phase,       \* where the loop is
  events,      \* what the current poll reported
  inputs,      \* messages of other threads, bytes of the peer, timers so far
  wire,        \* bytes the socket has taken
  room,        \* free space of its send buffer
  unread,      \* bytes in its receive buffer
  fin,         \* the peer has closed its side
  rst,         \* the peer has reset: "no", "new", or "told" to the connection
  shut         \* what this side has shut down: "R" for reading, "W" for writing

ioVars == <<interests, reg, edge>>
outVars == <<output, given, wire, room>>
socketVars == <<unread, fin, rst, shut>>
vars == <<present, ioVars, outVars, queue, phase, events, inputs, socketVars>>

----------------------------------------------------------------------------
(* The socket and the selector *)

WriteFails == "W" \in shut \/ rst # "no"

\* Closed in both directions: the socket has no peer any more.
Unconnected == rst # "no" \/ ("W" \in shut /\ fin)

\* A read returns 0 once what has arrived is read.
StreamEnded == fin \/ "R" \in shut

Readiness ==
  {m \in Modes : \/ m = "R" /\ (unread > 0 \/ StreamEnded \/ rst # "no")
                 \/ m = "W" /\ (room > 0 \/ WriteFails)}

\* Something happened to one of the modes.
Happens(modes) == edge' = (edge \/ modes \cap reg # {})

Env == UNCHANGED <<present, interests, reg, output, given, wire, queue, phase, events>>

PeerSends ==
  /\ ~fin /\ rst = "no" /\ inputs < MaxInputs
  /\ inputs' = inputs + 1
  /\ unread' = unread + 1
  /\ Happens({"R"})
  /\ Env /\ UNCHANGED <<room, fin, rst, shut>>

PeerCloses ==
  /\ ~fin /\ rst = "no"
  /\ fin' = TRUE
  /\ Happens({"R"})
  /\ Env /\ UNCHANGED <<inputs, room, unread, rst, shut>>

PeerResets ==
  /\ rst = "no"
  /\ rst' = "new"
  /\ Happens(Modes)
  /\ Env /\ UNCHANGED <<inputs, room, unread, fin, shut>>

\* The peer takes what it was sent; a writer that met a full buffer is told.
PeerReads ==
  /\ room < Room /\ rst = "no"
  /\ room' = Room
  /\ IF room = 0 THEN Happens({"W"}) ELSE UNCHANGED edge
  /\ Env /\ UNCHANGED <<inputs, socketVars>>

\* Another thread sends a message to the loop.
Post(msg) ==
  /\ inputs < MaxInputs
  /\ inputs' = inputs + 1
  /\ queue' = Append(queue, msg)
  /\ UNCHANGED <<present, ioVars, outVars, phase, events, socketVars>>

----------------------------------------------------------------------------
(* TcpConnection.  `then' is where the loop goes, unless an expect fails.     *)

KeepIo(then) == UNCHANGED ioVars /\ phase' = then

\* register wants a stream that is not registered, reregister and deregister
\* one that is.  What is ready already is reported again.
SetInterests(modes, then) ==
  IF (interests = {}) = (reg = {})
    THEN /\ interests' = modes
         /\ reg' = modes
         /\ edge' = (Readiness' \cap modes # {})
         /\ phase' = then
    ELSE KeepIo("panicked")

EnableDoesNothing(modes, then) == KeepIo(then)

EnableForgetsSelector(modes, then) ==
  IF interests = {} THEN SetInterests(modes, then)
  ELSE interests' = interests \cup modes /\ UNCHANGED <<reg, edge>> /\ phase' = then

EnableIo(modes, then) == SetInterests(interests \cup modes, then)

DisableForgetsNone(modes, then) ==
  IF interests \subseteq modes
    THEN interests' = interests /\ reg' = {} /\ edge' = FALSE /\ phase' = then
    ELSE SetInterests(interests \ modes, then)

DisableIo(modes, then) ==
  IF interests = {} THEN KeepIo(then) ELSE SetInterests(interests \ modes, then)

Least(a, b) == IF a <= b THEN a ELSE b

SocketTakesAll(data) ==
  /\ wire' = wire \o data
  /\ room' = room - Len(data)

\* The socket takes what it has room for.
SocketTakes(data) ==
  LET k == Least(room, Len(data))
  IN  /\ wire' = wire \o SubSeq(data, 1, k)
      /\ room' = room - k

AllOfIt(data) == data

Rest(data) == SubSeq(data, room + 1, Len(data))

\* A write of data takes more than one call, between which the peer may reset.
TakesTwoWrites(data) == room \in 1 .. Len(data) - 1

\* A failed call reports a reset.
Told == IF rst = "new" THEN "told" ELSE rst

\* send: try the socket if nothing is waiting before this data, and keep what
\* it does not take for handle_write.  After a hard error all of the data is
\* kept, also what an earlier call has written.  q is the channel the handler
\* leaves.
Send(n, q, then) ==
  LET data == [i \in 1 .. n |-> given + i]
  IN  /\ given' = given + n
      /\ \/ /\ "W" \in interests
            /\ output' = output \o data
            /\ queue' = q
            /\ UNCHANGED <<wire, room, rst>>
            /\ KeepIo(then)
         \/ /\ "W" \notin interests
            /\ output # <<>> \/ WriteFails
            /\ output' = output \o data
            /\ queue' = q
            /\ rst' = IF output = <<>> THEN Told ELSE rst
            /\ UNCHANGED <<wire, room>>
            /\ EnableIo({"W"}, then)
         \/ /\ "W" \notin interests
            /\ output = <<>> /\ ~WriteFails
            /\ SocketTakes(data)
            /\ output' = Rest(data)
            /\ queue' = IF n <= room THEN Append(q, WriteComplete) ELSE q
            /\ UNCHANGED rst
            /\ IF n <= room THEN KeepIo(then) ELSE EnableIo({"W"}, then)
         \/ /\ "W" \notin interests
            /\ output = <<>> /\ ~WriteFails /\ TakesTwoWrites(data)
            /\ SocketTakes(data)
            /\ output' = data
            /\ queue' = q
            /\ rst' = "told"
            /\ EnableIo({"W"}, then)

\* TcpStream::shutdown, whose expect fails on a socket without a peer.
ShutDown(sides, then) ==
  IF Unconnected
    THEN KeepIo("no peer") /\ UNCHANGED shut
    ELSE /\ shut' = shut \cup sides
         /\ Happens(sides)
         /\ phase' = then
         /\ UNCHANGED <<interests, reg>>

\* A callback of the user sends something, calls TcpConnection::shutdown, or
\* leaves the connection alone.
Callback(q, then) ==
  \/ queue' = q /\ KeepIo(then) /\ UNCHANGED <<outVars, rst, shut>>
  \/ \E n \in Sizes : given + n <= MaxBytes /\ UNCHANGED shut /\ Send(n, q, then)
  \/ queue' = q /\ ShutDown({"W"}, then) /\ UNCHANGED <<outVars, rst>>

----------------------------------------------------------------------------
(* The loop: poll, handle_io_event *)

Poll ==
  /\ phase = "poll"
  /\ events' = IF edge THEN Readiness \cap reg ELSE {}
  /\ edge' = FALSE
  /\ phase' = "read"
  /\ UNCHANGED <<present, interests, reg, outVars, queue, inputs, socketVars>>

Reading == phase = "read" /\ present /\ "R" \in events

ReadsOnce ==
  /\ Reading
  /\ ~StreamEnded /\ rst = "no"
  /\ unread' = IF unread = 0 THEN 0 ELSE unread - 1
  /\ UNCHANGED <<present, events, inputs, fin>>
  /\ Callback(queue, "write")

\* handle_read up to WouldBlock, and on_read_complete.
ReadBlocks ==
  /\ Reading
  /\ ~StreamEnded /\ rst = "no"
  /\ unread' = 0
  /\ UNCHANGED <<present, events, inputs, fin>>
  /\ Callback(queue, "write")

\* handle_read up to the end of the stream, which is also what follows a reset
\* that has been told.
ReadEof ==
  /\ Reading
  /\ (StreamEnded /\ rst = "no") \/ rst = "told"
  /\ unread' = 0
  /\ UNCHANGED <<present, outVars, events, inputs, fin, rst, shut>>
  /\ DisableIo(Modes, "write")
  /\ queue' = Append(queue, Removed)

\* handle_read up to any other error: it is logged.
ReadError ==
  /\ Reading
  /\ rst = "new"
  /\ unread' = 0
  /\ rst' = Told
  /\ KeepIo("write")
  /\ UNCHANGED <<present, outVars, queue, events, inputs, fin, shut>>

Writing == phase = "write" /\ present /\ "W" \in events /\ "W" \in interests

WriteReportsProgress ==
  /\ Writing
  /\ ~WriteFails
  /\ SocketTakes(output)
  /\ output' = Rest(output)
  /\ queue' = Append(queue, WriteComplete)
  /\ UNCHANGED <<present, given, events, inputs, socketVars>>
  /\ IF Len(output) <= room THEN DisableIo({"W"}, "drain") ELSE KeepIo("drain")

\* handle_write, until the output is empty or the socket would block.
WriteOutput ==
  /\ Writing
  /\ ~WriteFails
  /\ SocketTakes(output)
  /\ output' = Rest(output)
  /\ UNCHANGED <<present, given, events, inputs, socketVars>>
  /\ IF Len(output) <= room
       THEN DisableIo({"W"}, "drain") /\ queue' = Append(queue, WriteComplete)
       ELSE KeepIo("drain") /\ UNCHANGED queue

\* handle_write on any other error: its loop does not break.
WriteError ==
  /\ Writing
  /\ \/ WriteFails /\ rst' = Told /\ UNCHANGED <<output, wire, room>>
     \/ /\ ~WriteFails /\ TakesTwoWrites(output)
        /\ SocketTakes(output) /\ output' = Rest(output)
        /\ rst' = "told"
  /\ KeepIo("spinning")
  /\ UNCHANGED <<present, given, queue, events, inputs, unread, fin, shut>>

NotReady ==
  /\ \/ phase = "read" /\ ~Reading /\ KeepIo("write")
     \/ phase = "write" /\ ~Writing /\ KeepIo("drain")
  /\ UNCHANGED <<present, outVars, queue, events, inputs, socketVars>>

----------------------------------------------------------------------------
(* The loop: the drain, handle_notify *)

\* The next message of the channel is taken out, and is of one of the kinds.
Takes(kinds) == phase = "drain" /\ queue # <<>> /\ Head(queue).kind \in kinds

\* Messages for a connection that is gone are dropped.
HandleForNobody ==
  /\ Takes({"write", "written", "context", "enable", "disable", "shutdown"})
  /\ ~present
  /\ queue' = Tail(queue)
  /\ KeepIo("drain")
  /\ UNCHANGED <<present, outVars, events, inputs, socketVars>>

HandleWrite ==
  /\ Takes({"write"}) /\ present
  /\ UNCHANGED <<present, events, inputs, unread, fin, shut>>
  /\ Send(Head(queue).size, Tail(queue), "drain")

\* on_write_complete may also disable WRITABLE, as that of examples/chat.rs.
HandleWriteComplete ==
  /\ Takes({"written"}) /\ present
  /\ UNCHANGED <<present, events, inputs, unread, fin>>
  /\ \/ Callback(Tail(queue), "drain")
     \/ queue' = Tail(queue) /\ UNCHANGED <<outVars, rst, shut>> /\ DisableIo({"W"}, "drain")

\* The closure of another thread does what a callback may do.
HandleSetContext ==
  /\ Takes({"context"}) /\ present
  /\ UNCHANGED <<present, events, inputs, unread, fin>>
  /\ Callback(Tail(queue), "drain")

HandleEnable ==
  /\ Takes({"enable"}) /\ present
  /\ queue' = Tail(queue)
  /\ UNCHANGED <<present, outVars, events, inputs, socketVars>>
  /\ EnableIo(Head(queue).modes, "drain")

HandleDisable ==
  /\ Takes({"disable"}) /\ present
  /\ queue' = Tail(queue)
  /\ UNCHANGED <<present, outVars, events, inputs, socketVars>>
  /\ DisableIo(Head(queue).modes, "drain")

\* Not while output is waiting to be written: the request is dropped then.
HandleShutdown ==
  /\ Takes({"shutdown"}) /\ present
  /\ queue' = Tail(queue)
  /\ IF "W" \in interests
       THEN KeepIo("drain") /\ UNCHANGED shut
       ELSE ShutDown(Head(queue).sides, "drain")
  /\ UNCHANGED <<present, outVars, events, inputs, unread, fin, rst>>

\* remove_connection: the stream is dropped, and its registration with it.
\* The address of a peer that is gone is unwrapped for a log line, unless the
\* logger skips it.
HandleRemoved ==
  /\ Takes({"removed"})
  /\ queue' = Tail(queue)
  /\ present' = FALSE
  /\ interests' = {} /\ reg' = {} /\ edge' = FALSE
  /\ \/ present /\ phase' = "drain"
     \/ present /\ Unconnected /\ phase' = "no peer"
     \/ ~present /\ phase' = "panicked"
  /\ UNCHANGED <<outVars, events, inputs, socketVars>>

\* Message::Stop: graceful_shutdown, and the drain breaks off; the loop goes on.
HandleStop ==
  /\ Takes({"stop"})
  /\ queue' = Tail(queue)
  /\ UNCHANGED <<present, outVars, events, inputs, socketVars>>
  /\ DisableIo(Modes, "timers")

DrainEmpty ==
  /\ phase = "drain" /\ queue = <<>>
  /\ KeepIo("timers")
  /\ UNCHANGED <<present, outVars, queue, events, inputs, socketVars>>

\* handle_timeout with a callback of this connection.
TimerFires ==
  /\ phase = "timers" /\ present
  /\ inputs < MaxInputs
  /\ inputs' = inputs + 1
  /\ UNCHANGED <<present, events, unread, fin>>
  /\ Callback(queue, "timers")

TimersDone ==
  /\ phase = "timers"
  /\ events' = {}
  /\ KeepIo("poll")
  /\ UNCHANGED <<present, outVars, queue, inputs, socketVars>>

----------------------------------------------------------------------------
\* After add_connection, with an on_established that enables READABLE.
Init ==
  /\ present = TRUE
  /\ interests = {"R"} /\ reg = {"R"} /\ edge = FALSE
  /\ output = <<>> /\ given = 0
  /\ queue = <<>>
  /\ phase = "poll" /\ events = {}
  /\ inputs = 0
  /\ wire = <<>> /\ room = Room
  /\ unread = 0 /\ fin = FALSE /\ rst = "no" /\ shut = {}

OthersStep ==
  \/ PeerSends
  \/ PeerCloses
  \/ PeerResets
  \/ \E msg \in Requests : Post(msg)

LoopStep ==
  \/ Poll
  \/ ReadBlocks
  \/ ReadEof
  \/ ReadError
  \/ WriteOutput
  \/ WriteError
  \/ NotReady
  \/ HandleForNobody
  \/ HandleWrite
  \/ HandleWriteComplete
  \/ HandleSetContext
  \/ HandleEnable
  \/ HandleDisable
  \/ HandleShutdown
  \/ HandleRemoved
  \/ HandleStop
  \/ DrainEmpty
  \/ TimerFires
  \/ TimersDone

Next == OthersStep \/ PeerReads \/ LoopStep

Spec == Init /\ [][Next]_vars

\* The loop runs, and the peer reads what it is sent.
FairSpec == Spec /\ WF_vars(LoopStep) /\ WF_vars(PeerReads)

----------------------------------------------------------------------------
(* Properties *)

TypeOK ==
  /\ present \in BOOLEAN /\ edge \in BOOLEAN /\ fin \in BOOLEAN
  /\ shut \subseteq Modes /\ interests \subseteq Modes /\ reg \subseteq Modes /\ events \subseteq Modes
  /\ output \in Seq(Nat) /\ wire \in Seq(Nat) /\ given \in Nat
  /\ queue \in Seq(Message)
  /\ phase \in {"poll", "read", "write", "drain", "timers", "spinning", "panicked", "no peer"}
  /\ inputs \in 0 .. MaxInputs
  /\ room \in 0 .. Room /\ unread \in Nat
  /\ rst \in {"no", "new", "told"}

Ended == phase \in {"spinning", "panicked", "no peer"} \/ ~present

\* The peer gets the bytes given to send, in their order and none twice; and
\* unless it resets, what the socket has taken followed by the output buffer is
\* all that was given (send, handle_write).
StreamIntegrity ==
  /\ wire = [i \in 1 .. Len(wire) |-> i]
  /\ rst = "no" => wire \o output = [i \in 1 .. given |-> i]

\* The interests the connection keeps are those of the selector, so that no
\* register, reregister or deregister fails its expect.
InterestsAgree == phase # "panicked" /\ interests = reg

\* The connection is a byte pipe: what the socket has taken is what was given, in
\* order, and a WriteComplete is posted when, and only when, it has taken all
\* (send, handle_write, shutdown).
Completions(q) == Cardinality({i \in 1 .. Len(q) : q[i] = WriteComplete})

Pipe == INSTANCE BytePipe WITH got <- wire, open <- ~WriteFails, notes <- Completions(queue)

ImplementsPipe == Pipe!Spec

\* With an edge-triggered selector, whoever goes back to the poll with a ready
\* mode it is interested in must have made the selector report it again.
NoLostEdge ==
  phase = "poll" /\ rst = "no" /\ Readiness \cap reg # {} => edge

\* Waiting output loses the interest in writing only by a Disable, a Stop, the
\* end of the stream, or an on_write_complete that disables it although a
\* Write came in between.
Stranded == present /\ output # <<>> /\ "W" \notin interests

OutputKeepsWriter ==
  [][Stranded' => Stranded \/ HandleDisable \/ HandleStop \/ ReadEof
                \/ HandleWriteComplete]_vars

\* Waiting output is written in the end.
OutputDrains ==
  output # <<>> ~> output = <<>> \/ "W" \notin interests \/ WriteFails \/ Ended

\* Input and the end of the stream are noticed by a connection that reads.
InputIsNoticed ==
  unread > 0 \/ StreamEnded ~> (unread = 0 /\ ~StreamEnded) \/ "R" \notin interests \/ rst # "no" \/ Ended

\* "to avoid case of infinite write" (handle_write): the loop leaves it.
NoInfiniteWrite == phase # "spinning"

=============================================================================
