------------------------------ MODULE Dispatcher ------------------------------
(***************************************************************************)
(* A pool of loops with a Dispatcher each (src/tcp_server.rs,               *)
(* src/event_loop_thread_pool.rs): a TcpServer hands it the streams it      *)
(* accepts (src/service.rs), a ConnectorService those it connects           *)
(* (src/connector.rs).  Each Dispatcher keeps its connections in a slab,    *)
(* and all share, behind a mutex, the table of tokens.                      *)
(*                                                                          *)
(* Of a connection this module keeps its interest in input and whether it   *)
(* is registered with the selector; Connection is about the rest.  A        *)
(* handler is one step: all it does before it takes the lock is local to    *)
(* its loop.                                                                *)
(***************************************************************************)
EXTENDS Integers, Sequences, FiniteSets

CONSTANTS
  Roles,         \* what the pool is for: "server", "connector", or either
  PoolSize,      \* TcpServerConfig::pool_size
  Cap,           \* TcpServerConfig::max_connections_per
  None,          \* a vacant entry of a slab
  MaxOpen,       \* bound: streams that one loop has at a time
  MaxStreams,    \* bound: streams accepted or connected
  MaxRequests,   \* bound: messages of other threads
  MaxLetters     \* bound: Stops in the acceptor's channel

ASSUME DispatcherAssumption ==
  /\ Roles \subseteq {"server", "connector"}
  /\ PoolSize \in Nat \ {0}
  /\ Cap \in Nat /\ MaxOpen \in Nat /\ MaxStreams \in Nat
  /\ MaxRequests \in Nat /\ MaxLetters \in Nat
  /\ None \notin Nat

Loops == 0 .. PoolSize - 1
Streams == 1 .. MaxStreams

\* Messages to a loop.  `stream' is who sent a Removed, for the properties.
Established(s) == [kind |-> "established", stream |-> s]
Connecting(s) == [kind |-> "connecting", stream |-> s]
Removed(token, s) == [kind |-> "removed", token |-> token, stream |-> s]
Enable(token) == [kind |-> "enable", token |-> token]
Stop == [kind |-> "stop"]

VARIABLES
  role,        \* whose pool this is
  asks,        \* on_established asks for input
  accepted,    \* streams so far, which are numbered from 1
  acceptor,    \* who hands them over: "on", "down" (deregistered), "dead"
  letters,     \* Stops in the acceptor's channel
  requests,    \* messages of other threads so far
  connected,   \* streams whose peer_addr is Ok
  failed,      \* streams whose peer_addr fails otherwise than with NotConnected
  channel,     \* the channels of the loops
  phase,       \* where each loop is; one whose thread panicked is "dead", or
               \* has "no peer" whose address it could log
  reported,    \* streams whose event of the current poll has been handled
  slab,        \* local_connections: the entry of key k is slab[l][k + 1]
  free,        \* its vacant keys, the next one to be used first
  capacity,    \* its capacity
  pending,     \* the tokens in pendings
  established, \* streams whose setup and on_established have run
  reading,     \* streams whose interests contain READABLE
  registered,  \* streams that are registered with the selector
  shared,      \* conn_to_loop: from tokens to loops
  poisoned     \* its mutex

acceptVars == <<role, asks, accepted, acceptor, letters, connected, failed>>
loopVars == <<channel, phase, reported>>
slabVars == <<slab, free, capacity>>
ioVars == <<reading, registered>>
setupVars == <<pending, established>>
sharedVars == <<shared, poisoned>>
vars == <<acceptVars, requests, loopVars, slabVars, ioVars, setupVars, sharedVars>>

----------------------------------------------------------------------------
Alive(l) == phase[l] \notin {"dead", "no peer"}

OffsetForgotten(l, key) == key

\* Each loop's tokens start from an offset of its own.
Token(l, key) == l * Cap + key

Keys(l) == {k \in 0 .. Len(slab[l]) - 1 : slab[l][k + 1] # None}

Tokens(l) == {Token(l, k) : k \in Keys(l)}

Connections(l) == {slab[l][k + 1] : k \in Keys(l)}

VacantKey(l) == IF free[l] = <<>> THEN Len(slab[l]) ELSE Head(free[l])

\* A full Vec of elements of up to 1 KB grows to this.
Grown(c) == IF c < 2 THEN 4 ELSE 2 * c

Send(l, msg) == channel' = [channel EXCEPT ![l] = Append(@, msg)]

----------------------------------------------------------------------------
(* Who hands streams over *)

\* EventLoopThreadPool::next_loop, for the stream that comes next.
NextLoop == accepted % PoolSize

Queued(l, s) == \E i \in DOMAIN channel[l] : channel[l][i] \in {Established(s), Connecting(s)}

\* The streams that are on their way to l, or that it has.
Open(l) == Connections(l) \cup {s \in Streams : Queued(l, s)}

\* notify panics if the loop is no more.
HandOver(msg) ==
  /\ acceptor = "on"
  /\ accepted < MaxStreams /\ Cardinality(Open(NextLoop)) < MaxOpen
  /\ accepted' = accepted + 1
  /\ IF Alive(NextLoop)
       THEN Send(NextLoop, msg) /\ UNCHANGED acceptor
       ELSE acceptor' = "dead" /\ UNCHANGED channel
  /\ UNCHANGED <<role, asks, letters, failed>>
  /\ UNCHANGED <<requests, phase, reported, slabVars, ioVars, setupVars, sharedVars>>

Accept ==
  /\ role = "server"
  /\ HandOver(Established(accepted + 1))
  /\ connected' = connected \cup {accepted + 1}

\* ConnectorService::connect: the socket has only begun to connect.
Connect ==
  /\ role = "connector"
  /\ HandOver(Connecting(accepted + 1))
  /\ UNCHANGED connected

\* The handshake succeeds; one that fails or is refused never does.
PeerConnects(s) ==
  /\ role = "connector" /\ s <= accepted /\ s \notin connected \cup failed
  /\ connected' = connected \cup {s}
  /\ UNCHANGED <<role, asks, accepted, acceptor, letters, failed>>
  /\ UNCHANGED <<requests, loopVars, slabVars, ioVars, setupVars, sharedVars>>

\* Something else is wrong with the socket.
PeerFails(s) ==
  /\ role = "connector" /\ s <= accepted /\ s \notin connected \cup failed
  /\ failed' = failed \cup {s}
  /\ UNCHANGED <<role, asks, accepted, acceptor, letters, connected>>
  /\ UNCHANGED <<requests, loopVars, slabVars, ioVars, setupVars, sharedVars>>

\* An accept fails, or somebody else has the server shut down.
DeadLetter ==
  /\ role = "server" /\ acceptor # "dead" /\ letters < MaxLetters
  /\ letters' = letters + 1
  /\ UNCHANGED <<role, asks, accepted, acceptor, connected, failed>>
  /\ UNCHANGED <<requests, loopVars, slabVars, ioVars, setupVars, sharedVars>>

\* A letter for every connection, to its loop.
Stops ==
  [l \in Loops |-> channel[l] \o [i \in 1 .. Cardinality({t \in DOMAIN shared : shared[t] = l})
                                    |-> Stop]]

\* TcpServer::shutdown.  A listener is deregistered once only.
Shutdown ==
  /\ acceptor # "dead" /\ letters > 0
  /\ letters' = letters - 1
  /\ IF acceptor = "down" \/ poisoned
       THEN acceptor' = "dead" /\ UNCHANGED channel
       ELSE acceptor' = "down" /\ channel' = Stops
  /\ UNCHANGED <<role, asks, accepted, connected, failed>>
  /\ UNCHANGED <<requests, phase, reported, slabVars, ioVars, setupVars, sharedVars>>

----------------------------------------------------------------------------
(* A loop of the pool *)

\* A thread that keeps the token of a connection, which may be gone by now,
\* asks for its input.
Request(l, token) ==
  /\ Alive(l) /\ requests < MaxRequests
  /\ requests' = requests + 1
  /\ Send(l, Enable(token))
  /\ UNCHANGED <<acceptVars, phase, reported, slabVars, ioVars, setupVars, sharedVars>>

\* A panic ends the thread, and poisons the mutex if it is locked.
Dies(l) == phase' = [phase EXCEPT ![l] = "dead"]

\* enable_io registers the stream of a connection that has no interest yet,
\* which fails if it is registered already.
EnableIo(l, s) ==
  IF s \in registered \ reading
    THEN Dies(l) /\ UNCHANGED ioVars
    ELSE /\ reading' = reading \cup {s}
         /\ registered' = registered \cup {s}
         /\ UNCHANGED phase

DisablesNothing(streams) == UNCHANGED ioVars

\* disable_io does nothing for a connection that has no interest.
DisableIo(streams) ==
  /\ reading' = reading \ streams
  /\ registered' = registered \ (streams \cap reading)

\* The poll reported s, whose connection has the key.
Ready(l, key, s) ==
  /\ phase[l] = "io" /\ key \in Keys(l)
  /\ s = slab[l][key + 1] /\ s \in registered /\ s \notin reported[l]
  /\ reported' = [reported EXCEPT ![l] = @ \cup {s}]
  /\ UNCHANGED <<acceptVars, requests, slabVars, sharedVars>>

\* The peer of a pending connection sends or closes: it is set up now.  As
\* long as there is no peer, or for another error, nothing is done.
PendingReady(l, key, s) ==
  /\ Ready(l, key, s)
  /\ Token(l, key) \in pending[l] /\ s \in connected
  /\ pending' = [pending EXCEPT ![l] = @ \ {Token(l, key)}]
  /\ established' = established \cup {s}
  /\ IF asks THEN EnableIo(l, s) ELSE UNCHANGED <<ioVars, phase>>
  /\ UNCHANGED channel

EndsSilently(l, key, s) ==
  /\ Ready(l, key, s)
  /\ Token(l, key) \notin pending[l]
  /\ DisableIo({s})
  /\ UNCHANGED <<channel, phase, setupVars>>

\* handle_read meets the end of a stream.
StreamEnds(l, key, s) ==
  /\ Ready(l, key, s)
  /\ Token(l, key) \notin pending[l]
  /\ DisableIo({s})
  /\ Send(l, Removed(Token(l, key), s))
  /\ UNCHANGED <<phase, setupVars>>

EventsDone(l) ==
  /\ phase[l] = "io"
  /\ phase' = [phase EXCEPT ![l] = "drain"]
  /\ reported' = [reported EXCEPT ![l] = {}]
  /\ UNCHANGED <<acceptVars, requests, channel, slabVars, ioVars, setupVars, sharedVars>>

----------------------------------------------------------------------------
(* The drain of a loop *)

\* The next message is of this kind.
Takes(l, kind) ==
  phase[l] = "drain" /\ channel[l] # <<>> /\ Head(channel[l]).kind = kind

Taken(l) ==
  /\ channel' = [channel EXCEPT ![l] = Tail(@)]
  /\ UNCHANGED <<acceptVars, requests, reported>>

\* Shared::add_connection, behind lock().unwrap().
Dispatch(l, token) ==
  \/ /\ poisoned
     /\ Dies(l) /\ UNCHANGED sharedVars
  \/ /\ ~poisoned /\ token \in DOMAIN shared
     /\ Dies(l) /\ poisoned' = TRUE /\ UNCHANGED shared
  \/ /\ ~poisoned /\ token \notin DOMAIN shared
     /\ shared' = [t \in DOMAIN shared \cup {token} |-> IF t = token THEN l ELSE shared[t]]
     /\ UNCHANGED <<phase, poisoned>>

\* The entry of slab that s gets.
Insert(l, key, s) ==
  /\ slab' = [slab EXCEPT ![l] = IF key = Len(@) THEN Append(@, s) ELSE [@ EXCEPT ![key + 1] = s]]
  /\ free' = [free EXCEPT ![l] = IF key = Len(slab[l]) THEN @ ELSE Tail(@)]
  /\ capacity' = [capacity EXCEPT ![l] = IF Len(slab'[l]) > @ THEN Grown(@) ELSE @]

\* add_connection
AddConnection(l, s) ==
  /\ Insert(l, VacantKey(l), s)
  /\ established' = established \cup {s} /\ UNCHANGED pending
  /\ IF asks
       THEN reading' = reading \cup {s} /\ registered' = registered \cup {s}
       ELSE UNCHANGED ioVars
  /\ Dispatch(l, Token(l, VacantKey(l)))

ConnectingIsNotPending(l, s) ==
  /\ Insert(l, VacantKey(l), s)
  /\ registered' = registered \cup {s} /\ UNCHANGED <<reading, setupVars>>
  /\ Dispatch(l, Token(l, VacantKey(l)))

\* add_connecting registers the stream and leaves interests at None.
AddConnecting(l, s) ==
  /\ Insert(l, VacantKey(l), s)
  /\ registered' = registered \cup {s} /\ UNCHANGED reading
  /\ pending' = [pending EXCEPT ![l] = @ \cup {Token(l, VacantKey(l))}]
  /\ UNCHANGED established
  /\ Dispatch(l, Token(l, VacantKey(l)))

\* A stream above the capacity is shut down and added like any other, unless
\* that fails.
RejectFails(l) ==
  /\ Cardinality(Keys(l)) = capacity[l]
  /\ Dies(l)
  /\ UNCHANGED <<slabVars, ioVars, setupVars, sharedVars>>

HandleEstablished(l) ==
  /\ Takes(l, "established")
  /\ Taken(l)
  /\ AddConnection(l, Head(channel[l]).stream) \/ RejectFails(l)

ConnectingIsLost(l) ==
  /\ Takes(l, "connecting")
  /\ Taken(l)
  /\ Head(channel[l]).stream \notin connected
  /\ UNCHANGED <<phase, slabVars, ioVars, setupVars, sharedVars>>

\* With any other error than NotConnected the stream is dropped.
DropsFailed(s) == s \in failed /\ UNCHANGED <<phase, slabVars, ioVars, setupVars, sharedVars>>

HandleConnecting(l) ==
  /\ Takes(l, "connecting")
  /\ Taken(l)
  /\ LET s == Head(channel[l]).stream
     IN  \/ s \in connected /\ AddConnection(l, s)
         \/ s \notin connected \cup failed /\ AddConnecting(l, s)
         \/ s \notin failed /\ RejectFails(l)
         \/ DropsFailed(s)

ForgetsNothing(l, token) == UNCHANGED <<phase, sharedVars>>

\* A log line unwraps the address of the peer, which may be gone by now; the
\* logger may skip the line.
LogsPeer(l) == phase' \in {phase, [phase EXCEPT ![l] = "no peer"]}

\* Shared::remove_connection, behind lock().unwrap(), and what follows it.
Forget(l, token) ==
  IF poisoned
    THEN Dies(l) /\ UNCHANGED sharedVars
    ELSE /\ shared' = [t \in DOMAIN shared \ {token} |-> shared[t]]
         /\ UNCHANGED poisoned
         /\ LogsPeer(l)

StaysRegistered(s) == UNCHANGED ioVars

\* A stream that is dropped is closed, and leaves the selector.
Drop(s) == reading' = reading \ {s} /\ registered' = registered \ {s}

\* remove_connection.  Slab::remove panics on a vacant key.
HandleRemoved(l) ==
  /\ Takes(l, "removed")
  /\ Taken(l)
  /\ UNCHANGED <<capacity, setupVars>>
  /\ LET key == Head(channel[l]).token - l * Cap
     IN  IF key \in Keys(l)
           THEN /\ slab' = [slab EXCEPT ![l][key + 1] = None]
                /\ free' = [free EXCEPT ![l] = <<key>> \o @]
                /\ Drop(slab[l][key + 1])
                /\ Forget(l, Head(channel[l]).token)
           ELSE Dies(l) /\ UNCHANGED <<slab, free, ioVars, sharedVars>>

\* Enable, for whoever has the token now.
HandleEnable(l) ==
  /\ Takes(l, "enable")
  /\ Taken(l)
  /\ LET key == Head(channel[l]).token - l * Cap
     IN  IF key \in Keys(l) THEN EnableIo(l, slab[l][key + 1]) ELSE UNCHANGED <<ioVars, phase>>
  /\ UNCHANGED <<slabVars, setupVars, sharedVars>>

StopDropsTheRest(l) ==
  /\ Takes(l, "stop")
  /\ channel' = [channel EXCEPT ![l] = <<>>]
  /\ DisableIo(Connections(l))
  /\ phase' = [phase EXCEPT ![l] = "io"]
  /\ UNCHANGED <<acceptVars, requests, reported, slabVars, setupVars, sharedVars>>

\* graceful_shutdown, and the drain breaks off.
HandleStop(l) ==
  /\ Takes(l, "stop")
  /\ Taken(l)
  /\ DisableIo(Connections(l))
  /\ phase' = [phase EXCEPT ![l] = "io"]
  /\ UNCHANGED <<slabVars, setupVars, sharedVars>>

DrainEmpty(l) ==
  /\ phase[l] = "drain" /\ channel[l] = <<>>
  /\ phase' = [phase EXCEPT ![l] = "io"]
  /\ UNCHANGED <<acceptVars, requests, channel, reported, slabVars, ioVars, setupVars, sharedVars>>

----------------------------------------------------------------------------
\* After TcpServer::start, or ConnectorService::start.
Init ==
  /\ role \in Roles /\ asks \in BOOLEAN
  /\ accepted = 0 /\ acceptor = "on" /\ letters = 0 /\ requests = 0
  /\ connected = {} /\ failed = {}
  /\ channel = [l \in Loops |-> <<>>]
  /\ phase = [l \in Loops |-> "io"]
  /\ reported = [l \in Loops |-> {}]
  /\ slab = [l \in Loops |-> <<>>]
  /\ free = [l \in Loops |-> <<>>]
  /\ capacity = [l \in Loops |-> Cap]
  /\ reading = {} /\ registered = {}
  /\ pending = [l \in Loops |-> {}] /\ established = {}
  /\ shared = [t \in {} |-> 0] /\ poisoned = FALSE

IoEvent(l) ==
  \E key \in 0 .. Len(slab[l]) - 1 :
    \E s \in {slab[l][key + 1]} : PendingReady(l, key, s) \/ StreamEnds(l, key, s)

LoopStep(l) ==
  \/ EventsDone(l)
  \/ HandleEstablished(l)
  \/ HandleConnecting(l)
  \/ HandleRemoved(l)
  \/ HandleEnable(l)
  \/ HandleStop(l)
  \/ DrainEmpty(l)

Next ==
  \/ Accept
  \/ Connect
  \/ \E s \in Streams : PeerConnects(s) \/ PeerFails(s)
  \/ DeadLetter
  \/ Shutdown
  \/ \E l \in Loops :
       \/ \E key \in 0 .. Len(slab[l]) - 1 : Request(l, Token(l, key))
       \/ IoEvent(l)
       \/ LoopStep(l)

Spec == Init /\ [][Next]_vars

\* Every loop runs.
FairSpec == Spec /\ \A l \in Loops : WF_vars(LoopStep(l))

----------------------------------------------------------------------------
(* Properties *)

TypeOK ==
  /\ role \in Roles /\ asks \in BOOLEAN
  /\ accepted \in 0 .. MaxStreams /\ acceptor \in {"on", "down", "dead"}
  /\ letters \in 0 .. MaxLetters /\ requests \in 0 .. MaxRequests
  /\ connected \subseteq Streams /\ failed \subseteq Streams /\ established \subseteq Streams
  /\ channel \in [Loops -> Seq({Stop} \cup [kind : {"established", "connecting"}, stream : Streams]
                                \cup [kind : {"removed"}, token : Nat, stream : Streams]
                                \cup [kind : {"enable"}, token : Nat])]
  /\ phase \in [Loops -> {"io", "drain", "dead", "no peer"}]
  /\ reported \in [Loops -> SUBSET Streams]
  /\ slab \in [Loops -> Seq(Streams \cup {None})]
  /\ free \in [Loops -> Seq(Nat)]
  /\ capacity \in [Loops -> Nat]
  /\ pending \in [Loops -> SUBSET Nat]
  /\ registered \subseteq UNION {Connections(l) : l \in Loops} /\ reading \subseteq registered
  /\ DOMAIN shared \subseteq Nat /\ \A t \in DOMAIN shared : shared[t] \in Loops
  /\ poisoned \in BOOLEAN

\* The table tells exactly which loop has the connection of each token: no
\* entry is stale and none is missing, however tokens are used again.
SharedAgrees ==
  \A l \in Loops : Alive(l) => {t \in DOMAIN shared : shared[t] = l} = Tokens(l)

\* The callbacks that wait for a peer are those of exactly the connections that
\* have not been set up: none is left behind for the next owner of its token,
\* and none is missing (pendings, which is keyed by token).
PendingAgrees ==
  \A l \in Loops :
    pending[l] = {Token(l, k) : k \in {j \in Keys(l) : slab[l][j + 1] \notin established}}

Ending(l, s) == \E i \in DOMAIN channel[l] :
                  channel[l][i].kind = "removed" /\ channel[l][i].stream = s

\* No stream is lost on its way, whatever tokens clash and locks are poisoned:
\* from the moment next_loop has chosen a loop for it, it is in the channel of
\* that very loop or in its slab until it has been set up, or the loop has
\* ended, or there is no address to be had from the socket.
Chosen(s) == (s - 1) % PoolSize

NoStreamLost ==
  \A s \in 1 .. accepted :
    LET l == Chosen(s)
    IN  Alive(l) /\ s \notin failed => Queued(l, s) \/ s \in Connections(l) \/ s \in established

\* No connection sits in a slab unwatched.  Before a shutdown, if
\* on_established asks for input, the selector watches each connection, for
\* input once it has been set up, or it has ended and its Removed is on the
\* way, and its loop will come to it: enable_io, disable_io and the messages
\* between them leave no gap.
NoneStranded ==
  asks /\ acceptor = "on" =>
    \A l \in Loops : Alive(l) => \A s \in Connections(l) :
      \/ Ending(l, s)
      \/ s \in registered /\ (s \in established => s \in reading)

\* As long as no loop of a server has more connections than it has room for,
\* a loop ends only because the peer whose address it logs is gone: never for a
\* token in use, a lock that is poisoned, or a key that is vacant already, also
\* not in the loops that go on after another one has ended.
EndsOnlyWithoutPeer == role = "server" => \A l \in Loops : phase[l] # "dead"

\* "Connection already dispatched!" (Shared::add_connection) does not happen.
DispatchedOnce == ~poisoned

\* "Now the stream can be used." (src/connector.rs): a connection that has been
\* set up may ask for its input without ending its loop.
ConnectedIsUsable == \A l \in Loops : phase[l] # "dead"

\* What a stream's Removed removes is that stream, not a later one that got
\* its token, and it is not removed twice.
RemovesItsOwn ==
  [][\A l \in Loops : HandleRemoved(l) =>
       LET msg == Head(channel[l])
       IN  msg.token - l * Cap \in Keys(l)
           /\ slab[l][msg.token - l * Cap + 1] = msg.stream]_vars

\* All loops together, with the tokens of their slabs, are one StreamTable:
\* no two streams have a token at the same time, and each stream gets one
\* once, is set up once, and not before that closed.
AllTokens == UNION {Tokens(l) : l \in Loops}

Holder(t) == CHOOSE s \in Streams :
               \E l \in Loops : \E k \in Keys(l) : t = Token(l, k) /\ s = slab[l][k + 1]

Table == INSTANCE StreamTable WITH
           TokenRange <- 0 .. PoolSize * Cap - 1,
           holder <- [t \in AllTokens |-> Holder(t)],
           setup <- established,
           known <- established \cup UNION {Connections(l) : l \in Loops}

ImplementsTable == Table!Spec

\* Every stream that is handed over becomes a connection in the end, unless
\* its loop ends with it in its channel, or its socket fails before.
EveryStreamIsServed ==
  \A s \in Streams :
    Queued(Chosen(s), s)
      ~> \/ s \in failed \cup Connections(Chosen(s))
         \/ Queued(Chosen(s), s) /\ ~Alive(Chosen(s))

\* A connection whose stream has ended is forgotten, by its loop and by the
\* table, unless its loop ends.
Forgotten(l, s) ==
  s \notin Connections(l) /\ {t \in DOMAIN shared : shared[t] = l} = Tokens(l)

EndedIsForgotten ==
  \A s \in Streams :
    Ending(Chosen(s), s) ~> Forgotten(Chosen(s), s) \/ ~Alive(Chosen(s))

=============================================================================
