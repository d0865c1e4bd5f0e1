----------------------------- MODULE StreamTable -----------------------------
(***************************************************************************)
(* What a pool of Dispatchers promises about streams and tokens             *)
(* (src/tcp_server.rs): a stream gets a token once, one that no other       *)
(* stream has at that time, in any loop; it is set up once, and it gives    *)
(* its token back only after that.                                          *)
(***************************************************************************)
CONSTANTS Streams, TokenRange

VARIABLES
  holder,   \* from the tokens in use to streams
  setup,    \* the streams whose setup callback has run
  known     \* the streams that have, or had, a token

tableVars == <<holder, setup, known>>

Init ==
  /\ holder = [t \in {} |-> 0]
  /\ setup = {} /\ known = {}

\* An established stream is set up at once, one that is connecting later.
Open(s, t) ==
  /\ s \notin known /\ known' = known \cup {s}
  /\ setup' = setup \/ setup' = setup \cup {s}
  /\ t \notin DOMAIN holder
  /\ holder' = [u \in DOMAIN holder \cup {t} |-> IF u = t THEN s ELSE holder[u]]

SetUp(t) ==
  /\ t \in DOMAIN holder /\ holder[t] \notin setup
  /\ setup' = setup \cup {holder[t]}
  /\ UNCHANGED <<known, holder>>

Close(t) ==
  /\ UNCHANGED <<setup, known>>
  /\ t \in DOMAIN holder /\ holder[t] \in setup
  /\ holder' = [u \in DOMAIN holder \ {t} |-> holder[u]]

Next ==
  \/ \E s \in Streams, t \in TokenRange : Open(s, t)
  \/ \E t \in DOMAIN holder : SetUp(t) \/ Close(t)

Spec == Init /\ [][Next]_tableVars

=============================================================================
