------------------------------ MODULE BytePipe ------------------------------
(***************************************************************************)
(* What the writing side of a TcpConnection promises                        *)
(* (src/tcp_connection.rs), with no buffer, interests or selector in it:    *)
(* the bytes given to send reach the socket in order, each once, and none   *)
(* after the stream has been shut down or reset; and whenever the socket    *)
(* has taken all of them one WriteComplete is posted, and no other time.    *)
(***************************************************************************)
EXTENDS Naturals, Sequences

VARIABLES
  given,   \* how many bytes send was given; the n-th is the number n
  got,     \* what the socket has taken
  open,    \* neither shut down nor reset
  notes    \* WriteCompletes that have not been handled

pipeVars == <<given, got, open, notes>>

Bytes(n) == [i \in 1 .. n |-> i]

Init == given = 0 /\ got = <<>> /\ open = TRUE /\ notes = 0

\* Some more of what is given passes, in order.
Passes ==
  /\ got' = Bytes(Len(got'))
  /\ Len(got) <= Len(got') /\ Len(got') <= given'

\* A call of send; h = 1 if in an on_write_complete.  Nothing passes what waits.
Give(h) ==
  /\ given' \in Nat /\ given <= given'
  /\ Passes
  /\ Len(got) < Len(got') => open /\ Len(got) = given
  /\ \/ /\ Len(got') < given' \/ given' = given
        /\ notes' = notes - h
        /\ UNCHANGED open
     \/ /\ open /\ Len(got') = given'
        /\ notes' = (notes - h) + 1
        /\ UNCHANGED open
     \/ /\ Len(got) < Len(got') /\ Len(got') < given'
        /\ notes' = notes - h
        /\ open' = FALSE

\* A part of what waits passes, up to a failure, or all of it.
Flush ==
  /\ open
  /\ UNCHANGED given
  /\ Passes
  /\ \/ Len(got') = given /\ notes' = notes + 1 /\ UNCHANGED open
     \/ Len(got') < given /\ open' \in BOOLEAN /\ UNCHANGED notes

\* A shutdown, also in an on_write_complete, or a reset.
Close(h) ==
  /\ open' = FALSE
  /\ notes' = notes - h
  /\ UNCHANGED <<given, got>>

Handled ==
  /\ notes > 0
  /\ notes' = notes - 1
  /\ UNCHANGED <<given, got, open>>

Next ==
  \/ \E h \in {0, 1} : h <= notes /\ (Give(h) \/ Close(h))
  \/ Flush
  \/ Handled

Spec == Init /\ [][Next]_pipeVars

=============================================================================
