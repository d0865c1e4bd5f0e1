-------------------------- MODULE TimerServiceProofs --------------------------
(***************************************************************************)
(* What the timer service does tick by tick is a way of doing what its      *)
(* coarse view allows: see TimerService.                                    *)
(***************************************************************************)
EXTENDS TimerService, TLAPS

\* No waiting timer is due in a tick that has been served.
Waiting ==
  /\ tick \in Nat
  /\ DOMAIN due = Marks
  /\ \A m \in Marks : Armed(m) => due[m] \in Nat /\ due[m] >= tick

LEMMA WaitingInit == Init => Waiting
BY DEF Init, Waiting, Armed

\* What is done for one mark leaves the others as they were.
LEMMA OthersWait ==
  ASSUME Waiting, NEW m \in Marks, NEW d, due' = [due EXCEPT ![m] = d],
         d = Idle \/ (d \in Nat /\ d >= tick), UNCHANGED tick
  PROVE  Waiting' /\ NonePassed
<1>1. \A k \in Marks : due'[k] = IF k = m THEN d ELSE due[k]
  BY DEF Waiting
<1>2. DOMAIN due' = Marks /\ tick' \in Nat /\ tick' >= tick
  BY DEF Waiting
<1>3. \A k \in Marks : due'[k] # Idle => due'[k] \in Nat /\ due'[k] >= tick'
  BY <1>1 DEF Waiting, Armed
<1> QED  BY <1>2, <1>3 DEF Waiting, NonePassed, Armed

LEMMA WaitingStep ==
  ASSUME Waiting, [Next]_vars
  PROVE  Waiting' /\ [CoarseNext]_vars
<1>1. CASE Elapse
  <2>1. \A m \in Marks : Armed(m) => due[m] \in Nat /\ due[m] >= tick + 1
    BY <1>1 DEF Elapse, Waiting
  <2>2. tick' = tick + 1 /\ tick' \in Nat /\ tick' >= tick /\ UNCHANGED due
    BY <1>1 DEF Elapse, Waiting
  <2> QED  BY <2>1, <2>2 DEF Waiting, CoarseNext, NonePassed, Armed
<1>2. ASSUME NEW m \in Marks, Arm(m) \/ Cancel(m) \/ Fire(m), UNCHANGED tick
      PROVE  Waiting' /\ [CoarseNext]_vars
  <2>1. \E d : /\ due' = [due EXCEPT ![m] = d]
               /\ d = Idle \/ (d \in Nat /\ d >= tick)
    <3>1. CASE Arm(m)
      <4>1. due' = [due EXCEPT ![m] = due'[m]] /\ due'[m] \in Nat /\ due'[m] > tick
        BY <3>1 DEF Arm, Sets
      <4> QED  BY <4>1 DEF Waiting
    <3>2. CASE Cancel(m) \/ Fire(m)
      BY <3>2 DEF Cancel, Fire
    <3> QED  BY <1>2, <3>1, <3>2
  <2>2. Waiting' /\ NonePassed
    BY <1>2, <2>1, OthersWait
  <2> QED  BY <1>2, <2>2 DEF CoarseNext
<1>3. CASE UNCHANGED vars
  BY <1>3 DEF vars, Waiting, Armed
<1> QED  BY <1>1, <1>2, <1>3 DEF Next

\* A user who does not see the ticks sees no timer passed either: the service
\* is a way of doing what its coarse view allows (tick_to, src/timer.rs).
THEOREM ServiceIsCoarse == Spec => CoarseSpec
<1>1. Init /\ [][Next]_vars => []Waiting
  BY WaitingInit, WaitingStep, PTL
<1>2. Waiting /\ [Next]_vars => [CoarseNext]_vars
  BY WaitingStep
<1> QED  BY <1>1, <1>2, PTL DEF Spec, CoarseSpec

=============================================================================
