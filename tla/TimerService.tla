---------------------------- MODULE TimerService ----------------------------
(***************************************************************************)
(* What the timer wheel of src/timer.rs promises, with no wheel in it: each *)
(* armed timer has one due tick in the future, it fires in exactly that     *)
(* tick, it fires once, and the tick counter does not move past a timer     *)
(* that is still waiting.                                                   *)
(***************************************************************************)
EXTENDS Naturals

CONSTANTS
  Marks,    \* the tokens timers are armed with
  Idle      \* the due tick of a mark that has no timer, which none is due in

VARIABLES
  due,      \* due[m]: the tick the timer of mark m must fire in
  tick      \* the current tick

vars == <<due, tick>>

Armed(m) == due[m] # Idle

Init ==
  /\ due = [m \in Marks |-> Idle]
  /\ tick = 0

\* m is to fire in some tick that has not been served yet.
Sets(m) ==
  /\ due'[m] \in Nat
  /\ due'[m] > tick
  /\ due' = [due EXCEPT ![m] = due'[m]]

Arm(m) ==
  /\ ~Armed(m)
  /\ Sets(m)

Cancel(m) ==
  /\ Armed(m)
  /\ due' = [due EXCEPT ![m] = Idle]

Fire(m) ==
  /\ Armed(m) /\ due[m] = tick
  /\ due' = [due EXCEPT ![m] = Idle]

Elapse ==
  /\ \A m \in Marks : Armed(m) => due[m] # tick
  /\ tick' = tick + 1
  /\ UNCHANGED due

Next ==
  \/ Elapse
  \/ /\ \E m \in Marks : Arm(m) \/ Cancel(m) \/ Fire(m)
     /\ UNCHANGED tick

Spec == Init /\ [][Next]_vars

----------------------------------------------------------------------------
(* The service as a user sees it who does not watch the ticks go by: they   *)
(* pass together with what is done, but never past a waiting timer, and a   *)
(* timer may be armed again by what it fires.                               *)

Again(m) ==
  /\ Armed(m) /\ due[m] = tick
  /\ Sets(m)

NonePassed ==
  /\ tick' \in Nat /\ tick' >= tick
  /\ \A m \in Marks : due'[m] # Idle => due'[m] >= tick'

CoarseNext ==
  /\ \/ \E m \in Marks : Arm(m) \/ Cancel(m) \/ Fire(m) \/ Again(m)
     \/ UNCHANGED due
  /\ NonePassed

CoarseSpec == Init /\ [][CoarseNext]_vars
=============================================================================
