---------------------------- MODULE MCTimerTasks ----------------------------
(* Timed callbacks for TLC: see the MCTimerTasks*.cfg files for the sizes. *)
EXTENDS TimerTasks

=============================================================================
