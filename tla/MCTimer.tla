------------------------------ MODULE MCTimer ------------------------------
(* The timer wheel for TLC.  Nothing distinguishes one mark from another,   *)
(* and only safety is checked under this symmetry.                          *)
EXTENDS Timer, TLC

MarkSymmetry == Permutations(Marks)

=============================================================================
