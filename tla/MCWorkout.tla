------------------------------ MODULE MCWorkout ------------------------------
(* A short workout of two rounds for TLC. *)
EXTENDS Workout

TwoRounds == <<1, 3, 1, 3, 2, 1, 2, 1, 1>>
Other == {<<2, 1>>}
=============================================================================
