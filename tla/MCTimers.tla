------------------------------ MODULE MCTimers ------------------------------
(***************************************************************************)
(* Instances of Timers small enough for TLC.                               *)
(***************************************************************************)
EXTENDS Timers

ShortDelays == {1, 2}
MayLinger == BOOLEAN
=============================================================================
