------------------------------- MODULE MCLife -------------------------------
(***************************************************************************)
(* An instance of Life small enough for TLC.                               *)
(***************************************************************************)
EXTENDS Life
=============================================================================
