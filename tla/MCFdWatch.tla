----------------------------- MODULE MCFdWatch -----------------------------
(***************************************************************************)
(* An instance of FdWatch small enough for TLC.                            *)
(***************************************************************************)
EXTENDS FdWatch

CONSTANT someone

MCClient == {someone}
=============================================================================
