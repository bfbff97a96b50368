----------------------------- MODULE MCLockout ------------------------------
(***************************************************************************)
(* An instance of Lockout small enough for TLC.                            *)
(***************************************************************************)
EXTENDS Lockout

CONSTANTS s1, s2, u1, u2

TwoServers == {s1, s2}
TwoUsers == {u1, u2}
=============================================================================
