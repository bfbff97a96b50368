--------------------------- MODULE MCConnections ---------------------------
(***************************************************************************)
(* Instances of Connections small enough for TLC.                          *)
(***************************************************************************)
EXTENDS Connections, TLC

CONSTANTS fd1, fd2, fd3

MCFds == {fd1, fd2, fd3}
ThreeThrottles == 0 .. 2

\* Descriptors are only compared for equality.
FdSymmetry == Permutations(MCFds)
=============================================================================
