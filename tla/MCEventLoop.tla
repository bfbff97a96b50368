---------------------------- MODULE MCEventLoop ----------------------------
(***************************************************************************)
(* Instances of EventLoop small enough for TLC.                            *)
(***************************************************************************)
EXTENDS EventLoop

CONSTANTS fd1, fd2

MCFds == {fd1, fd2}
NoThrottles == {}
=============================================================================
