-------------------------------- MODULE MCCgi ---------------------------------
(***************************************************************************)
(* Instances of Cgi for TLC.  Three requests: nothing of the body is in the*)
(* read buffer and the output has no blank line; the body is longer than   *)
(* Content-Length and the program is nph-; the body is partly in the       *)
(* buffer and the headers of the program end with its first unit.          *)
(***************************************************************************)
EXTENDS Cgi, TLC

Post(leftover, length, size, mime, blank) ==
  [post |-> TRUE, leftover |-> leftover, length |-> length, size |-> size,
   mime |-> mime, blank |-> blank]

\* A pid may come back while a timer of its last owner waits, the other not.
MCMaxTimers == 1 :> 2 @@ 2 :> 1

MCRequests ==
  {Post(0, 1, 1, TRUE, 0), Post(1, 1, 2, FALSE, 0), Post(1, 2, 2, TRUE, 1)}
================================================================================
