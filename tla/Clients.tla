------------------------------ MODULE Clients ------------------------------
(***************************************************************************)
(* What tweb promises the clients that connect to it, seen from the        *)
(* descriptors accept() returns and nothing else: a descriptor is open     *)
(* from accept() to close(), at most MaxConnects are open, and an open one *)
(* goes from its request to its reply to a lingering close, may skip       *)
(* stages, and never goes back.  Connections implements it, and EventLoop  *)
(* its liveness.                                                           *)
(***************************************************************************)
EXTENDS Naturals, FiniteSets

CONSTANTS Fds, MaxConnects

VARIABLE stage

Stage == {"closed", "request", "reply", "drain"}

Open == {fd \in Fds : stage[fd] # "closed"}

Init == stage = [fd \in Fds |-> "closed"]

Arrive(fd) ==
  /\ stage[fd] = "closed"
  /\ Cardinality(Open) < MaxConnects
  /\ stage' = [stage EXCEPT ![fd] = "request"]

Reply(fd) ==
  /\ stage[fd] = "request"
  /\ stage' = [stage EXCEPT ![fd] = "reply"]

Drain(fd) ==
  /\ stage[fd] \in {"request", "reply"}
  /\ stage' = [stage EXCEPT ![fd] = "drain"]

Leave(fd) ==
  /\ stage[fd] # "closed"
  /\ stage' = [stage EXCEPT ![fd] = "closed"]

Next == \E fd \in Fds : Arrive(fd) \/ Reply(fd) \/ Drain(fd) \/ Leave(fd)

Spec == Init /\ [][Next]_stage

\* No client can hold a descriptor for ever.
EveryClientLeaves == \A fd \in Fds : stage[fd] # "closed" ~> stage[fd] = "closed"
=============================================================================
