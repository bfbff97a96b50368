----------------------------- MODULE WatchList -----------------------------
(***************************************************************************)
(* What fdwatch.c promises its callers: a set of watched descriptors, each *)
(* with a direction and its client data; the descriptors the last poll     *)
(* found ready, each handed out once; and, for a descriptor watched since  *)
(* before that poll, whether the poll found it ready for its direction:    *)
(* one with an error is handed out too.  FdWatch implements it.            *)
(***************************************************************************)
CONSTANTS Fd, Client

VARIABLES
  watch,                \* direction and client data of each descriptor
  ready,                \* found ready by the last poll, not handed out yet
  said                  \* what the last poll said about each

wvars == <<watch, ready, said>>

Nothing == [rw |-> "NONE", data |-> "NULL"]
Watched == {fd \in Fd : watch[fd] # Nothing}

Init ==
  /\ watch = [fd \in Fd |-> Nothing]
  /\ ready = {}
  /\ said = [fd \in Fd |-> "not asked"]

Add(fd) ==
  /\ fd \notin Watched
  /\ \E rw \in {"READ", "WRITE"}, data \in Client :
       watch' = [watch EXCEPT ![fd] = [rw |-> rw, data |-> data]]
  /\ UNCHANGED <<ready, said>>

Delete(fd) ==
  /\ fd \in Watched
  /\ watch' = [watch EXCEPT ![fd] = Nothing]
  /\ said' = [said EXCEPT ![fd] = "not asked"]
  /\ UNCHANGED ready

Poll ==
  /\ said' \in [Fd -> {"ready", "not ready", "not asked"}]
  /\ \A fd \in Fd : said'[fd] = "not asked" <=> fd \notin Watched
  /\ ready' \in SUBSET Watched
  /\ \A fd \in Fd : said'[fd] = "ready" => fd \in ready'
  /\ UNCHANGED watch

PollFails ==
  /\ ready' = {}
  /\ UNCHANGED <<watch, said>>

HandOut(fd) ==
  /\ fd \in ready
  /\ ready' = ready \ {fd}
  /\ UNCHANGED <<watch, said>>

Next ==
  \/ \E fd \in Fd : Add(fd) \/ Delete(fd) \/ HandOut(fd)
  \/ Poll \/ PollFails

Spec == Init /\ [][Next]_wvars
=============================================================================
