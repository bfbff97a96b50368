-------------------------------- MODULE Children -------------------------------
(***************************************************************************)
(* The processes tweb starts for its clients, as the main process counts,  *)
(* reaps and kills them: cgi() and ls() of libhttpd.c take a place under   *)
(* cgi_limit and fork, handle_chld of tweb.c gives places back when SIGCHLD*)
(* arrives, cgi_kill and cgi_kill2 are timers on a pid.  Module Cgi adds   *)
(* what the child of a CGI request does.                                   *)
(*                                                                         *)
(* The signal may arrive between any two steps of the main process, also   *)
(* in the middle of ++cgi_count where the build makes it a load and a      *)
(* store.  Time is abstracted: a timer may run at any moment.              *)
(***************************************************************************)
EXTENDS Integers, FiniteSets

CONSTANTS
  Pids,                 \* process ids the kernel gives to children
  cgi_limit,            \* 0 for no limit
  MaxTimers             \* bound: timers that may be waiting for each pid

ASSUME ChildrenAssumption ==
  /\ IsFiniteSet(Pids)
  /\ cgi_limit \in Nat
  /\ MaxTimers \in [Pids -> Nat \ {0}]

VARIABLES
  cgi_count,            \* hs->cgi_count
  step,                 \* where the main process is in cgi() or ls()
  loaded,               \* what ++cgi_count has read, while it runs
  child,                \* what the kernel knows of each pid
  chld_pending,         \* SIGCHLD is waiting to be delivered
  int_timers,           \* cgi_kill timers for each pid
  kill_timers           \* cgi_kill2 timers for each pid

timerVars == <<int_timers, kill_timers>>
childVars == <<cgi_count, step, loaded, child, chld_pending, timerVars>>

\* Children that run or are not yet reaped.
Alive == {p \in Pids : child[p] # "none"}

ChildrenInit ==
  /\ cgi_count = 0
  /\ step = "idle"
  /\ loaded = 0
  /\ child = [p \in Pids |-> "none"]
  /\ chld_pending = FALSE
  /\ int_timers = [p \in Pids |-> 0]
  /\ kill_timers = [p \in Pids |-> 0]

-----------------------------------------------------------------------------
(***************************************************************************)
(* cgi() and ls(): check the limit, count, fork, set the kill timer.       *)
(***************************************************************************)
\* The answer to a request for a program is 503.
Refuses == cgi_limit # 0 /\ cgi_count >= cgi_limit

Refuse ==
  /\ step = "idle"
  /\ Refuses
  /\ UNCHANGED childVars

LoadCount ==
  /\ step = "idle"
  /\ ~Refuses
  /\ loaded' = cgi_count
  /\ step' = "counting"
  /\ UNCHANGED <<cgi_count, child, chld_pending, timerVars>>

StoreCount ==
  /\ step = "counting"
  /\ cgi_count' = loaded + 1
  /\ loaded' = 0
  /\ step' = "counted"
  /\ UNCHANGED <<child, chld_pending, timerVars>>

\* fork() fails: 500, and the count stays as it is.
ForkFails ==
  /\ step = "counted"
  /\ step' = "idle"
  /\ UNCHANGED <<cgi_count, loaded, child, chld_pending, timerVars>>

Fork(p) ==
  /\ step = "counted"
  /\ child[p] = "none"
  /\ int_timers[p] + kill_timers[p] < MaxTimers[p]
  /\ child' = [child EXCEPT ![p] = "running"]
  /\ int_timers' = [int_timers EXCEPT ![p] = @ + 1]
  /\ step' = "idle"
  /\ UNCHANGED <<cgi_count, loaded, chld_pending, kill_timers>>

(***************************************************************************)
(* The kernel: a child ends, SIGCHLD becomes pending.                      *)
(***************************************************************************)
ChildEnds(p) ==
  /\ child[p] = "running"
  /\ child' = [child EXCEPT ![p] = "zombie"]
  /\ chld_pending' = TRUE
  /\ UNCHANGED <<cgi_count, step, loaded, timerVars>>

(***************************************************************************)
(* handle_chld: reap every zombie, one decrement each, never below zero.   *)
(***************************************************************************)
Zombies == {p \in Pids : child[p] = "zombie"}
Lowered(count, n) == IF count < n THEN 0 ELSE count - n

\* Mutant: one signal, one child.
HandleChldOnce ==
  /\ chld_pending
  /\ chld_pending' = FALSE
  /\ Zombies # {}
  /\ \E p \in Zombies : child' = [child EXCEPT ![p] = "none"]
  /\ cgi_count' = Lowered(cgi_count, 1)
  /\ UNCHANGED <<step, loaded, timerVars>>

\* Mutant: the signal gives a place back whether or not a child is reaped.
HandleChldTwice ==
  /\ chld_pending
  /\ chld_pending' = FALSE
  /\ child' = [p \in Pids |-> IF p \in Zombies THEN "none" ELSE child[p]]
  /\ cgi_count' = Lowered(cgi_count, Cardinality(Zombies) + 1)
  /\ UNCHANGED <<step, loaded, timerVars>>

HandleChld ==
  /\ chld_pending
  /\ chld_pending' = FALSE
  /\ child' = [p \in Pids |-> IF p \in Zombies THEN "none" ELSE child[p]]
  /\ cgi_count' = Lowered(cgi_count, Cardinality(Zombies))
  /\ UNCHANGED <<step, loaded, timerVars>>

(***************************************************************************)
(* The kill timers, which name a pid and nothing else.  A program may      *)
(* survive SIGINT; kill() succeeds for a zombie too.                       *)
(***************************************************************************)
Killed(p, dies) ==
  IF child[p] = "running" /\ dies
    THEN /\ child' = [child EXCEPT ![p] = "zombie"]
         /\ chld_pending' = TRUE
    ELSE UNCHANGED <<child, chld_pending>>

CgiKill(p, dies) ==
  /\ step = "idle"
  /\ int_timers[p] > 0
  /\ int_timers' = [int_timers EXCEPT ![p] = @ - 1]
  /\ kill_timers' = IF child[p] = "none" THEN kill_timers
                    ELSE [kill_timers EXCEPT ![p] = @ + 1]
  /\ Killed(p, dies)
  /\ UNCHANGED <<cgi_count, step, loaded>>

CgiKill2(p) ==
  /\ step = "idle"
  /\ kill_timers[p] > 0
  /\ kill_timers' = [kill_timers EXCEPT ![p] = @ - 1]
  /\ Killed(p, TRUE)
  /\ UNCHANGED <<cgi_count, step, loaded, int_timers>>

ChildrenNext ==
  \/ Refuse
  \/ LoadCount
  \/ StoreCount
  \/ ForkFails
  \/ HandleChld
  \/ \E p \in Pids :
       \/ Fork(p)
       \/ ChildEnds(p)
       \/ \E dies \in BOOLEAN : CgiKill(p, dies)
       \/ CgiKill2(p)

ChildrenSpec == ChildrenInit /\ [][ChildrenNext]_childVars

-----------------------------------------------------------------------------
(***************************************************************************)
(* Properties.                                                             *)
(***************************************************************************)
\* The variables keep their types, and the count stays within the limit.
ChildrenTypeOK ==
  /\ cgi_count \in Nat
  /\ cgi_limit # 0 => cgi_count <= cgi_limit
  /\ step \in {"idle", "counting", "counted"}
  /\ loaded \in Nat
  /\ child \in [Pids -> {"none", "running", "zombie"}]
  /\ chld_pending \in BOOLEAN
  /\ int_timers \in [Pids -> Nat]
  /\ kill_timers \in [Pids -> Nat]

\* Wherever SIGCHLD cuts in, the count covers every child that is not yet
\* reaped, and what is about to be stored covers it too: the handler never
\* gives back a place that a living child holds.
CountCoversChildren ==
  /\ cgi_count >= Cardinality(Alive)
  /\ step = "counting" => loaded >= Cardinality(Alive)
  /\ step = "counted" => cgi_count >= Cardinality(Alive) + 1

\* Never more programs at once than cgi_limit allows (config.h, CGI_LIMIT),
\* counting the one that is about to be forked.
NeverOverLimit ==
  cgi_limit # 0 =>
    Cardinality(Alive) + (IF step = "counted" THEN 1 ELSE 0) <= cgi_limit
================================================================================
