----------------------------- MODULE EventLoop -----------------------------
(***************************************************************************)
(* The main loop of tweb (tweb.c): poll, accept, serve, run the timers,    *)
(* look at got_usr1.  It drives the handlers of Connections in the order   *)
(* of the code, from the list of ready descriptors that the last poll()    *)
(* left, which is stale as soon as a handler closes or opens one.          *)
(*                                                                         *)
(* Abstracted: poll() may report any set of the descriptors it watches, in *)
(* any order; a timer that is scheduled is due at a time of its choice; a  *)
(* signal arrives between two steps.                                       *)
(***************************************************************************)
EXTENDS Connections

CONSTANT Listeners      \* listen sockets: listen6_fd and listen4_fd

ASSUME ListenersAssumption == Listeners \in Nat \ {0}

VARIABLES
  loop,                 \* where main() is
  ready,                \* descriptors poll() reported and not yet taken
  listening,            \* ready listen sockets still to be handled
  accepted,             \* handle_newconnect has accepted a connection
  after_timers,         \* where main() goes when tmr_run returns
  cnum,                 \* the loop variable of idle
  got_usr1,
  terminate

loopVars == <<loop, ready, listening, accepted, after_timers, cnum,
              got_usr1, terminate>>
allVars == <<vars, loopVars>>

LoopPoint == {"poll", "accept", "serve", "timers", "idle", "exited"}

LoopInit ==
  /\ Init
  /\ loop = "poll"
  /\ ready = {}
  /\ listening = 0
  /\ accepted = FALSE
  /\ after_timers = "poll"
  /\ cnum = 0
  /\ got_usr1 = FALSE
  /\ terminate = FALSE

(***************************************************************************)
(* fdwatch: with nothing ready the timers run and the loop starts again,   *)
(* without looking at got_usr1.                                            *)
(***************************************************************************)
WatchedFds == {fd \in Fds : watch[fd] # NotWatched}

Returned(fds, n) ==
  /\ ready' = fds
  /\ listening' = n
  /\ accepted' = FALSE
  /\ after_timers' = "poll"
  /\ loop' = IF fds = {} /\ n = 0 THEN "timers"
             ELSE IF n = 0 THEN "serve" ELSE "accept"
  /\ UNCHANGED <<cnum, got_usr1, terminate>>

MayPoll == loop = "poll" /\ ~(terminate /\ num_connects = 0)

Poll ==
  /\ MayPoll
  /\ \E fds \in SUBSET WatchedFds,
        n \in 0 .. (IF terminate THEN 0 ELSE Listeners) : Returned(fds, n)
  /\ UNCHANGED vars

\* The same, the clock having moved to the next second.
PollSecond ==
  /\ MayPoll
  /\ \E fds \in SUBSET WatchedFds,
        n \in 0 .. (IF terminate THEN 0 ELSE Listeners) : Returned(fds, n)
  /\ TimePasses

(***************************************************************************)
(* handle_newconnect, for one ready listen socket after the other.         *)
(***************************************************************************)
RunTimersThen(point) == loop' = "timers" /\ after_timers' = point

\* The table is full, or accept() fails: run the timers and go on with the
\* next listen socket, and then with the connections that are ready.
AcceptNone ==
  /\ loop = "accept" /\ listening > 0
  /\ listening' = listening - 1
  /\ accepted' = FALSE
  /\ RunTimersThen(IF listening = 1 THEN "serve" ELSE "accept")
  /\ UNCHANGED <<vars, ready, cnum, got_usr1, terminate>>

AcceptOne ==
  /\ loop = "accept" /\ listening > 0
  /\ num_connects < MaxConnects
  /\ \E fd \in Fds : NewConnect(fd)
  /\ accepted' = TRUE
  /\ UNCHANGED <<loop, ready, listening, after_timers, cnum, got_usr1,
                 terminate>>

\* The listen queue is empty: new connections get priority, poll again.  A
\* listen socket that poll() reported has a connection to accept first.
AcceptNoMore ==
  /\ loop = "accept" /\ accepted
  /\ num_connects < MaxConnects
  /\ loop' = "poll"
  /\ ready' = {}
  /\ listening' = 0
  /\ accepted' = FALSE
  /\ UNCHANGED <<vars, after_timers, cnum, got_usr1, terminate>>

(***************************************************************************)
(* The service pass: take the ready descriptors one by one and look their  *)
(* connection up in fd_data as it is now.                                  *)
(***************************************************************************)
Taking(fd) ==
  /\ loop = "serve" /\ fd \in ready
  /\ ready' = ready \ {fd}
  /\ UNCHANGED <<loop, listening, accepted, after_timers, cnum, got_usr1,
                 terminate>>

\* Nobody's descriptor any more, or a read or write to be tried again.
TakeNothing(fd) == Taking(fd) /\ UNCHANGED vars

TakeReading(fd) == Taking(fd) /\ \E c \in Conn : watch[fd].data = c /\ HandleRead(c)

TakeSending(fd) == Taking(fd) /\ \E c \in Conn : watch[fd].data = c /\ HandleSend(c)

TakeLingering(fd) ==
  Taking(fd) /\ \E c \in Conn : watch[fd].data = c /\ HandleLinger(c)

TakeFailed(fd) ==
  Taking(fd) /\ \E c \in Conn : watch[fd].data = c /\ SomethingWentWrong(c)

Served ==
  /\ loop = "serve" /\ ready = {}
  /\ RunTimersThen("check")
  /\ UNCHANGED <<vars, ready, listening, accepted, cnum, got_usr1, terminate>>

(***************************************************************************)
(* tmr_run: any of the timers that are scheduled may be due.               *)
(***************************************************************************)
TimerRuns ==
  /\ loop = "timers"
  /\ UNCHANGED loopVars

RunWakeup(c) == TimerRuns /\ WakeupConnection(c)
RunLinger(c) == TimerRuns /\ LingerClearConnection(c)
RunUpdateThrottles == TimerRuns /\ UpdateThrottles

StartIdle ==
  /\ loop = "timers"
  /\ loop' = "idle"
  /\ cnum' = 0
  /\ UNCHANGED <<vars, ready, listening, accepted, after_timers, got_usr1,
                 terminate>>

\* Mutant: every connection is cleared, overdue or not.
IdleStepHasty ==
  /\ loop = "idle"
  /\ IF conn_state[cnum] # "FREE" THEN Close(cnum) ELSE UNCHANGED vars
  /\ IF cnum + 1 < MaxConnects
       THEN cnum' = cnum + 1 /\ loop' = loop
       ELSE cnum' = 0 /\ loop' = "timers"
  /\ UNCHANGED <<ready, listening, accepted, after_timers, got_usr1,
                 terminate>>

IdleStep ==
  /\ loop = "idle"
  /\ IF Overdue(cnum) THEN Idle(cnum) ELSE UNCHANGED vars
  /\ IF cnum + 1 < MaxConnects
       THEN cnum' = cnum + 1 /\ loop' = loop
       ELSE cnum' = 0 /\ loop' = "timers"
  /\ UNCHANGED <<ready, listening, accepted, after_timers, got_usr1,
                 terminate>>

\* Mutant: got_usr1 is looked at after every tmr_run.
TimersEndEager ==
  /\ loop = "timers"
  /\ loop' = IF after_timers = "check" THEN "poll" ELSE after_timers
  /\ after_timers' = "poll"
  /\ terminate' = (terminate \/ got_usr1)
  /\ UNCHANGED <<vars, ready, listening, accepted, cnum, got_usr1>>

\* tmr_run returns.  Only at the end of a service pass does the loop look at
\* got_usr1: then it closes the listen sockets.
TimersEnd ==
  /\ loop = "timers"
  /\ loop' = IF after_timers = "check" THEN "poll" ELSE after_timers
  /\ after_timers' = "poll"
  /\ terminate' = (terminate \/ (after_timers = "check" /\ got_usr1))
  /\ UNCHANGED <<vars, ready, listening, accepted, cnum, got_usr1>>

\* Mutant: while ( ! terminate ), whoever is still connected.
ExitAtOnce ==
  /\ loop = "poll" /\ terminate
  /\ loop' = "exited"
  /\ UNCHANGED <<vars, ready, listening, accepted, after_timers, cnum,
                 got_usr1, terminate>>

\* The condition of the main loop fails.
Exit ==
  /\ loop = "poll" /\ terminate /\ num_connects = 0
  /\ loop' = "exited"
  /\ UNCHANGED <<vars, ready, listening, accepted, after_timers, cnum,
                 got_usr1, terminate>>

(***************************************************************************)
(* handle_usr1, once.                                                      *)
(***************************************************************************)
HandleUsr1 ==
  /\ loop # "exited" /\ ~got_usr1
  /\ got_usr1' = (num_connects # 0)
  /\ loop' = IF num_connects = 0 THEN "exited" ELSE loop
  /\ UNCHANGED <<vars, ready, listening, accepted, after_timers, cnum,
                 terminate>>

LoopStep ==
  \/ Poll \/ PollSecond
  \/ AcceptNone \/ AcceptOne \/ AcceptNoMore
  \/ \E fd \in Fds : \/ TakeNothing(fd) \/ TakeReading(fd) \/ TakeSending(fd)
                     \/ TakeLingering(fd) \/ TakeFailed(fd)
  \/ Served
  \/ \E c \in Conn : RunWakeup(c) \/ RunLinger(c)
  \/ RunUpdateThrottles
  \/ StartIdle \/ IdleStep
  \/ TimersEnd
  \/ Exit

LoopNext == LoopStep \/ HandleUsr1

LoopSpec == LoopInit /\ [][LoopNext]_allVars

(***************************************************************************)
(* main() keeps running, the clock advances, every tmr_run ends, and a     *)
(* linger timer or the idle timer, which are due after LINGER_TIME and     *)
(* every five seconds, is not for ever passed over by the tmr_runs.        *)
(* Nothing is assumed of the clients, of the signal or of the wakeup       *)
(* timers.                                                                 *)
(***************************************************************************)
Fairness ==
  /\ WF_allVars(LoopStep)
  /\ SF_allVars(PollSecond)
  /\ SF_allVars(StartIdle)
  /\ SF_allVars(TimersEnd)
  /\ \A c \in Conn : SF_allVars(RunLinger(c))

FairLoopSpec == LoopSpec /\ Fairness

-----------------------------------------------------------------------------
\* Every variable of the loop and of the table has its type; in particular
\* the sweep of idle never leaves the table.
LoopTypeOK ==
  /\ TypeOK
  /\ loop \in LoopPoint
  /\ ready \subseteq Fds
  /\ listening \in 0 .. Listeners
  /\ after_timers \in {"poll", "accept", "serve", "check"}
  /\ cnum \in Conn
  /\ {accepted, got_usr1, terminate} \subseteq BOOLEAN

(***************************************************************************)
(* Every step of the main loop is a step Connections allows or leaves the  *)
(* table alone: a handler is only ever called on a connection that is in   *)
(* the state it was written for, however stale the ready list has become.  *)
(***************************************************************************)
ImplementsConnections == Spec

(***************************************************************************)
(* SIGUSR1 loses no client: the process exits with every slot free.        *)
(***************************************************************************)
ExitLosesNobody == loop = "exited" => InUse = {}

(***************************************************************************)
(* Once terminate is set, no new connection enters the table.              *)
(***************************************************************************)
NoArrivalsAfterTerminate == [][terminate => InUse' \subseteq InUse]_allVars

(***************************************************************************)
(* No client keeps its descriptor for ever, however it dawdles and however *)
(* many others connect: accepting has priority over serving, but it stops  *)
(* when the table is full.                                                 *)
(***************************************************************************)
ClientsLeave == Client!EveryClientLeaves

(***************************************************************************)
(* Once terminate is set, the process does end.                            *)
(***************************************************************************)
TerminationCompletes == terminate ~> loop = "exited"

(***************************************************************************)
(* tweb.c:274 "SIGUSR1 says to exit as soon as all current connections are *)
(* done."                                                                  *)
(***************************************************************************)
Usr1Exits == got_usr1 ~> loop = "exited"
=============================================================================
