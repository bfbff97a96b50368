-------------------------------- MODULE Life --------------------------------
(***************************************************************************)
(* The life of the tweb process (tweb.c): start-up, the signal handlers,   *)
(* the watchdog and shut_down.  Handlers run on top of main() wherever it  *)
(* is, and on top of each other: sigset blocks a handler's own signal only.*)
(* handle_term, and handle_usr1 without clients, call shut_down inside the *)
(* handler and do not return.                                              *)
(*                                                                         *)
(* What main() does for clients is one step here (EventLoop and            *)
(* Connections have it in full), with two places of its own: a write that  *)
(* blocks, and the inside of malloc, free or syslog, which must not be     *)
(* entered again from a handler.  The clock counts OCCASIONAL_TIMEs.       *)
(***************************************************************************)
EXTENDS Naturals, Sequences, FiniteSets

CONSTANTS
  max_connects,         \* slots of the table of connections
  MaxCalls              \* bound: calls of shut_down on top of each other

ASSUME LifeAssumption == max_connects \in Nat \ {0} /\ MaxCalls \in Nat

VARIABLES
  main,                 \* where main() is
  frames,               \* shut_down calls that run, the innermost first
  connects,             \* the table: null, raw (not filled), table, freed
  open,                 \* slots whose conn_state is not CNST_FREE
  hc,                   \* the httpd_conn of each slot
  hs,                   \* the server is there
  got_hup, got_usr1, terminate, watchdog_flag,
  alarm_in,             \* time to SIGALRM
  occasional_in,        \* time to the occasional timer
  gone,                 \* how the process ended
  \* history
  idle_for,             \* time since occasional ran last
  stale,                \* a SIGHUP came after the log was opened last
  excused               \* one came too late to be seen, or fopen failed

flags == <<got_hup, got_usr1, terminate, watchdog_flag>>
memory == <<connects, open, hc, hs>>
clocks == <<alarm_in, occasional_in, idle_for>>
logHistory == <<stale, excused>>
vars == <<main, frames, memory, flags, clocks, gone, logHistory>>

Slots == 1 .. max_connects

\* alarm( OCCASIONAL_TIME * 3 ), and the period of the occasional timer.
AlarmTime == 3
OccasionalTime == 1

Starting == {"boot", "armed", "served", "allocated"}
Turning == {"loop", "reopen", "clear", "poll", "work", "library", "timers",
            "quiet", "usr1"}
Places == Starting \cup Turning \cup {"blocked", "down"}

Alive == gone = "no"
Running == Alive /\ frames = <<>>

Init ==
  /\ main = "boot" /\ frames = <<>>
  /\ connects = "null" /\ open = {} /\ hc = [k \in Slots |-> "none"]
  /\ hs = FALSE
  /\ got_hup = FALSE /\ got_usr1 = FALSE /\ terminate = FALSE
  /\ watchdog_flag = FALSE
  /\ alarm_in = AlarmTime /\ occasional_in = OccasionalTime /\ idle_for = 0
  /\ gone = "no"
  /\ stale = FALSE /\ excused = FALSE

GoTo(place) == main' = place /\ UNCHANGED <<frames, gone>>
End(how) == gone' = how /\ UNCHANGED <<main, frames>>

(***************************************************************************)
(* Start-up: the handlers are set and the alarm runs before there is a     *)
(* server, and long before there is a table of connections.                *)
(***************************************************************************)
Arm ==
  /\ Running /\ main = "boot" /\ GoTo("armed")
  /\ UNCHANGED <<memory, flags, clocks, logHistory>>

Initialize ==
  /\ Running /\ main = "armed" /\ GoTo("served")
  /\ hs' = TRUE
  /\ occasional_in' = OccasionalTime
  /\ UNCHANGED <<connects, open, hc, flags, alarm_in, idle_for, logHistory>>

Allocate ==
  /\ Running /\ main = "served" /\ GoTo("allocated")
  /\ connects' = "raw"
  /\ UNCHANGED <<open, hc, hs, flags, clocks, logHistory>>

Fill ==
  /\ Running /\ main = "allocated" /\ GoTo("loop")
  /\ connects' = "table"
  /\ UNCHANGED <<open, hc, hs, flags, clocks, logHistory>>

\* Any of the calls of start-up may fail: exit(1).
StartFails ==
  /\ Running /\ main \in Starting /\ End("exit")
  /\ UNCHANGED <<memory, flags, clocks, logHistory>>

(***************************************************************************)
(* The main loop.                                                          *)
(***************************************************************************)
\* A call of shut_down: by main, or by the handler of a signal.
Call(by) == [by |-> by, at |-> "slot", k |-> 1]

LoopTop ==
  /\ Running /\ main = "loop"
  /\ \/ /\ ~terminate \/ open # {}
        /\ GoTo(IF got_hup THEN "reopen" ELSE "poll")
     \/ /\ terminate /\ open = {}
        /\ main' = "down" /\ frames' = <<Call("main")>> /\ UNCHANGED gone
  /\ UNCHANGED <<memory, flags, clocks, logHistory>>

\* re_open_logfile: fopen may fail, and then the old file stays.
ReOpenLogfile ==
  /\ Running /\ main = "reopen" /\ GoTo("clear")
  /\ \/ stale' = FALSE /\ excused' = FALSE
     \/ stale' = stale /\ excused' = TRUE
  /\ UNCHANGED <<memory, flags, clocks>>

\* Mutant: got_hup is cleared after the poll.
ClearHupLate ==
  /\ Running /\ main = "clear" /\ GoTo("poll")
  /\ UNCHANGED <<memory, flags, clocks, logHistory>>

ClearHup ==
  /\ Running /\ main = "clear" /\ GoTo("poll")
  /\ got_hup' = FALSE
  /\ UNCHANGED <<memory, got_usr1, terminate, watchdog_flag, clocks, logHistory>>

\* Mutant: got_hup is cleared once more when the poll is over.
PollClearing ==
  /\ Running /\ main = "poll"
  /\ \E place \in {"loop", "quiet", "work"} : GoTo(place)
  /\ got_hup' = FALSE
  /\ UNCHANGED <<memory, got_usr1, terminate, watchdog_flag, clocks, logHistory>>

\* fdwatch: interrupted, nothing ready, or something to do.
Poll ==
  /\ Running /\ main = "poll"
  /\ \E place \in {"loop", "quiet", "work"} : GoTo(place)
  /\ UNCHANGED <<memory, flags, clocks, logHistory>>

\* The clients are served; some come (until the listen sockets are closed) and
\* some go, whose httpd_conn stays for the next.
Served(o) ==
  /\ terminate => o \subseteq open
  /\ open' = o
  /\ hc' = [k \in Slots |-> IF k \in o THEN "live" ELSE hc[k]]
  /\ UNCHANGED <<connects, hs>>

Serve ==
  /\ \/ /\ connects = "table" /\ GoTo("timers")
        /\ \E o \in SUBSET Slots : Served(o)
     \/ connects # "table" /\ End("fault") /\ UNCHANGED memory
  /\ UNCHANGED <<flags, clocks, logHistory>>

Work == Running /\ main \in {"work", "library"} /\ Serve

\* Inside malloc, free or syslog; or in finish_connection's write to a client
\* that does not read, on a socket that blocks.
CallLibrary ==
  /\ Running /\ main = "work" /\ GoTo("library")
  /\ UNCHANGED <<memory, flags, clocks, logHistory>>

Block ==
  /\ Running /\ main = "work" /\ open # {} /\ GoTo("blocked")
  /\ UNCHANGED <<memory, flags, clocks, logHistory>>

\* The client reads at last.
Unblock == Running /\ main = "blocked" /\ Serve

\* tmr_run, after the clients or instead of them; occasional may be due.
RunTimers ==
  /\ Running /\ main \in {"timers", "quiet"}
  /\ GoTo(IF main = "timers" THEN "usr1" ELSE "loop")
  /\ IF occasional_in = 0
     THEN /\ watchdog_flag' = TRUE
          /\ occasional_in' = OccasionalTime /\ idle_for' = 0
     ELSE UNCHANGED <<watchdog_flag, occasional_in, idle_for>>
  /\ UNCHANGED <<memory, got_hup, got_usr1, terminate, alarm_in, logHistory>>

LookAtUsr1 ==
  /\ Running /\ main = "usr1" /\ GoTo("loop")
  /\ terminate' = (terminate \/ got_usr1)
  /\ UNCHANGED <<memory, got_hup, got_usr1, watchdog_flag, clocks, logHistory>>

Main ==
  \/ Arm \/ Initialize \/ Allocate \/ Fill
  \/ LoopTop \/ ReOpenLogfile \/ ClearHup \/ Poll \/ Work \/ RunTimers
  \/ LookAtUsr1

(***************************************************************************)
(* Signals.  Before the handlers are set they end the process.             *)
(***************************************************************************)
Handles == Alive /\ main # "boot"
Fatal == {"TERM", "INT", "USR1"}
Active == {frames[i].by : i \in DOMAIN frames}

Kill ==
  /\ Running /\ main = "boot" /\ End("killed")
  /\ UNCHANGED <<memory, flags, clocks, logHistory>>

HandleTerm ==
  /\ Handles /\ Len(frames) < MaxCalls
  /\ \E sig \in {"TERM", "INT"} \ Active : frames' = <<Call(sig)>> \o frames
  /\ UNCHANGED <<main, memory, flags, clocks, gone, logHistory>>

\* With num_connects = 0 it shuts down at once.
HandleUsr1 ==
  /\ Handles /\ "USR1" \notin Active
  /\ IF open = {}
     THEN /\ Len(frames) < MaxCalls
          /\ frames' = <<Call("USR1")>> \o frames /\ UNCHANGED got_usr1
     ELSE got_usr1' = TRUE /\ UNCHANGED frames
  /\ UNCHANGED <<main, memory, got_hup, terminate, watchdog_flag, clocks, gone,
                 logHistory>>

\* The signal is lost when main() has re-opened the log and not yet cleared
\* got_hup.
HandleHup ==
  /\ Handles
  /\ got_hup' = TRUE
  /\ stale' = TRUE /\ excused' = (excused \/ main = "clear")
  /\ UNCHANGED <<main, frames, memory, got_usr1, terminate, watchdog_flag,
                 clocks, gone>>

\* Mutant: the watchdog does not take the flag down.
HandleAlrmTrusting ==
  /\ Handles /\ alarm_in = 0
  /\ IF watchdog_flag
     THEN /\ alarm_in' = AlarmTime /\ UNCHANGED gone
     ELSE /\ gone' = "aborted" /\ UNCHANGED alarm_in
  /\ UNCHANGED <<main, frames, memory, flags, occasional_in, idle_for, logHistory>>

HandleAlrm ==
  /\ Handles /\ alarm_in = 0
  /\ IF watchdog_flag
     THEN /\ watchdog_flag' = FALSE /\ alarm_in' = AlarmTime /\ UNCHANGED gone
     ELSE /\ gone' = "aborted" /\ UNCHANGED <<watchdog_flag, alarm_in>>
  /\ UNCHANGED <<main, frames, memory, got_hup, got_usr1, terminate,
                 occasional_in, idle_for, logHistory>>

(***************************************************************************)
(* shut_down, by the innermost call.  It does not mark the slots free.     *)
(***************************************************************************)
Top == frames[1]
Move(point, slot) ==
  /\ frames' = [frames EXCEPT ![1].at = point, ![1].k = slot]
  /\ UNCHANGED <<main, gone>>
NextSlot == IF Top.k = max_connects THEN Move("server", Top.k)
            ELSE Move("slot", Top.k + 1)
Hang == Move("hung", Top.k)
Step(point) == Alive /\ frames # <<>> /\ Top.at = point
Still == UNCHANGED <<flags, clocks, logHistory>>

\* A table that is missing, garbage or freed, a slot that looks open without an
\* httpd_conn, and an httpd_conn that was freed.
BadSlot ==
  \/ connects \in {"null", "freed"}
  \/ /\ connects = "table"
     /\ hc[Top.k] = "freed" \/ (Top.k \in open /\ hc[Top.k] = "none")

\* Calling the library a second time, from a handler that stopped it half way,
\* may work, hang on its lock, or crash.
Reentered == main = "library" /\ UNCHANGED memory /\ (Hang \/ End("fault"))

CloseSlot ==
  /\ Step("slot") /\ Still
  /\ \/ (BadSlot \/ connects = "raw") /\ End("fault") /\ UNCHANGED memory
     \/ ~BadSlot /\ hc[Top.k] = "none" /\ NextSlot /\ UNCHANGED memory
     \/ /\ ~BadSlot /\ hc[Top.k] = "live"
        /\ \/ Move("clear", Top.k)
              /\ hc' = [hc EXCEPT ![Top.k] = "freed"]
              /\ UNCHANGED <<connects, open, hs>>
           \/ Reentered

ClearSlot ==
  /\ Step("clear") /\ Still
  /\ IF connects = "freed"
     THEN End("fault") /\ UNCHANGED memory
     ELSE /\ NextSlot
          /\ hc' = [hc EXCEPT ![Top.k] = "none"]
          /\ UNCHANGED <<connects, open, hs>>

\* hs is taken out before it is released.
TakeServer ==
  /\ Step("server") /\ Still
  /\ Move(IF hs THEN "terminate" ELSE "table", Top.k)
  /\ hs' = FALSE
  /\ UNCHANGED <<connects, open, hc>>

Terminate ==
  /\ Step("terminate") /\ Still
  /\ \/ Move("table", Top.k) /\ UNCHANGED memory
     \/ Reentered

\* free( connects ), which keeps its value.
FreeTable ==
  /\ Step("table") /\ Still
  /\ \/ connects = "freed" /\ End("fault") /\ UNCHANGED memory
     \/ /\ connects # "freed"
        /\ \/ /\ Move("exit", Top.k)
              /\ connects' = IF connects = "null" THEN "null" ELSE "freed"
              /\ UNCHANGED <<open, hc, hs>>
           \/ Reentered

\* Mutant: the handler returns to where it came from.
ExitReturning ==
  /\ Step("exit") /\ Still
  /\ frames' = Tail(frames)
  /\ UNCHANGED <<main, gone, memory>>

Exit ==
  /\ Step("exit") /\ Still
  /\ \/ End("exit") /\ UNCHANGED memory
     \/ Reentered

ShutDown ==
  CloseSlot \/ ClearSlot \/ TakeServer \/ Terminate \/ FreeTable \/ Exit

(***************************************************************************)
(* Time.  poll() waits no longer than for the next timer, so a loop that   *)
(* turns runs occasional before another OCCASIONAL_TIME has gone by.       *)
(***************************************************************************)
Stuck == main \notin Turning \/ frames # <<>>

Tick ==
  /\ Handles
  /\ alarm_in > 0 /\ (occasional_in > 0 \/ Stuck)
  /\ alarm_in' = alarm_in - 1
  /\ occasional_in' = IF occasional_in = 0 THEN 0 ELSE occasional_in - 1
  /\ idle_for' = idle_for + 1
  /\ UNCHANGED <<main, frames, memory, flags, gone, logHistory>>

Signal == HandleTerm \/ HandleUsr1 \/ HandleHup \/ HandleAlrm \/ Kill

Next ==
  \/ Main \/ StartFails \/ CallLibrary \/ Block \/ Unblock
  \/ Signal \/ ShutDown \/ Tick
  \/ ~Alive /\ UNCHANGED vars

Spec == Init /\ [][Next]_vars

\* The process runs and time passes.  A client need never read.
Fairness ==
  /\ WF_vars(Main) /\ WF_vars(ShutDown) /\ WF_vars(Tick) /\ WF_vars(HandleAlrm)

FairSpec == Spec /\ Fairness

(***************************************************************************)
(* Properties.                                                             *)
(***************************************************************************)
Frames == [by : {"main"} \cup Fatal,
           at : {"slot", "clear", "server", "terminate", "table", "exit", "hung"},
           k : Slots]

\* Every variable has its type.
TypeOK ==
  /\ main \in Places
  /\ frames \in Seq(Frames)
  /\ connects \in {"null", "raw", "table", "freed"}
  /\ open \subseteq Slots /\ hc \in [Slots -> {"none", "live", "freed"}]
  /\ hs \in BOOLEAN
  /\ got_hup \in BOOLEAN /\ got_usr1 \in BOOLEAN /\ terminate \in BOOLEAN
  /\ watchdog_flag \in BOOLEAN
  /\ alarm_in \in 0 .. AlarmTime /\ occasional_in \in 0 .. OccasionalTime
  /\ idle_for \in Nat
  /\ gone \in {"no", "exit", "killed", "aborted", "fault"}
  /\ stale \in BOOLEAN /\ excused \in BOOLEAN

\* shut_down releases everything once and touches nothing that is not there,
\* unless the signal came before the table was filled, while main() was inside
\* the library, or a second one while the first was releasing; and once it has
\* begun main() does not touch what it released (shut_down, handle_term).
ReleasedOnce ==
  gone = "fault" =>
    \/ main \in Starting
    \/ main = "library"
    \/ Len(frames) > 1

\* A process whose loop has not run occasional for twice the alarm's time is
\* aborted, wherever it is, and none is aborted that ran it since the alarm
\* before (handle_alrm, occasional).
WatchdogInTime ==
  /\ idle_for <= 2 * AlarmTime
  /\ gone = "aborted" => idle_for >= AlarmTime

\* A SIGHUP is not forgotten before the log has been opened again, unless it
\* came after that and before got_hup was cleared (main, handle_hup).
HupKept == stale /\ Alive => got_hup \/ excused

\* A process that got SIGTERM or SIGINT ends, even when the handler hangs; one
\* that is blocked gets on or ends; and a SIGHUP is looked at.
SignalsTakeEffect ==
  /\ ({"TERM", "INT"} \cap Active # {}) ~> ~Alive
  /\ main = "blocked" ~> (main # "blocked" \/ ~Alive)
  /\ got_hup ~> (~got_hup \/ ~Alive)
=============================================================================
