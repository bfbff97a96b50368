------------------------------- MODULE Timers -------------------------------
(***************************************************************************)
(* timers.c and its callers in tweb.c: lists of timers sorted by trigger   *)
(* time and hashed by it, a free list, and tmr_run's walk over the lists,  *)
(* during which the callbacks cancel timers and create others.  This is    *)
(* the contract Connections takes for granted: a timer that is set runs    *)
(* once, when it is due, unless it is cancelled.                           *)
(*                                                                         *)
(* Abstracted: the links of a list are a sequence, a time is an integer    *)
(* count of moments, and of the callbacks those are modelled that touch    *)
(* timers: idle (periodic), occasional (periodic), wakeup_connection and   *)
(* linger_clear_connection.                                                *)
(***************************************************************************)
EXTENDS Integers, Sequences, SequencesExt, FiniteSets, FiniteSetsExt

CONSTANTS
  MaxConnects,
  HASH_SIZE,
  OCCASIONAL_TIME, IDLE_TIME, LINGER_TIME,
  Delays,               \* what a connection may pause for
  ShouldLinger,         \* should_linger of the connections idle clears
  MaxTime               \* bound on the clock

ASSUME TimersAssumption ==
  /\ {MaxConnects, HASH_SIZE, OCCASIONAL_TIME, IDLE_TIME, LINGER_TIME}
       \subseteq Nat \ {0}
  /\ Delays \subseteq Nat \ {0}
  /\ ShouldLinger \subseteq BOOLEAN
  /\ MaxTime \in Nat

Conn == 0 .. MaxConnects - 1
Timer == 1 .. 2 * MaxConnects + 2      \* every timer malloc may return
Null == 0
Bucket == 0 .. HASH_SIZE - 1

VARIABLES
  now,                  \* tv in main(), what every routine gets as nowP
  pkg,                  \* the timer package: its lists and its structs
  wakeup_timer,         \* connects[c].wakeup_timer
  linger_timer,         \* connects[c].linger_timer
  running,              \* tmr_run is walking the lists
  h, t, next,           \* its local variables
  cnum                  \* that of idle, in its callback

walkVars == <<running, h, t, next, cnum>>
tvars == <<now, pkg, wakeup_timer, linger_timer, walkVars>>

NotIdle == -1

(***************************************************************************)
(* The package as a value: lists, free_timers, the struct of each timer    *)
(* and the counts, so that a callback can be a sequence of calls.          *)
(***************************************************************************)
Hash(time) == time % HASH_SIZE

\* In front of the first timer that is not earlier, or at the tail.
LAdd(p, tm) ==
  LET list == p.timers[p.struct[tm].hash]
      later == {i \in DOMAIN list : p.struct[tm].time <= p.struct[list[i]].time}
  IN [p EXCEPT !.timers[p.struct[tm].hash] =
        InsertAt(list, Min(later \cup {Len(list) + 1}), tm)]

Place(p, tm) == CHOOSE i \in DOMAIN p.timers[p.struct[tm].hash] :
                  p.timers[p.struct[tm].hash][i] = tm

LRemove(p, tm) ==
  [p EXCEPT !.timers[p.struct[tm].hash] = RemoveAt(@, Place(p, tm))]

TmrCancel(p, tm) ==
  [LRemove(p, tm) EXCEPT !.free_timers = <<tm>> \o @,
                         !.active_count = @ - 1,
                         !.free_count = @ + 1]

\* The timer tmr_create takes: the head of the free list, or one malloc returns.
NextTimer(p) ==
  IF p.free_timers # <<>> THEN Head(p.free_timers)
  ELSE CHOOSE tm \in Timer \ p.allocated : TRUE

TmrCreate(p, proc, data, msecs, periodic) ==
  LET tm == NextTimer(p)
      taken == IF p.free_timers # <<>>
                 THEN [p EXCEPT !.free_timers = Tail(@), !.free_count = @ - 1]
                 ELSE [p EXCEPT !.allocated = @ \cup {tm}, !.alloc_count = @ + 1]
      filled == [taken EXCEPT !.struct[tm] =
                   [proc |-> proc, data |-> data, msecs |-> msecs,
                    periodic |-> periodic, time |-> now + msecs,
                    hash |-> Hash(now + msecs)]]
  IN [LAdd(filled, tm) EXCEPT !.active_count = @ + 1]

TmrCleanup(p) ==
  [p EXCEPT !.allocated = @ \ ToSet(p.free_timers),
            !.alloc_count = @ - Len(p.free_timers),
            !.free_count = 0, !.free_timers = <<>>]

\* What tmr_run does with a timer after its callback.
\* Mutant: the timer stays in the list it was in.
RescheduleInPlace(p, tm) ==
  [p EXCEPT !.struct[tm].time = @ + p.struct[tm].msecs]

\* Mutant: the next time is counted from now.
RescheduleFromNow(p, tm) ==
  LET time == now + p.struct[tm].msecs
  IN LAdd([LRemove(p, tm) EXCEPT !.struct[tm].time = time,
                                 !.struct[tm].hash = Hash(time)], tm)

Reschedule(p, tm) ==
  LET time == p.struct[tm].time + p.struct[tm].msecs
  IN LAdd([LRemove(p, tm) EXCEPT !.struct[tm].time = time,
                                 !.struct[tm].hash = Hash(time)], tm)

AfterCallback(p, tm) ==
  IF p.struct[tm].periodic THEN Reschedule(p, tm) ELSE TmrCancel(p, tm)

Junk == [proc |-> "none", data |-> Null, msecs |-> 0, periodic |-> FALSE,
         time |-> 0, hash |-> 0]

TmrInit ==
  [timers |-> [b \in Bucket |-> <<>>], free_timers |-> <<>>, allocated |-> {},
   struct |-> [tm \in Timer |-> Junk],
   active_count |-> 0, free_count |-> 0, alloc_count |-> 0]

Init ==
  /\ now = 0
  /\ pkg = TmrCreate(TmrCreate(TmrInit, "occasional", Null, OCCASIONAL_TIME, TRUE),
                     "idle", Null, IDLE_TIME, TRUE)
  /\ wakeup_timer = [c \in Conn |-> Null]
  /\ linger_timer = [c \in Conn |-> Null]
  /\ running = FALSE
  /\ h = 0
  /\ t = Null /\ next = Null
  /\ cnum = NotIdle

-----------------------------------------------------------------------------
(***************************************************************************)
(* The handlers, while tmr_run is not running.                             *)
(***************************************************************************)
Handler == ~running /\ UNCHANGED <<now, walkVars>>

\* handle_send.
Pause(c) ==
  /\ Handler
  /\ wakeup_timer[c] = Null /\ linger_timer[c] = Null
  /\ \E delay \in Delays :
       pkg' = TmrCreate(pkg, "wakeup", c, delay, FALSE)
  /\ wakeup_timer' = [wakeup_timer EXCEPT ![c] = NextTimer(pkg)]
  /\ UNCHANGED linger_timer

(***************************************************************************)
(* clear_connection, on a connection that does not linger yet: s is the    *)
(* package and the two tables of pointers, before and after.               *)
(***************************************************************************)
ClearConnection(s, c, linger) ==
  LET cancelled ==
        IF s.wakeup_timer[c] # Null
          THEN [s EXCEPT !.pkg = TmrCancel(s.pkg, s.wakeup_timer[c]),
                         !.wakeup_timer[c] = Null]
          ELSE s
  IN IF linger
       THEN [cancelled EXCEPT
               !.pkg = TmrCreate(cancelled.pkg, "linger", c, LINGER_TIME, FALSE),
               !.linger_timer[c] = NextTimer(cancelled.pkg)]
       ELSE cancelled

Before == [pkg |-> pkg, wakeup_timer |-> wakeup_timer, linger_timer |-> linger_timer]

Cleared(c, linger) ==
  LET s == ClearConnection(Before, c, linger)
  IN /\ pkg' = s.pkg
     /\ wakeup_timer' = s.wakeup_timer
     /\ linger_timer' = s.linger_timer

Clear(c) ==
  /\ Handler
  /\ linger_timer[c] = Null
  /\ \E linger \in BOOLEAN : Cleared(c, linger)

\* really_clear_connection, on a lingering connection.
EndLinger(c) ==
  /\ Handler
  /\ linger_timer[c] # Null
  /\ pkg' = TmrCancel(pkg, linger_timer[c])
  /\ linger_timer' = [linger_timer EXCEPT ![c] = Null]
  /\ UNCHANGED wakeup_timer

Tick ==
  /\ ~running /\ now < MaxTime
  /\ now' = now + 1
  /\ UNCHANGED <<pkg, wakeup_timer, linger_timer, walkVars>>

(***************************************************************************)
(* tmr_run.                                                                *)
(***************************************************************************)
First(b) == IF pkg.timers[b] = <<>> THEN Null ELSE Head(pkg.timers[b])

Run ==
  /\ ~running
  /\ running' = TRUE
  /\ h' = 0
  /\ t' = First(0)
  /\ UNCHANGED <<now, pkg, wakeup_timer, linger_timer, next, cnum>>

Due(tm) == tm # Null /\ pkg.struct[tm].time <= now

\* Mutant: a timer that is not ready ends the whole walk.
NextListReturns ==
  /\ running /\ cnum = NotIdle /\ ~Due(t)
  /\ IF h + 1 \in Bucket /\ t = Null
       THEN h' = h + 1 /\ t' = First(h + 1) /\ UNCHANGED <<running, next>>
       ELSE h' = 0 /\ t' = Null /\ next' = Null /\ running' = FALSE
  /\ UNCHANGED <<now, pkg, wakeup_timer, linger_timer, cnum>>

\* The list ends, or its next timer is not ready yet: go on to the next list.
NextList ==
  /\ running /\ cnum = NotIdle /\ ~Due(t)
  /\ IF h + 1 \in Bucket
       THEN h' = h + 1 /\ t' = First(h + 1) /\ UNCHANGED <<running, next>>
       ELSE h' = 0 /\ t' = Null /\ next' = Null /\ running' = FALSE
  /\ UNCHANGED <<now, pkg, wakeup_timer, linger_timer, cnum>>

ListedIn(p) == UNION {ToSet(p.timers[b]) : b \in Bucket}
Listed == ListedIn(pkg)

\* t->next, of a timer that is in its list.
NextOf(tm) ==
  LET list == pkg.timers[pkg.struct[tm].hash]
      i == Place(pkg, tm)
  IN IF i = Len(list) THEN Null ELSE list[i + 1]

\* The next timer is looked up before the callback runs.  When the callback
\* before has cancelled it, the code runs a free struct and cancels it again:
\* CancelledNeverRuns is about that, and the model stops there.
Calls(proc) ==
  /\ running /\ cnum = NotIdle /\ Due(t) /\ t \in Listed
  /\ pkg.struct[t].proc = proc
  /\ UNCHANGED <<now, running, h>>

\* A callback that is one step.
Called(proc) == Calls(proc) /\ t' = NextOf(t) /\ UNCHANGED <<next, cnum>>

CallWakeup ==
  /\ Called("wakeup")
  /\ wakeup_timer' = [wakeup_timer EXCEPT ![pkg.struct[t].data] = Null]
  /\ pkg' = AfterCallback(pkg, t)
  /\ UNCHANGED linger_timer

CallLinger ==
  /\ Called("linger")
  /\ linger_timer' = [linger_timer EXCEPT ![pkg.struct[t].data] = Null]
  /\ pkg' = AfterCallback(pkg, t)
  /\ UNCHANGED wakeup_timer

CallOccasional ==
  /\ Called("occasional")
  /\ pkg' = AfterCallback(TmrCleanup(pkg), t)
  /\ UNCHANGED <<wakeup_timer, linger_timer>>

CallIdle ==
  /\ Calls("idle")
  /\ next' = NextOf(t)
  /\ cnum' = 0
  /\ UNCHANGED <<t, pkg, wakeup_timer, linger_timer>>

\* idle looks at one slot after the other and clears the overdue connections.
IdleSlot ==
  /\ cnum \in Conn
  /\ \/ UNCHANGED <<pkg, wakeup_timer, linger_timer>>
     \/ /\ linger_timer[cnum] = Null
        /\ \E linger \in ShouldLinger : Cleared(cnum, linger)
  /\ cnum' = cnum + 1
  /\ UNCHANGED <<now, running, h, t, next>>

IdleReturns ==
  /\ cnum = MaxConnects
  /\ pkg' = AfterCallback(pkg, t)
  /\ t' = next
  /\ next' = Null
  /\ cnum' = NotIdle
  /\ UNCHANGED <<now, wakeup_timer, linger_timer, running, h>>

Walk == \/ NextList \/ CallWakeup \/ CallLinger \/ CallOccasional
        \/ CallIdle \/ IdleSlot \/ IdleReturns

Next ==
  \/ \E c \in Conn : Pause(c) \/ Clear(c) \/ EndLinger(c)
  \/ Tick
  \/ Run
  \/ Walk

Spec == Init /\ [][Next]_tvars

\* The main loop calls tmr_run again and again, and tmr_run goes on.
FairSpec == Spec /\ WF_tvars(Run) /\ WF_tvars(Walk)

-----------------------------------------------------------------------------
Struct ==
  [proc : {"none", "occasional", "idle", "wakeup", "linger"},
   data : Conn, msecs : Nat, periodic : BOOLEAN, time : Nat, hash : Bucket]

Package ==
  [timers : [Bucket -> Seq(Timer)], free_timers : Seq(Timer),
   allocated : SUBSET Timer, struct : [Timer -> Struct],
   active_count : Nat, free_count : Nat, alloc_count : Nat]

\* Every variable has its type.
TypeOK ==
  /\ now \in 0 .. MaxTime
  /\ pkg \in Package
  /\ wakeup_timer \in [Conn -> Timer \cup {Null}]
  /\ linger_timer \in [Conn -> Timer \cup {Null}]
  /\ running \in BOOLEAN
  /\ h \in Bucket
  /\ t \in Timer \cup {Null}
  /\ next \in Timer \cup {Null}
  /\ cnum \in Conn \cup {MaxConnects, NotIdle}

(***************************************************************************)
(* Whatever callbacks do to the lists: every list is sorted and holds the  *)
(* timers that hash to it, no allocated timer is in two places or lost,    *)
(* and the three counts that tmr_logstats adds up are right.               *)
(***************************************************************************)
Sorted(p) ==
  \A b \in Bucket : LET list == p.timers[b] IN
    /\ \A i \in DOMAIN list : /\ p.struct[list[i]].hash = b
                              /\ Hash(p.struct[list[i]].time) = b
    /\ \A i, j \in DOMAIN list :
         i < j => /\ list[i] # list[j]
                  /\ p.struct[list[i]].time <= p.struct[list[j]].time

Accounted(p) ==
  /\ IsInjective(p.free_timers)
  /\ ListedIn(p) \cap ToSet(p.free_timers) = {}
  /\ p.allocated = ListedIn(p) \cup ToSet(p.free_timers)
  /\ p.active_count = Cardinality(ListedIn(p))
  /\ p.free_count = Len(p.free_timers)
  /\ p.alloc_count = Cardinality(p.allocated)

ListsInOrder == Sorted(pkg) /\ Accounted(pkg)

(***************************************************************************)
(* A timer pointer of a connection is null or names a scheduled timer that *)
(* will call back for this connection, and every such timer is named: what *)
(* Connections assumes of wakeups and lingers.                             *)
(***************************************************************************)
Owned(p, proc, pointer) ==
  \A tm \in Timer, c \in Conn :
    pointer[c] = tm <=> /\ tm \in ListedIn(p)
                        /\ p.struct[tm].proc = proc
                        /\ p.struct[tm].data = c

PointersNameTheirTimers ==
  Owned(pkg, "wakeup", wakeup_timer) /\ Owned(pkg, "linger", linger_timer)

(***************************************************************************)
(* tmr_mstimeout looks only at the first timer of each list; it finds the  *)
(* time to the first timer of all, so poll() never sleeps past one.        *)
(***************************************************************************)
AtLeastZero(n) == IF n < 0 THEN 0 ELSE n

TmrMstimeout ==
  LET first == {pkg.struct[First(b)].time : b \in {b \in Bucket : First(b) # Null}}
  IN AtLeastZero((CHOOSE time \in first : \A u \in first : time <= u) - now)

PollWakesForFirst ==
  \A tm \in Listed : TmrMstimeout <= AtLeastZero(pkg.struct[tm].time - now)

(***************************************************************************)
(* After any calls, and in the middle of tmr_run, the lists are in order,  *)
(* the connections' pointers name their own timers and no others, and      *)
(* poll() wakes for the first timer due.                                   *)
(***************************************************************************)
ListsSound == TypeOK /\ ListsInOrder /\ PointersNameTheirTimers /\ PollWakesForFirst

(***************************************************************************)
(* timers.h:94 "Deschedule a timer."  A timer that was cancelled is not    *)
(* run.                                                                    *)
(***************************************************************************)
CancelledNeverRuns == running /\ Due(t) => t \in Listed

(***************************************************************************)
(* A pause ends: a wakeup timer that is due runs or is cancelled, whatever *)
(* else is set in front of it and however many timers idle cancels while   *)
(* tmr_run walks, unless tmr_run runs a cancelled timer first.             *)
(***************************************************************************)
WakeupDue(c) == wakeup_timer[c] # Null /\ Due(wakeup_timer[c])

PausesEnd == \A c \in Conn : WakeupDue(c) ~> ~WakeupDue(c) \/ ~CancelledNeverRuns

\* When a routine is to be called for a connection, by the structs in the lists.
Callback ==
  {<<"occasional", Null>>, <<"idle", Null>>} \cup ({"wakeup", "linger"} \X Conn)

TimersOf(p, a) ==
  {tm \in ListedIn(p) : p.struct[tm].proc = a[1] /\ p.struct[tm].data = a[2]}

DueTime(p, a) ==
  IF TimersOf(p, a) = {} THEN -1 ELSE p.struct[CHOOSE tm \in TimersOf(p, a) : TRUE].time

DueTimes(p) == [a \in Callback |-> DueTime(p, a)]

Clock == INSTANCE Alarms WITH due <- DueTimes(pkg), idling <- cnum # NotIdle

(***************************************************************************)
(* Timers that are moved, freed and reused while tmr_run walks the lists   *)
(* are alarms to their callers: each rings at most once, not before its    *)
(* time and not after it was cancelled, the periodic ones do not drift,    *)
(* and no call changes the alarm of another connection (timers.h:86-97),   *)
(* until tmr_run runs a cancelled timer (CancelledNeverRuns).              *)
(***************************************************************************)
ImplementsAlarms == Clock!Spec
=============================================================================
