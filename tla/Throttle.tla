------------------------------ MODULE Throttle ------------------------------
(***************************************************************************)
(* The arithmetic of throttling (tweb.c): the rate of each throttle, the   *)
(* share of it that each connection gets, and the pauses that keep a       *)
(* connection to its share.  Connections has the control around it; here   *)
(* only connections that hold a throttle appear, from the moment they      *)
(* start to send.  All divisions are C's, of non-negative integers.        *)
(*                                                                         *)
(* The clock counts half seconds, the shortest pause for being too fast;   *)
(* started_at and active_at are whole seconds, as in the code.             *)
(***************************************************************************)
EXTENDS Naturals, FiniteSets, FiniteSetsExt

CONSTANTS
  Throttles,            \* entries of the throttle table
  max_limit, min_limit, \* bytes a second of each, min_limit 0 when absent
  Matching,             \* sets of throttles whose patterns match a file
  Clients,              \* connections
  Size,                 \* bytes to send to each
  THROTTLE_TIME,        \* seconds between two runs of update_throttles
  IDLE_SEND_TIMELIMIT,  \* seconds without progress that end a connection
  MaxTime,              \* bound: the clock stops there (half seconds)
  MaxStarts             \* bound: connections that start to send

ASSUME ThrottleAssumption ==
  /\ max_limit \in [Throttles -> Nat] /\ min_limit \in [Throttles -> Nat]
  /\ Matching \subseteq (SUBSET Throttles) \ {{}}
  /\ IsFiniteSet(Throttles) /\ IsFiniteSet(Clients)
  /\ Size \in Nat \ {0} /\ THROTTLE_TIME \in Nat \ {0}
  /\ IDLE_SEND_TIMELIMIT \in Nat \ {0} /\ MaxTime \in Nat /\ MaxStarts \in Nat

VARIABLES
  rate, bytes_since_avg, num_sending,   \* of each throttle
  conn_state,           \* free, sending or pausing
  tnums,                \* throttles a connection holds
  share,                \* its max_limit
  bytes_sent,           \* of the file
  heading,              \* responselen > 0: some of the head is not sent
  started_at, active_at, wakeup_at,
  now,                  \* half seconds
  updated,              \* update_throttles has run when it was due
  crashed,              \* a division by zero
  starts,               \* connections so far
  \* history
  best,                 \* the largest share a connection has had
  least                 \* the smallest

throttleVars == <<rate, bytes_since_avg, num_sending>>
connVars == <<conn_state, tnums, share, bytes_sent, heading, started_at,
              active_at, wakeup_at, best, least>>
vars == <<throttleVars, connVars, now, updated, crashed, starts>>

Zero(S) == [x \in S |-> 0]
Second == now \div 2

Init ==
  /\ rate = Zero(Throttles) /\ bytes_since_avg = Zero(Throttles)
  /\ num_sending = Zero(Throttles)
  /\ conn_state = [c \in Clients |-> "free"]
  /\ tnums = [c \in Clients |-> {}]
  /\ share = Zero(Clients) /\ bytes_sent = Zero(Clients)
  /\ heading = [c \in Clients |-> FALSE]
  /\ started_at = Zero(Clients) /\ active_at = Zero(Clients)
  /\ wakeup_at = Zero(Clients)
  /\ now = 0 /\ updated = TRUE
  /\ crashed = FALSE /\ starts = 0
  /\ best = Zero(Clients) /\ least = Zero(Clients)

(***************************************************************************)
(* check_throttles.  A connection that one of its throttles refuses gives  *)
(* back those it has taken already.                                        *)
(***************************************************************************)
\* Mutant: the minimum is not looked at.
AdmitsAny(t) == rate[t] <= 2 * max_limit[t]

Admits(t) == rate[t] <= 2 * max_limit[t] /\ rate[t] >= min_limit[t]

\* The least of what its throttles give each of the connections they count.
ShareOf(m, counts) == Min({max_limit[t] \div counts[t] : t \in m})

Start(c, m) ==
  /\ conn_state[c] = "free"
  /\ starts < MaxStarts /\ starts' = starts + 1
  /\ \A t \in m : Admits(t)
  /\ \E counts \in {[t \in Throttles |-> IF t \in m THEN num_sending[t] + 1
                                         ELSE num_sending[t]]} :
       /\ num_sending' = counts
       /\ share' = [share EXCEPT ![c] = ShareOf(m, counts)]
       /\ best' = [best EXCEPT ![c] = ShareOf(m, counts)]
       /\ least' = [least EXCEPT ![c] = ShareOf(m, counts)]
  /\ conn_state' = [conn_state EXCEPT ![c] = "sending"]
  /\ tnums' = [tnums EXCEPT ![c] = m]
  /\ bytes_sent' = [bytes_sent EXCEPT ![c] = 0]
  /\ heading' = [heading EXCEPT ![c] = TRUE]
  /\ started_at' = [started_at EXCEPT ![c] = Second]
  /\ active_at' = [active_at EXCEPT ![c] = Second]
  /\ wakeup_at' = [wakeup_at EXCEPT ![c] = 0]
  /\ UNCHANGED <<rate, bytes_since_avg, now, updated, crashed>>

\* clear_throttles, and the slot is free.
Cleared(c) ==
  /\ num_sending' = [t \in Throttles |-> IF t \in tnums[c] THEN num_sending[t] - 1
                                         ELSE num_sending[t]]
  /\ conn_state' = [conn_state EXCEPT ![c] = "free"]
  /\ tnums' = [tnums EXCEPT ![c] = {}]
  /\ share' = [share EXCEPT ![c] = 0] /\ best' = [best EXCEPT ![c] = 0]
  /\ least' = [least EXCEPT ![c] = 0]
  /\ bytes_sent' = [bytes_sent EXCEPT ![c] = 0]
  /\ heading' = [heading EXCEPT ![c] = FALSE]
  /\ started_at' = [started_at EXCEPT ![c] = 0]
  /\ active_at' = [active_at EXCEPT ![c] = 0]
  /\ wakeup_at' = [wakeup_at EXCEPT ![c] = 0]

(***************************************************************************)
(* handle_send.                                                            *)
(***************************************************************************)
\* Mutant: a whole second's worth at a time, and one byte at least.
ChunkWhole(c) == IF share[c] = 0 THEN 1 ELSE share[c]

\* Send at most 1/4 seconds worth.
Chunk(c) == share[c] \div 4

Elapsed(c) == IF Second = started_at[c] THEN 1 ELSE Second - started_at[c]

Pause(c, time) ==
  /\ conn_state' = [conn_state EXCEPT ![c] = "pausing"]
  /\ wakeup_at' = [wakeup_at EXCEPT ![c] = time]

\* write() of nothing returns 0, which passes for a socket that would block;
\* writev() with some head in it does not.  The pause grows from 100 ms.
SendNothing(c) ==
  /\ conn_state[c] = "sending"
  /\ ~heading[c] /\ Chunk(c) = 0
  /\ \E time \in {now, now + 1} : Pause(c, time)
  /\ UNCHANGED <<throttleVars, tnums, share, bytes_sent, heading, started_at,
                 active_at, best, least, now, updated, crashed, starts>>

\* Part of the head goes, and nothing of the file.
SendHead(c) ==
  /\ conn_state[c] = "sending" /\ heading[c]
  /\ active_at' = [active_at EXCEPT ![c] = Second]
  /\ UNCHANGED <<throttleVars, conn_state, tnums, share, bytes_sent, heading,
                 started_at, wakeup_at, best, least, now, updated, crashed, starts>>

\* Mutant: only way over the limit counts, as when a connection starts.
TooFastByFar(c, sent) == sent \div Elapsed(c) > 2 * share[c]

TooFast(c, sent) == sent \div Elapsed(c) > share[c]

\* Mutant: the pause is reckoned with the chunk.
CoastLong(c, sent) ==
  IF share[c] = 0
  THEN crashed' = TRUE /\ UNCHANGED <<conn_state, wakeup_at>>
  ELSE /\ crashed' = crashed
       /\ Pause(c, now + 2 * (sent \div Chunk(c)) + 1)

\* Pause until the schedule of bytes_sent bytes is reached.
Coast(c, sent) ==
  IF share[c] = 0
  THEN crashed' = TRUE /\ UNCHANGED <<conn_state, wakeup_at>>
  ELSE /\ crashed' = crashed
       /\ IF sent \div share[c] > Elapsed(c)
          THEN Pause(c, now + 2 * ((sent \div share[c]) - Elapsed(c)))
          ELSE Pause(c, now + 1)

\* n bytes of the file go, and what was left of the head.
SendSome(c, n) ==
  /\ conn_state[c] = "sending"
  /\ n <= Chunk(c) /\ bytes_sent[c] + n <= Size /\ (heading[c] \/ n > 0)
  /\ bytes_since_avg' = [t \in Throttles |-> IF t \in tnums[c]
                                             THEN bytes_since_avg[t] + n
                                             ELSE bytes_since_avg[t]]
  /\ rate' = rate
  /\ IF bytes_sent[c] + n = Size
     THEN Cleared(c) /\ UNCHANGED crashed
     ELSE /\ bytes_sent' = [bytes_sent EXCEPT ![c] = @ + n]
          /\ heading' = [heading EXCEPT ![c] = FALSE]
          /\ active_at' = [active_at EXCEPT ![c] = Second]
          /\ IF TooFast(c, bytes_sent[c] + n)
             THEN Coast(c, bytes_sent[c] + n)
             ELSE UNCHANGED <<crashed, conn_state, wakeup_at>>
          /\ UNCHANGED <<num_sending, tnums, share, started_at, best, least>>
  /\ UNCHANGED <<now, updated, starts>>

(***************************************************************************)
(* Timers, and clients that leave.                                         *)
(***************************************************************************)
WakeupConnection(c) ==
  /\ conn_state[c] = "pausing" /\ wakeup_at[c] <= now
  /\ conn_state' = [conn_state EXCEPT ![c] = "sending"]
  /\ wakeup_at' = [wakeup_at EXCEPT ![c] = 0]
  /\ UNCHANGED <<throttleVars, tnums, share, bytes_sent, heading, started_at,
                 active_at, best, least, now, updated, crashed, starts>>

Overdue(c) == conn_state[c] # "free" /\ Second - active_at[c] >= IDLE_SEND_TIMELIMIT

Idle(c) ==
  /\ Overdue(c)
  /\ Cleared(c)
  /\ UNCHANGED <<rate, bytes_since_avg, now, updated, crashed, starts>>

Leave(c) ==
  /\ conn_state[c] = "sending"
  /\ Cleared(c)
  /\ UNCHANGED <<rate, bytes_since_avg, now, updated, crashed, starts>>

\* Mutant: every connection gets the whole limit.
UpdateThrottlesSharing ==
  /\ ~updated
  /\ rate' = [t \in Throttles |->
                (2 * rate[t] + (bytes_since_avg[t] \div THROTTLE_TIME)) \div 3]
  /\ bytes_since_avg' = Zero(Throttles)
  /\ share' = [c \in Clients |-> IF conn_state[c] = "free" THEN 0
                                 ELSE Min({max_limit[t] : t \in tnums[c]})]
  /\ best' = [c \in Clients |-> IF share'[c] > best[c] THEN share'[c] ELSE best[c]]
  /\ least' = [c \in Clients |-> IF share'[c] < least[c] THEN share'[c] ELSE least[c]]
  /\ updated' = TRUE
  /\ UNCHANGED <<num_sending, conn_state, tnums, bytes_sent, heading, started_at,
                 active_at, wakeup_at, now, crashed, starts>>

\* The average rate of each throttle, and the share of each connection anew.
UpdateThrottles ==
  /\ ~updated
  /\ rate' = [t \in Throttles |->
                (2 * rate[t] + (bytes_since_avg[t] \div THROTTLE_TIME)) \div 3]
  /\ bytes_since_avg' = Zero(Throttles)
  /\ share' = [c \in Clients |-> IF conn_state[c] = "free" THEN 0
                                 ELSE ShareOf(tnums[c], num_sending)]
  /\ best' = [c \in Clients |-> IF share'[c] > best[c] THEN share'[c] ELSE best[c]]
  /\ least' = [c \in Clients |-> IF share'[c] < least[c] THEN share'[c] ELSE least[c]]
  /\ updated' = TRUE
  /\ UNCHANGED <<num_sending, conn_state, tnums, bytes_sent, heading, started_at,
                 active_at, wakeup_at, now, crashed, starts>>

\* Timers run when they are due.
Tick ==
  /\ now < MaxTime /\ updated
  /\ \A c \in Clients : conn_state[c] = "pausing" => wakeup_at[c] > now
  /\ now' = now + 1
  /\ updated' = (now' % (2 * THROTTLE_TIME) # 0)
  /\ UNCHANGED <<throttleVars, connVars, crashed, starts>>

Next ==
  \/ \E c \in Clients :
       \/ \E m \in Matching : Start(c, m)
       \/ SendNothing(c) \/ SendHead(c) \/ \E n \in 0 .. Size : SendSome(c, n)
       \/ WakeupConnection(c) \/ Idle(c) \/ Leave(c)
  \/ UpdateThrottles \/ Tick
  \/ now = MaxTime /\ UNCHANGED vars

Spec == Init /\ [][Next]_vars

(***************************************************************************)
(* Properties.                                                             *)
(***************************************************************************)
Active == {c \in Clients : conn_state[c] # "free"}
Holding(t) == {c \in Active : t \in tnums[c]}

\* Every variable has its type.
TypeOK ==
  /\ rate \in [Throttles -> Nat] /\ bytes_since_avg \in [Throttles -> Nat]
  /\ num_sending \in [Throttles -> Nat]
  /\ conn_state \in [Clients -> {"free", "sending", "pausing"}]
  /\ tnums \in [Clients -> SUBSET Throttles]
  /\ share \in [Clients -> Nat]
  /\ best \in [Clients -> Nat] /\ least \in [Clients -> Nat]
  /\ bytes_sent \in [Clients -> Nat] /\ heading \in [Clients -> BOOLEAN]
  /\ started_at \in [Clients -> Nat] /\ active_at \in [Clients -> Nat]
  /\ wakeup_at \in [Clients -> Nat]
  /\ now \in Nat /\ updated \in BOOLEAN /\ crashed \in BOOLEAN /\ starts \in Nat

\* A share may be zero, with more connections than bytes a second, but nothing
\* is ever divided by it: once something has been sent a zero share writes
\* nothing, and that pauses the connection first (handle_send).
NeverDividesByZero == ~crashed

\* What throttle t promises: a pair for each byte a second of each who holds it.
Promised(t) == Cardinality(UNION {{c} \X (1 .. share[c]) : c \in Holding(t)})

\* After a run of update_throttles no throttle promises more than its limit,
\* whoever came and went before (update_throttles).
SharesFit ==
  [][UpdateThrottles => \A t \in Throttles : Promised(t)' <= max_limit[t]]_vars

\* A throttle with a minimum never lets anybody in: its rate starts at zero,
\* and only those it let in could raise it (check_throttles).
MinimumNeverMet ==
  \A t \in Throttles : min_limit[t] > 0 => num_sending[t] = 0 /\ rate[t] = 0

\* A connection is never more than a second and a chunk ahead of the schedule
\* of the largest share it has had, but for the rounding of its rate.
NeverFarAhead ==
  \A c \in Active :
    bytes_sent[c] <= (best[c] + 1) * Max({2, Second - started_at[c] + 1})
                     + (best[c] \div 4)

\* Seconds until its last write, one at least, as in Elapsed.
Ran(c) == IF active_at[c] = started_at[c] THEN 1 ELSE active_at[c] - started_at[c]

\* A pause that ends wait seconds after the last write, after ran seconds, is no
\* longer than what may have been sent takes at the smallest share.
Short(low, ran, wait, most) ==
  low * (ran + wait) <= (most + 1) * (ran + 1) + (most \div 4)

\* So a connection waits long, and idle cuts it off meanwhile, only when its
\* share has fallen (or allows less than a byte in a quarter of a second), or
\* when it has run for so long that the rounding of its rate, a byte a second,
\* has let it get that far ahead.
PausesShort ==
  \A c \in Active :
    conn_state[c] = "pausing" /\ least[c] >= 4 =>
      Short(least[c], Ran(c), (wakeup_at[c] \div 2) - active_at[c], best[c])

\* Connections keep to the schedules of their shares: ahead by little, and never
\* made to wait for more than that (handle_send, wakeup_connection).
OnSchedule == NeverFarAhead /\ PausesShort
=============================================================================
