--------------------------- MODULE ThrottleProofs ---------------------------
(***************************************************************************)
(* Proofs about Throttle: the types, that nothing is divided by a share of *)
(* zero, that a throttle with a minimum lets nobody in, that the shares    *)
(* fit the limits, and that connections keep to their schedules, for any   *)
(* number of throttles and connections, any limits and any size.           *)
(***************************************************************************)
EXTENDS Throttle, FiniteSetTheorems, TLAPS

USE ThrottleAssumption DEF ThrottleAssumption

-----------------------------------------------------------------------------
\* A set of naturals that is not empty has a least element.
LEMMA LeastIsNat ==
  ASSUME NEW S \in SUBSET Nat, S # {}
  PROVE  Min(S) \in S /\ \A y \in S : Min(S) <= y
<1> DEFINE T == {1 .. n : n \in S}
<1>1. T \subseteq FiniteSubsetsOf(Nat) /\ T # {}
  <2>1. \A n \in Nat : 1 .. n \in FiniteSubsetsOf(Nat)
    <3>1. \A n \in Nat : IsFiniteSet(1 .. n) /\ 1 .. n \in SUBSET Nat
      BY FS_Interval
    <3> QED BY <3>1 DEF FiniteSubsetsOf
  <2>2. \A v \in T : \E n \in S : v = 1 .. n
    OBVIOUS
  <2>3. \E n \in S : 1 .. n \in T
    OBVIOUS
  <2> HIDE DEF T
  <2> QED BY <2>1, <2>2, <2>3, Zenon
<1>2. IsWellFoundedOn(StrictSubsetOrdering(Nat), FiniteSubsetsOf(Nat))
  BY FS_StrictSubsetOrderingWellFounded
<1>3. PICK u \in T : \A v \in T : <<v, u>> \notin StrictSubsetOrdering(Nat)
  <2> HIDE DEF T
  <2> QED BY <1>1, <1>2, WFMin
<1>4. PICK x \in S : u = 1 .. x
  OBVIOUS
<1>5. ASSUME NEW y \in S, y < x PROVE FALSE
  <2>1. 1 .. y \in T
    OBVIOUS
  <2>2. 1 .. y \subseteq 1 .. x /\ x \in 1 .. x /\ x \notin 1 .. y
    BY <1>5
  <2>3. <<1 .. y, 1 .. x>> \in StrictSubsetOrdering(Nat)
    BY <2>2 DEF StrictSubsetOrdering
  <2> QED BY <1>3, <1>4, <2>1, <2>3
<1>6. \A y \in S : x =< y
  BY <1>5
<1> QED BY <1>6 DEF Min

\* What a connection gets of throttles that count it is a natural number.
LEMMA ShareIsNat ==
  ASSUME NEW m \in SUBSET Throttles, m # {},
         NEW counts \in [Throttles -> Nat],
         \A t \in m : counts[t] > 0
  PROVE  /\ ShareOf(m, counts) \in Nat
         /\ \A t \in m : ShareOf(m, counts) <= max_limit[t] \div counts[t]
<1> DEFINE S == {max_limit[t] \div counts[t] : t \in m}
<1>1. \A t \in m : max_limit[t] \div counts[t] \in Nat
  <2>1. \A a \in Nat, b \in Nat \ {0} : a \div b \in Nat
    OBVIOUS
  <2> QED BY <2>1
<1>2. S \in SUBSET Nat /\ S # {}
  BY <1>1
<1>3. Min(S) \in S /\ \A y \in S : Min(S) <= y
  <2> HIDE DEF S
  <2> QED BY <1>2, LeastIsNat
<1> QED BY <1>2, <1>3 DEF ShareOf

-----------------------------------------------------------------------------
(***************************************************************************)
(* The invariant: num_sending counts who holds a throttle; a connection    *)
(* that sends holds one at least, and has sent nothing of the file while   *)
(* some of its head is left; and a throttle with a minimum has never been  *)
(* held by anybody.                                                        *)
(***************************************************************************)
CountsRight == \A t \in Throttles : num_sending[t] = Cardinality(Holding(t))

HoldersHold == \A c \in Clients : conn_state[c] # "free" => tnums[c] # {}

HeadFirst == \A c \in Clients : heading[c] => bytes_sent[c] = 0

StartedBefore == \A c \in Clients : started_at[c] <= Second

MinimumUnused ==
  \A t \in Throttles :
    min_limit[t] > 0 => rate[t] = 0 /\ bytes_since_avg[t] = 0 /\ Holding(t) = {}

Sound ==
  /\ TypeOK /\ CountsRight /\ HoldersHold /\ HeadFirst /\ StartedBefore
  /\ MinimumUnused

\* The types in two parts: what is TRUE or FALSE, and the rest.
FlagTypes ==
  /\ heading \in [Clients -> BOOLEAN]
  /\ updated \in BOOLEAN /\ crashed \in BOOLEAN

OtherTypes ==
  /\ rate \in [Throttles -> Nat] /\ bytes_since_avg \in [Throttles -> Nat]
  /\ num_sending \in [Throttles -> Nat]
  /\ conn_state \in [Clients -> {"free", "sending", "pausing"}]
  /\ tnums \in [Clients -> SUBSET Throttles]
  /\ share \in [Clients -> Nat]
  /\ best \in [Clients -> Nat] /\ least \in [Clients -> Nat]
  /\ bytes_sent \in [Clients -> Nat]
  /\ started_at \in [Clients -> Nat] /\ active_at \in [Clients -> Nat]
  /\ wakeup_at \in [Clients -> Nat]
  /\ now \in Nat /\ starts \in Nat

\* The two parts are the types, before and after a step.
LEMMA TypesInTwo ==
  /\ TypeOK <=> FlagTypes /\ OtherTypes
  /\ TypeOK' <=> FlagTypes' /\ OtherTypes'
BY DEF TypeOK, FlagTypes, OtherTypes

\* Those who hold a throttle are finitely many, before and after a step.
LEMMA HoldersFinite ==
  \A t \in Throttles :
    /\ IsFiniteSet(Holding(t)) /\ Cardinality(Holding(t)) \in Nat
    /\ IsFiniteSet(Holding(t)') /\ Cardinality(Holding(t)') \in Nat
<1>1. \A t \in Throttles : Holding(t) \subseteq Clients /\ Holding(t)' \subseteq Clients
  BY DEF Holding, Active
<1> QED BY <1>1, FS_Subset, FS_CardinalityType

\* A throttle that somebody holds counts one at least.
LEMMA HeldCounts ==
  ASSUME CountsRight, NEW c \in Clients, conn_state[c] # "free",
         NEW t \in tnums[c], t \in Throttles
  PROVE  num_sending[t] > 0
<1>1. c \in Holding(t)
  BY DEF Holding, Active
<1>2. Cardinality(Holding(t)) # 0
  BY <1>1, HoldersFinite, FS_EmptySet
<1> QED BY <1>2, HoldersFinite DEF CountsRight

\* At the start nobody holds anything.
LEMMA InitSound == Init => Sound
<1> SUFFICES ASSUME Init PROVE Sound
  OBVIOUS
<1>1. FlagTypes
  BY Zenon DEF Init, FlagTypes
<1>2. OtherTypes
  BY DEF Init, OtherTypes, Zero
<1>3. \A t \in Throttles : Holding(t) = {} /\ num_sending[t] = 0
  BY DEF Init, Holding, Active, Zero
<1>4. CountsRight
  BY <1>3, FS_EmptySet DEF CountsRight
<1>5. HoldersHold /\ HeadFirst /\ StartedBefore
  BY DEF Init, HoldersHold, HeadFirst, StartedBefore, Second, Zero
<1>6. MinimumUnused
  BY <1>3 DEF Init, MinimumUnused, Zero
<1> QED BY <1>1, <1>2, <1>4, <1>5, <1>6, TypesInTwo DEF Sound

(***************************************************************************)
(* Types.                                                                  *)
(***************************************************************************)
\* A quotient of naturals, and that of nothing.
LEMMA Quotients ==
  /\ \A a \in Nat, b \in Nat \ {0} : a \div b \in Nat
  /\ \A b \in Nat \ {0} : 0 \div b = 0
OBVIOUS

\* A connection has sent for a second at least, and its chunk is a number.
LEMMA Times ==
  ASSUME OtherTypes, StartedBefore, NEW c \in Clients
  PROVE  Second \in Nat /\ Elapsed(c) \in Nat \ {0} /\ Chunk(c) \in Nat
<1>1. Second \in Nat
  BY DEF OtherTypes, Second
<1>2. started_at[c] \in Nat /\ started_at[c] <= Second
  BY DEF OtherTypes, StartedBefore
<1>3. Elapsed(c) \in Nat \ {0}
  BY <1>1, <1>2 DEF Elapsed
<1>4. Chunk(c) \in Nat
  BY DEF OtherTypes, Chunk
<1> QED BY <1>1, <1>3, <1>4

\* Whatever a connection does with its flags.
LEMMA FlagsKept ==
  ASSUME TypeOK, [Next]_vars
  PROVE  FlagTypes'
<1> USE DEF FlagTypes, throttleVars, connVars
<1> FlagTypes
  BY TypesInTwo
<1>1. CASE UNCHANGED vars
  BY <1>1, Zenon DEF vars
<1>2. CASE UpdateThrottles
  BY <1>2, Zenon DEF UpdateThrottles
<1>3. CASE Tick
  BY <1>3, Zenon DEF Tick
<1>4. ASSUME NEW c \in Clients, NEW m \in Matching, Start(c, m)
      PROVE  FlagTypes'
  BY <1>4, Zenon DEF Start
<1>5. ASSUME NEW c \in Clients, NEW n \in 0 .. Size, SendSome(c, n)
      PROVE  FlagTypes'
  <2>1. CASE bytes_sent[c] + n = Size
    BY <1>5, <2>1, Zenon DEF SendSome, Cleared
  <2>2. CASE bytes_sent[c] + n # Size
    <3>1. crashed' \in BOOLEAN
      BY <1>5, <2>2, Zenon DEF SendSome, Coast
    <3> QED BY <1>5, <2>2, <3>1, Zenon DEF SendSome
  <2> QED BY <2>1, <2>2
<1>6. ASSUME NEW c \in Clients,
             SendNothing(c) \/ SendHead(c) \/ WakeupConnection(c)
      PROVE  FlagTypes'
  BY <1>6, Zenon DEF SendNothing, SendHead, WakeupConnection
<1>7. ASSUME NEW c \in Clients, Idle(c) \/ Leave(c)
      PROVE  FlagTypes'
  BY <1>7, Zenon DEF Idle, Leave, Cleared
<1> QED BY <1>1, <1>2, <1>3, <1>4, <1>5, <1>6, <1>7, Zenon DEF Next

\* A connection that is cleared is counted no more, and its numbers are zero.
LEMMA ClearedTypes ==
  ASSUME Sound, NEW c \in Clients, conn_state[c] # "free", Cleared(c)
  PROVE  /\ num_sending' \in [Throttles -> Nat]
         /\ conn_state' \in [Clients -> {"free", "sending", "pausing"}]
         /\ tnums' \in [Clients -> SUBSET Throttles]
         /\ share' \in [Clients -> Nat]
         /\ best' \in [Clients -> Nat] /\ least' \in [Clients -> Nat]
         /\ bytes_sent' \in [Clients -> Nat]
         /\ started_at' \in [Clients -> Nat] /\ active_at' \in [Clients -> Nat]
         /\ wakeup_at' \in [Clients -> Nat]
<1> OtherTypes /\ CountsRight
  BY TypesInTwo DEF Sound
<1>1. \A t \in tnums[c] : num_sending[t] \in Nat /\ num_sending[t] > 0
  BY HeldCounts DEF OtherTypes
<1> QED BY <1>1 DEF Cleared, OtherTypes

\* The other types, for the steps of one connection.
LEMMA ConnectionTypes ==
  ASSUME Sound, NEW c \in Clients,
         \/ \E m \in Matching : Start(c, m)
         \/ SendNothing(c) \/ SendHead(c) \/ \E n \in 0 .. Size : SendSome(c, n)
         \/ WakeupConnection(c) \/ Idle(c) \/ Leave(c)
  PROVE  OtherTypes'
<1> OtherTypes /\ StartedBefore
  BY TypesInTwo DEF Sound
<1>0. Second \in Nat /\ Elapsed(c) \in Nat \ {0} /\ Chunk(c) \in Nat
  BY Times
<1>1. ASSUME NEW m \in Matching, Start(c, m) PROVE OtherTypes'
  <2> DEFINE counts == [t \in Throttles |-> IF t \in m THEN num_sending[t] + 1
                                            ELSE num_sending[t]]
  <2>1. counts \in [Throttles -> Nat] /\ \A t \in m : counts[t] > 0
    BY DEF OtherTypes
  <2> HIDE DEF counts
  <2>2. ShareOf(m, counts) \in Nat
    BY <2>1, ShareIsNat
  <2>3. /\ num_sending' = counts
        /\ share' = [share EXCEPT ![c] = ShareOf(m, counts)]
        /\ best' = [best EXCEPT ![c] = ShareOf(m, counts)]
        /\ least' = [least EXCEPT ![c] = ShareOf(m, counts)]
    BY <1>1 DEF Start, counts
  <2> QED BY <1>0, <1>1, <2>1, <2>2, <2>3 DEF Start, OtherTypes
<1>2. CASE SendNothing(c)
  BY <1>2 DEF SendNothing, Pause, OtherTypes, throttleVars
<1>3. CASE SendHead(c)
  BY <1>0, <1>3 DEF SendHead, OtherTypes, throttleVars
<1>4. CASE WakeupConnection(c)
  BY <1>4 DEF WakeupConnection, OtherTypes, throttleVars
<1>5. CASE Idle(c) \/ Leave(c)
  BY <1>5, ClearedTypes DEF Idle, Leave, Overdue, OtherTypes
<1>6. ASSUME NEW n \in 0 .. Size, SendSome(c, n) PROVE OtherTypes'
  <2>1. bytes_since_avg' \in [Throttles -> Nat] /\ rate' = rate
        /\ now' = now /\ starts' = starts
    BY <1>6 DEF SendSome, OtherTypes
  <2>2. CASE bytes_sent[c] + n = Size
    BY <1>6, <2>1, <2>2, ClearedTypes DEF SendSome, OtherTypes
  <2>3. CASE bytes_sent[c] + n # Size
    <3>1. bytes_sent[c] + n \in Nat
      BY DEF OtherTypes
    <3>2. /\ conn_state' \in [Clients -> {"free", "sending", "pausing"}]
          /\ wakeup_at' \in [Clients -> Nat]
      <4>1. CASE UNCHANGED <<conn_state, wakeup_at>>
        BY <4>1 DEF OtherTypes
      <4>2. ASSUME NEW time \in Nat, Pause(c, time) PROVE <3>2
        BY <4>2 DEF Pause, OtherTypes
      <4>3. CASE share[c] # 0 /\ Coast(c, bytes_sent[c] + n)
        <5>1. (bytes_sent[c] + n) \div share[c] \in Nat
          BY <3>1, <4>3, Quotients DEF OtherTypes
        <5>2. \E time \in Nat : Pause(c, time)
          BY <1>0, <4>3, <5>1 DEF Coast, OtherTypes
        <5> QED BY <4>2, <5>2
      <4> QED BY <1>6, <2>3, <4>1, <4>3 DEF SendSome, Coast
    <3> QED BY <1>0, <1>6, <2>1, <2>3, <3>1, <3>2 DEF SendSome, OtherTypes
  <2> QED BY <2>2, <2>3
<1> QED BY <1>1, <1>2, <1>3, <1>4, <1>5, <1>6

\* Types after any step.
LEMMA StepTypes ==
  ASSUME Sound, [Next]_vars
  PROVE  TypeOK'
<1> SUFFICES OtherTypes'
  BY FlagsKept, TypesInTwo DEF Sound
<1> OtherTypes /\ CountsRight /\ HoldersHold
  BY TypesInTwo DEF Sound
<1>1. CASE UNCHANGED vars
  BY <1>1 DEF vars, throttleVars, connVars, OtherTypes
<1>2. CASE Tick
  BY <1>2 DEF Tick, throttleVars, connVars, OtherTypes
<1>3. CASE UpdateThrottles
  <2>1. rate' \in [Throttles -> Nat]
    <3>1. \A t \in Throttles : bytes_since_avg[t] \div THROTTLE_TIME \in Nat
      BY Quotients DEF OtherTypes
    <3>2. \A t \in Throttles :
            (2 * rate[t] + (bytes_since_avg[t] \div THROTTLE_TIME)) \div 3 \in Nat
      BY <3>1, Quotients DEF OtherTypes
    <3> QED BY <1>3, <3>2 DEF UpdateThrottles
  <2>2. share' \in [Clients -> Nat]
    <3>1. ASSUME NEW d \in Clients, conn_state[d] # "free"
          PROVE  ShareOf(tnums[d], num_sending) \in Nat
      <4>1. tnums[d] \in SUBSET Throttles /\ tnums[d] # {}
        BY <3>1 DEF OtherTypes, HoldersHold
      <4>2. \A t \in tnums[d] : num_sending[t] > 0
        BY <3>1, <4>1, HeldCounts
      <4> QED BY <4>1, <4>2, ShareIsNat DEF OtherTypes
    <3> QED BY <1>3, <3>1 DEF UpdateThrottles
  <2>3. best' \in [Clients -> Nat] /\ least' \in [Clients -> Nat]
    BY <1>3, <2>2 DEF UpdateThrottles, OtherTypes
  <2> QED BY <1>3, <2>1, <2>2, <2>3 DEF UpdateThrottles, Zero, OtherTypes
<1>4. CASE \E c \in Clients :
             \/ \E m \in Matching : Start(c, m)
             \/ SendNothing(c) \/ SendHead(c) \/ \E n \in 0 .. Size : SendSome(c, n)
             \/ WakeupConnection(c) \/ Idle(c) \/ Leave(c)
  BY <1>4, ConnectionTypes
<1> QED BY <1>1, <1>2, <1>3, <1>4 DEF Next

(***************************************************************************)
(* Who holds what.                                                         *)
(***************************************************************************)
\* One connection starts: it holds its throttles from now on.
LEMMA StartCounts ==
  ASSUME Sound, TypeOK', NEW c \in Clients, NEW m \in Matching, Start(c, m)
  PROVE  CountsRight' /\ MinimumUnused'
<1> OtherTypes /\ CountsRight /\ MinimumUnused
  BY TypesInTwo DEF Sound
<1>1. ASSUME NEW t \in Throttles
      PROVE  Holding(t)' = IF t \in m THEN Holding(t) \cup {c} ELSE Holding(t)
  BY <1>1 DEF Start, Holding, Active, OtherTypes
<1>2. ASSUME NEW t \in Throttles
      PROVE  num_sending'[t] = Cardinality(Holding(t)')
  <2>1. c \notin Holding(t)
    BY DEF Start, Holding, Active
  <2>2. num_sending[t] = Cardinality(Holding(t)) /\ IsFiniteSet(Holding(t))
    BY HoldersFinite DEF CountsRight
  <2>3. Cardinality(Holding(t) \cup {c}) = Cardinality(Holding(t)) + 1
    BY <2>1, <2>2, FS_AddElement
  <2>4. num_sending'[t] = IF t \in m THEN num_sending[t] + 1 ELSE num_sending[t]
    BY DEF Start, OtherTypes
  <2> QED BY <1>1, <2>2, <2>3, <2>4
<1>3. ASSUME NEW t \in Throttles, min_limit[t] > 0
      PROVE  rate'[t] = 0 /\ bytes_since_avg'[t] = 0 /\ Holding(t)' = {}
  <2>1. rate[t] = 0 /\ bytes_since_avg[t] = 0 /\ Holding(t) = {}
    BY <1>3 DEF MinimumUnused
  <2>2. t \notin m
    BY <1>3, <2>1 DEF Start, Admits
  <2> QED BY <1>1, <2>1, <2>2 DEF Start
<1> QED BY <1>2, <1>3 DEF CountsRight, MinimumUnused

\* One connection is cleared: it holds nothing any more.
LEMMA ClearedCounts ==
  ASSUME Sound, NEW c \in Clients, conn_state[c] # "free", Cleared(c)
  PROVE  /\ CountsRight'
         /\ \A t \in Throttles : Holding(t)' \subseteq Holding(t)
<1> OtherTypes /\ CountsRight
  BY TypesInTwo DEF Sound
<1>1. ASSUME NEW t \in Throttles
      PROVE  Holding(t)' = Holding(t) \ {c}
  BY DEF Cleared, Holding, Active, OtherTypes
<1>2. ASSUME NEW t \in Throttles
      PROVE  num_sending'[t] = Cardinality(Holding(t)')
  <2>1. c \in Holding(t) <=> t \in tnums[c]
    BY DEF Holding, Active
  <2>2. num_sending[t] = Cardinality(Holding(t)) /\ IsFiniteSet(Holding(t))
    BY HoldersFinite DEF CountsRight
  <2>3. Cardinality(Holding(t) \ {c}) = IF c \in Holding(t)
                                        THEN Cardinality(Holding(t)) - 1
                                        ELSE Cardinality(Holding(t))
    BY <2>2, FS_RemoveElement
  <2>4. num_sending'[t] = IF t \in tnums[c] THEN num_sending[t] - 1
                          ELSE num_sending[t]
    BY DEF Cleared, OtherTypes
  <2> QED BY <1>1, <2>1, <2>2, <2>3, <2>4
<1> QED BY <1>1, <1>2 DEF CountsRight

\* Nobody comes and nobody goes.
LEMMA SameHolders ==
  ASSUME CountsRight, tnums' = tnums, num_sending' = num_sending, Active' = Active
  PROVE  CountsRight' /\ \A t \in Throttles : Holding(t)' = Holding(t)
<1>1. \A t \in Throttles : Holding(t)' = Holding(t)
  BY DEF Holding
<1> QED BY <1>1 DEF CountsRight

\* A connection that sends: the throttles it holds have no minimum.
LEMMA SendCounts ==
  ASSUME Sound, NEW c \in Clients, NEW n \in 0 .. Size, SendSome(c, n)
  PROVE  CountsRight' /\ MinimumUnused'
<1> OtherTypes /\ CountsRight /\ MinimumUnused
  BY TypesInTwo DEF Sound
<1>1. CountsRight' /\ \A t \in Throttles : Holding(t)' \subseteq Holding(t)
  <2>1. CASE bytes_sent[c] + n = Size
    BY <2>1, ClearedCounts DEF SendSome
  <2>2. CASE bytes_sent[c] + n # Size
    <3>1. conn_state' = conn_state \/ conn_state' = [conn_state EXCEPT ![c] = "pausing"]
      BY <2>2 DEF SendSome, Coast, Pause
    <3>2. Active' = Active
      BY <3>1 DEF SendSome, Active, OtherTypes
    <3> QED BY <2>2, <3>2, SameHolders DEF SendSome
  <2> QED BY <2>1, <2>2
<1>2. ASSUME NEW t \in Throttles, min_limit[t] > 0
      PROVE  rate'[t] = 0 /\ bytes_since_avg'[t] = 0 /\ Holding(t)' = {}
  <2>1. rate[t] = 0 /\ bytes_since_avg[t] = 0 /\ Holding(t) = {}
    BY <1>2 DEF MinimumUnused
  <2>2. t \notin tnums[c]
    BY <2>1 DEF SendSome, Holding, Active
  <2> QED BY <1>1, <2>1, <2>2 DEF SendSome
<1> QED BY <1>1, <1>2 DEF MinimumUnused

\* The counts are right after any step, and a minimum still unused.
LEMMA StepCounts ==
  ASSUME Sound, TypeOK', [Next]_vars
  PROVE  CountsRight' /\ MinimumUnused'
<1> OtherTypes /\ CountsRight /\ MinimumUnused
  BY TypesInTwo DEF Sound
<1>1. ASSUME UNCHANGED <<throttleVars, tnums>>, Active' = Active
      PROVE  CountsRight' /\ MinimumUnused'
  BY <1>1, SameHolders DEF throttleVars, MinimumUnused
<1>2. CASE UNCHANGED vars \/ Tick
  BY <1>1, <1>2 DEF vars, connVars, Tick, Active
<1>3. ASSUME NEW c \in Clients,
             SendNothing(c) \/ SendHead(c) \/ WakeupConnection(c)
      PROVE  CountsRight' /\ MinimumUnused'
  <2>1. Active' = Active
    BY <1>3 DEF SendNothing, SendHead, WakeupConnection, Pause, Active, OtherTypes
  <2> QED BY <1>1, <1>3, <2>1 DEF SendNothing, SendHead, WakeupConnection
<1>4. ASSUME NEW c \in Clients, Idle(c) \/ Leave(c)
      PROVE  CountsRight' /\ MinimumUnused'
  <2>1. /\ conn_state[c] # "free" /\ Cleared(c)
        /\ rate' = rate /\ bytes_since_avg' = bytes_since_avg
    BY <1>4 DEF Idle, Leave, Overdue
  <2>2. CountsRight' /\ \A t \in Throttles : Holding(t)' \subseteq Holding(t)
    BY <2>1, ClearedCounts
  <2>3. \A t \in Throttles : Holding(t) = {} => Holding(t)' = {}
    BY <2>2
  <2> QED BY <2>1, <2>2, <2>3 DEF MinimumUnused
<1>5. CASE UpdateThrottles
  <2>1. CountsRight' /\ \A t \in Throttles : Holding(t)' = Holding(t)
    <3>1. Active' = Active
      BY <1>5 DEF UpdateThrottles, Active
    <3> QED BY <1>5, <3>1, SameHolders DEF UpdateThrottles
  <2>2. \A t \in Throttles : min_limit[t] > 0 => rate'[t] = 0
    <3>1. ASSUME NEW t \in Throttles, min_limit[t] > 0
          PROVE  (2 * rate[t] + (bytes_since_avg[t] \div THROTTLE_TIME)) \div 3 = 0
      <4>1. rate[t] = 0 /\ bytes_since_avg[t] \div THROTTLE_TIME = 0
        BY <3>1, Quotients DEF MinimumUnused
      <4> QED BY <4>1
    <3> QED BY <1>5, <3>1 DEF UpdateThrottles
  <2>3. \A t \in Throttles : bytes_since_avg'[t] = 0
    BY <1>5 DEF UpdateThrottles, Zero
  <2> QED BY <2>1, <2>2, <2>3 DEF MinimumUnused
<1>6. CASE \E c \in Clients :
             \/ \E m \in Matching : Start(c, m)
             \/ SendNothing(c) \/ SendHead(c) \/ \E n \in 0 .. Size : SendSome(c, n)
             \/ WakeupConnection(c) \/ Idle(c) \/ Leave(c)
  BY <1>3, <1>4, <1>6, StartCounts, SendCounts
<1> QED BY <1>2, <1>5, <1>6 DEF Next

(***************************************************************************)
(* Nothing is divided by zero.                                             *)
(***************************************************************************)
\* A connection whose share is zero is not too fast: it can only have written
\* its head, because a chunk of nothing after that pauses it.
LEMMA ZeroShareNotTooFast ==
  ASSUME Sound, NEW c \in Clients, NEW n \in 0 .. Size, SendSome(c, n),
         share[c] = 0
  PROVE  ~TooFast(c, bytes_sent[c] + n)
<1> OtherTypes /\ StartedBefore /\ HeadFirst
  BY TypesInTwo DEF Sound
<1>1. n = 0
  BY DEF SendSome, Chunk
<1>2. bytes_sent[c] = 0
  BY <1>1 DEF SendSome, HeadFirst
<1>3. Elapsed(c) \in Nat \ {0}
  BY Times
<1>4. (bytes_sent[c] + n) \div Elapsed(c) = 0
  BY <1>1, <1>2, <1>3, Quotients
<1> QED BY <1>4 DEF TooFast

\* No step divides by zero.
LEMMA NeverDividesStep ==
  ASSUME Sound, ~crashed, [Next]_vars
  PROVE  ~crashed'
<1>1. ASSUME NEW c \in Clients, NEW n \in 0 .. Size, SendSome(c, n)
      PROVE  crashed' = crashed
  <2>1. CASE bytes_sent[c] + n = Size
    BY <1>1, <2>1, Zenon DEF SendSome
  <2>2. CASE bytes_sent[c] + n # Size /\ share[c] = 0
    BY <1>1, <2>2, ZeroShareNotTooFast, Zenon DEF SendSome
  <2>3. CASE bytes_sent[c] + n # Size /\ share[c] # 0
    BY <1>1, <2>3, Zenon DEF SendSome, Coast
  <2> QED BY <2>1, <2>2, <2>3, Zenon
<1>2. ASSUME NEW c \in Clients, NEW m \in Matching, Start(c, m)
      PROVE  crashed' = crashed
  BY <1>2, Zenon DEF Start
<1>3. ASSUME NEW c \in Clients,
             \/ SendNothing(c) \/ SendHead(c) \/ WakeupConnection(c)
             \/ Idle(c) \/ Leave(c)
      PROVE  crashed' = crashed
  BY <1>3, Zenon DEF SendNothing, SendHead, WakeupConnection, Idle, Leave
<1>4. CASE UpdateThrottles \/ Tick \/ UNCHANGED vars
  BY <1>4, Zenon DEF UpdateThrottles, Tick, vars
<1> QED BY <1>1, <1>2, <1>3, <1>4, Zenon DEF Next

(***************************************************************************)
(* The rest of the invariant.                                              *)
(***************************************************************************)
\* Who holds nothing is free; what has sent has its head out; nobody has
\* started in the future.
LEMMA StepConnections ==
  ASSUME Sound, [Next]_vars
  PROVE  HoldersHold' /\ HeadFirst' /\ StartedBefore'
<1> OtherTypes /\ FlagTypes /\ HoldersHold /\ HeadFirst /\ StartedBefore
  BY TypesInTwo DEF Sound
<1> USE DEF HoldersHold, HeadFirst, StartedBefore, OtherTypes, FlagTypes
<1>0. Second \in Nat
  BY DEF Second
<1>1. CASE UNCHANGED vars
  BY <1>1 DEF vars, connVars, Second
<1>2. CASE Tick
  <2>1. Second <= Second'
    BY <1>2 DEF Tick, Second
  <2>2. Second' \in Nat
    BY <1>2 DEF Tick, Second
  <2> QED BY <1>0, <1>2, <2>1, <2>2 DEF Tick, connVars
<1>3. CASE UpdateThrottles
  BY <1>3 DEF UpdateThrottles, Second
<1>4. ASSUME NEW c \in Clients, NEW m \in Matching, Start(c, m)
      PROVE  HoldersHold' /\ HeadFirst' /\ StartedBefore'
  BY <1>0, <1>4 DEF Start, Second
<1>5. ASSUME NEW c \in Clients, conn_state[c] # "free", Cleared(c), now' = now
      PROVE  HoldersHold' /\ HeadFirst' /\ StartedBefore'
  BY <1>0, <1>5 DEF Cleared, Second
<1>6. ASSUME NEW c \in Clients, Idle(c) \/ Leave(c)
      PROVE  HoldersHold' /\ HeadFirst' /\ StartedBefore'
  BY <1>5, <1>6 DEF Idle, Leave, Overdue
<1>7. ASSUME NEW c \in Clients,
             SendNothing(c) \/ SendHead(c) \/ WakeupConnection(c)
      PROVE  HoldersHold' /\ HeadFirst' /\ StartedBefore'
  BY <1>7 DEF SendNothing, SendHead, WakeupConnection, Pause, Second
<1>8. ASSUME NEW c \in Clients, NEW n \in 0 .. Size, SendSome(c, n)
      PROVE  HoldersHold' /\ HeadFirst' /\ StartedBefore'
  <2>1. CASE bytes_sent[c] + n = Size
    BY <1>5, <1>8, <2>1 DEF SendSome
  <2>2. CASE bytes_sent[c] + n # Size
    <3>1. /\ bytes_sent' = [bytes_sent EXCEPT ![c] = @ + n]
          /\ heading' = [heading EXCEPT ![c] = FALSE]
          /\ UNCHANGED <<tnums, started_at, now>>
      BY <1>8, <2>2 DEF SendSome
    <3>2. HeadFirst'
      BY <3>1
    <3>3. conn_state' = conn_state \/ conn_state' = [conn_state EXCEPT ![c] = "pausing"]
      BY <1>8, <2>2 DEF SendSome, Coast, Pause
    <3>4. HoldersHold'
      BY <1>8, <3>1, <3>3 DEF SendSome
    <3> QED BY <3>1, <3>2, <3>4 DEF Second
  <2> QED BY <2>1, <2>2
<1> QED BY <1>1, <1>2, <1>3, <1>4, <1>6, <1>7, <1>8 DEF Next

\* The invariant is inductive.
LEMMA StepSound ==
  ASSUME Sound, [Next]_vars
  PROVE  Sound'
<1>1. TypeOK'
  BY StepTypes
<1> QED BY <1>1, StepCounts, StepConnections DEF Sound

\* It holds always.
LEMMA AlwaysSound == Spec => []Sound
BY InitSound, StepSound, PTL DEF Spec

(***************************************************************************)
(* The shares.                                                             *)
(***************************************************************************)
\* Nobody who divides a limit by a count gives away more than the limit.
LEMMA DivisionFits ==
  ASSUME NEW a \in Nat, NEW b \in Nat \ {0}
  PROVE  a \div b \in Nat /\ b * (a \div b) <= a /\ a < b * ((a \div b) + 1)
OBVIOUS

\* Pairs of a member and a number up to its own bound are no more than the
\* members times the bound of all.
LEMMA PairsFit ==
  ASSUME NEW A, IsFiniteSet(A), NEW k \in Nat, NEW f,
         \A c \in A : f[c] \in Nat /\ f[c] <= k
  PROVE  /\ IsFiniteSet(UNION {{c} \X (1 .. f[c]) : c \in A})
         /\ Cardinality(UNION {{c} \X (1 .. f[c]) : c \in A}) <= Cardinality(A) * k
<1> DEFINE pairs == UNION {{c} \X (1 .. f[c]) : c \in A}
<1>1. pairs \subseteq A \X (1 .. k)
  OBVIOUS
<1>2. IsFiniteSet(1 .. k) /\ Cardinality(1 .. k) = k
  BY FS_Interval
<1>3. /\ IsFiniteSet(A \X (1 .. k))
      /\ Cardinality(A \X (1 .. k)) = Cardinality(A) * k
  BY <1>2, FS_Product
<1> HIDE DEF pairs
<1>4. IsFiniteSet(pairs) /\ Cardinality(pairs) <= Cardinality(A \X (1 .. k))
  BY <1>1, <1>3, FS_Subset
<1> QED BY <1>3, <1>4 DEF pairs

\* The shares update_throttles deals out fit each throttle.
LEMMA UpdateFits ==
  ASSUME Sound, TypeOK', UpdateThrottles, NEW t \in Throttles
  PROVE  Promised(t)' <= max_limit[t]
<1> OtherTypes /\ OtherTypes' /\ CountsRight /\ HoldersHold
  BY TypesInTwo DEF Sound
<1> DEFINE A == Holding(t)
           n == num_sending[t]
           k == max_limit[t] \div n
<1>1. Holding(t)' = A
  BY DEF UpdateThrottles, Holding, Active
<1>2. IsFiniteSet(A) /\ n \in Nat /\ Cardinality(A) = n
  BY HoldersFinite DEF CountsRight, OtherTypes
<1>3. CASE A = {}
  <2>1. UNION {{c} \X (1 .. share'[c]) : c \in {}} = {}
    OBVIOUS
  <2>2. Promised(t)' = Cardinality(UNION {{c} \X (1 .. share'[c]) : c \in {}})
    BY <1>1, <1>3 DEF Promised
  <2>3. Promised(t)' = 0
    BY <2>1, <2>2, FS_EmptySet
  <2>4. max_limit[t] \in Nat
    OBVIOUS
  <2> QED BY <2>3, <2>4
<1>4. CASE A # {}
  <2>1. n # 0
    BY <1>2, <1>4, FS_EmptySet
  <2>2. k \in Nat /\ n * k <= max_limit[t]
    BY <1>2, <2>1, DivisionFits
  <2>3. ASSUME NEW c \in A PROVE share'[c] \in Nat /\ share'[c] <= k
    <3>1. conn_state[c] # "free" /\ t \in tnums[c] /\ c \in Clients
      BY DEF Holding, Active
    <3>2. tnums[c] \in SUBSET Throttles /\ tnums[c] # {}
      BY <3>1 DEF OtherTypes, HoldersHold
    <3>3. \A u \in tnums[c] : num_sending[u] > 0
      BY <3>1, <3>2, HeldCounts
    <3>4. ShareOf(tnums[c], num_sending) \in Nat
          /\ ShareOf(tnums[c], num_sending) <= k
      BY <3>1, <3>2, <3>3, ShareIsNat DEF OtherTypes
    <3> QED BY <3>1, <3>4 DEF UpdateThrottles
  <2> HIDE DEF A, n, k
  <2>4. Cardinality(UNION {{c} \X (1 .. share'[c]) : c \in A}) <= Cardinality(A) * k
    BY <1>2, <2>2, <2>3, PairsFit
  <2>5. Promised(t)' = Cardinality(UNION {{c} \X (1 .. share'[c]) : c \in A})
    BY <1>1 DEF Promised
  <2>6. n * k = Cardinality(A) * k
    BY <1>2
  <2> DEFINE most == n * k
             all == Promised(t)'
  <2>7. all <= most
    BY <2>4, <2>5, <2>6
  <2>8. most \in Nat /\ most <= max_limit[t] /\ max_limit[t] \in Nat
    BY <1>2, <2>2
  <2>9. all \in Nat
    <3>1. IsFiniteSet(UNION {{c} \X (1 .. share'[c]) : c \in A})
      BY <1>2, <2>2, <2>3, PairsFit
    <3> QED BY <2>5, <3>1, FS_CardinalityType
  <2> HIDE DEF most, all
  <2>10. all <= max_limit[t]
    BY <2>7, <2>8, <2>9
  <2> QED BY <2>10 DEF all
<1> QED BY <1>3, <1>4

(***************************************************************************)
(* The schedule.                                                           *)
(***************************************************************************)
\* Products and sums of naturals in order.
LEMMA ProductsInOrder ==
  ASSUME NEW a \in Nat, NEW b \in Nat, NEW x \in Nat, NEW y \in Nat,
         a <= b, x <= y
  PROVE  a * x \in Nat /\ b * y \in Nat /\ a * x <= b * y
<1>1. a * x \in Nat /\ b * x \in Nat /\ b * y \in Nat
  OBVIOUS
<1>2. (b - a) * x >= 0 /\ b * (y - x) >= 0
  OBVIOUS
<1>3. (b - a) * x = b * x - a * x /\ b * (y - x) = b * y - b * x
  OBVIOUS
<1> QED BY <1>1, <1>2, <1>3

\* The greater of two and a number.
LEMMA TwoOrMore ==
  ASSUME NEW k \in Nat
  PROVE  Max({2, k}) = IF k <= 2 THEN 2 ELSE k
<1> DEFINE m == IF k <= 2 THEN 2 ELSE k
<1>1. m \in {2, k} /\ \A y \in {2, k} : m >= y
  OBVIOUS
<1>2. \A z \in {2, k} : (\A y \in {2, k} : z >= y) => z = m
  OBVIOUS
<1> QED BY <1>1, <1>2 DEF Max

\* Half seconds and seconds.
LEMMA Halves ==
  ASSUME NEW t \in Nat
  PROVE  /\ t \div 2 \in Nat
         /\ t = 2 * (t \div 2) \/ t = 2 * (t \div 2) + 1
         /\ \A k \in Nat : (t + 2 * k) \div 2 = (t \div 2) + k
         /\ (t + 1) \div 2 <= (t \div 2) + 1
         /\ \A u \in Nat : t <= u => t \div 2 <= u \div 2
OBVIOUS

\* What a connection may have sent when it goes on at t: its largest share and
\* a byte a second more, since rates are rounded down, and as if it had begun a
\* second earlier.
Room(most, t, began) == (most + 1) * Max({2, (t \div 2) - began + 1})

\* Later there is no less room, nor with a larger share.
LEMMA RoomGrows ==
  ASSUME NEW most \in Nat, NEW more \in Nat, NEW t \in Nat, NEW u \in Nat,
         NEW began \in Nat, began <= t \div 2, t <= u, most <= more
  PROVE  /\ Room(most, t, began) \in Nat /\ Room(more, u, began) \in Nat
         /\ Room(most, t, began) <= Room(more, u, began)
         /\ Room(most, t, began) >= 2 * (most + 1)
<1> DEFINE x == (t \div 2) - began + 1
           y == (u \div 2) - began + 1
<1>1. t \div 2 <= u \div 2 /\ t \div 2 \in Nat /\ u \div 2 \in Nat
  BY Halves
<1>2. x \in Nat /\ y \in Nat /\ x <= y
  BY <1>1
<1> HIDE DEF x, y
<1>3. /\ Max({2, x}) \in Nat /\ Max({2, y}) \in Nat
      /\ 2 <= Max({2, x}) /\ Max({2, x}) <= Max({2, y})
  BY <1>2, TwoOrMore
<1>4. most + 1 \in Nat /\ more + 1 \in Nat /\ most + 1 <= more + 1
  OBVIOUS
<1> DEFINE a == Max({2, x})
           b == Max({2, y})
           p == most + 1
           q == more + 1
<1>5. a \in Nat /\ b \in Nat /\ 2 <= a /\ a <= b /\ p \in Nat /\ q \in Nat /\ p <= q
  BY <1>3, <1>4
<1> HIDE DEF a, b, p, q
<1>6. p * a \in Nat /\ q * b \in Nat /\ p * a <= q * b
  BY <1>5, ProductsInOrder
<1>7. p * 2 <= p * a
  BY <1>5, ProductsInOrder
<1>8. Room(most, t, began) = p * a /\ Room(more, u, began) = q * b
  BY DEF Room, x, y, a, b, p, q
<1>9. 2 * p = p * 2
  BY <1>5
<1> QED BY <1>6, <1>7, <1>8, <1>9 DEF p

\* Seconds from began to half second t, one at least.
Length(t, began) == IF t \div 2 = began THEN 1 ELSE (t \div 2) - began

\* The room at t, with the time that counts.
LEMMA RoomIs ==
  ASSUME NEW most \in Nat, NEW t \in Nat, NEW began \in Nat, began <= t \div 2
  PROVE  /\ Length(t, began) \in Nat \ {0}
         /\ Room(most, t, began) = (most + 1) * (Length(t, began) + 1)
<1> DEFINE x == (t \div 2) - began + 1
<1>1. t \div 2 \in Nat
  BY Halves
<1>2. x \in Nat /\ Length(t, began) \in Nat \ {0}
      /\ (IF x <= 2 THEN 2 ELSE x) = Length(t, began) + 1
  BY <1>1 DEF Length
<1> HIDE DEF x
<1>3. Max({2, x}) = Length(t, began) + 1
  BY <1>2, TwoOrMore
<1> QED BY <1>2, <1>3 DEF Room, x

\* Who is not too fast is within its room, and in the first second within its
\* share.
LEMMA InTime ==
  ASSUME NEW most \in Nat, NEW t \in Nat, NEW began \in Nat, began <= t \div 2,
         NEW sent \in Nat, NEW part \in Nat, part <= most,
         sent \div Length(t, began) <= part
  PROVE  /\ sent <= Room(most, t, began)
         /\ t \div 2 = began => sent <= most
<1> DEFINE e == Length(t, began)
           d == sent \div e
<1>1. e \in Nat \ {0}
  BY RoomIs
<1>2. d \in Nat /\ d <= part
  BY <1>1, DivisionFits
<1>3. sent < e * (d + 1)
  BY <1>1, DivisionFits
<1>4. Room(most, t, began) = (most + 1) * (e + 1)
  BY RoomIs
<1>5. t \div 2 = began => e = 1
  BY DEF Length
<1> HIDE DEF e, d
<1>6. t \div 2 = began => sent <= most
  BY <1>2, <1>3, <1>5
<1> DEFINE d1 == d + 1
           m1 == most + 1
           e1 == e + 1
<1>7. d1 \in Nat /\ m1 \in Nat /\ e1 \in Nat /\ d1 <= m1 /\ e <= e1 /\ e \in Nat
  BY <1>1, <1>2
<1>8. sent < e * d1 /\ Room(most, t, began) = m1 * e1
  BY <1>3, <1>4
<1> HIDE DEF d1, m1, e1
<1>9. e * d1 \in Nat /\ e * d1 <= e1 * m1 /\ e1 * m1 = m1 * e1 /\ e1 * m1 \in Nat
  BY <1>7, ProductsInOrder
<1>10. sent <= Room(most, t, began)
  BY <1>8, <1>9
<1> QED BY <1>6, <1>10

\* When a pause ends, as in Coast.
LEMMA GoesOn ==
  ASSUME NEW t \in Nat, NEW e \in Nat, NEW q \in Nat,
         NEW u, u = IF q > e THEN t + 2 * (q - e) ELSE t + 1
  PROVE  /\ u \in Nat /\ t < u
         /\ q > e => u \div 2 = (t \div 2) + (q - e)
         /\ q <= e => t \div 2 <= u \div 2 /\ u \div 2 <= (t \div 2) + 1
<1>1. CASE q > e
  <2> DEFINE k == q - e
  <2>1. k \in Nat /\ k > 0 /\ u = t + 2 * k
    BY <1>1
  <2> HIDE DEF k
  <2>2. u \in Nat /\ t < u /\ u \div 2 = (t \div 2) + k
    BY <2>1, Halves
  <2> QED BY <1>1, <2>2 DEF k
<1>2. CASE ~(q > e)
  <2>1. u = t + 1
    BY <1>2
  <2> QED BY <1>2, <2>1
<1> QED BY <1>1, <1>2

\* Later there is more room.
LEMMA RoomLater ==
  ASSUME NEW most \in Nat, NEW t \in Nat, NEW u \in Nat, NEW began \in Nat,
         began <= t \div 2, t < u
  PROVE  /\ Room(most, t, began) <= Room(most, u, began)
         /\ Room(most, u, began) \in Nat
         /\ Room(most, u, began) >= 2 * (most + 1)
         /\ Room(most, u, began) = (most + 1) * (Length(u, began) + 1)
<1>1. t <= u /\ began <= u \div 2 /\ most <= most
  BY Halves
<1>2. Room(most, t, began) <= Room(most, u, began)
  BY <1>1, RoomGrows
<1>3. u <= u
  OBVIOUS
<1>4. Room(most, u, began) \in Nat /\ Room(most, u, began) >= 2 * (most + 1)
  BY <1>1, <1>3, RoomGrows
<1>5. Room(most, u, began) = (most + 1) * (Length(u, began) + 1)
  BY <1>1, RoomIs
<1> QED BY <1>2, <1>4, <1>5

\* Who is too fast goes on at u, and is within its room then: with q the seconds
\* its share needs for what is sent, and e those that have passed.
LEMMA Coasting ==
  ASSUME NEW most \in Nat, NEW t \in Nat, NEW began \in Nat, began <= t \div 2,
         NEW had \in Nat, NEW n \in Nat, NEW part \in Nat \ {0}, part <= most,
         n <= part \div 4, had <= Room(most, t, began),
         t = 2 * began => had <= most,
         t = 2 * began + 1 => had <= most + (most \div 4),
         NEW e, e = Length(t, began),
         NEW q, q = (had + n) \div part,
         NEW u \in Nat, t < u,
         q > e => u \div 2 = (t \div 2) + (q - e),
         q <= e => t \div 2 <= u \div 2 /\ u \div 2 <= (t \div 2) + 1
  PROVE  /\ had + n <= Room(most, u, began)
         /\ had + n <= Room(most, t, began) + (most \div 4)
         /\ u = 2 * began + 1 => had + n <= most + (most \div 4)
         /\ \A low \in Nat : low <= part =>
              low * (e + ((u \div 2) - (t \div 2)))
                <= Room(most, t, began) + (most \div 4)
<1> DEFINE sent == had + n
           quarter == most \div 4
           s == t \div 2
<1>1. /\ s \in Nat /\ (t = 2 * s \/ t = 2 * s + 1) /\ began <= s
      /\ quarter \in Nat /\ 4 * quarter <= most
      /\ n <= quarter /\ sent \in Nat
  <2>1. s \in Nat /\ (t = 2 * s \/ t = 2 * s + 1) /\ began <= s
    BY Halves
  <2>2. quarter \in Nat /\ 4 * quarter <= most
    BY DivisionFits
  <2>3. part \div 4 \in Nat /\ part \div 4 <= quarter
    OBVIOUS
  <2> QED BY <2>1, <2>2, <2>3
<1>2. q \in Nat /\ part * q <= sent /\ sent < part * (q + 1)
  BY <1>1, DivisionFits
<1>3. e \in Nat \ {0} /\ (s = began => e = 1) /\ (s # began => e = s - began)
  BY <1>1 DEF Length
<1>4. Room(most, t, began) \in Nat /\ Room(most, t, began) >= 2 * (most + 1)
      /\ Room(most, t, began) = (most + 1) * (e + 1)
  <2>1. t <= t /\ most <= most
    OBVIOUS
  <2>2. Room(most, t, began) \in Nat /\ Room(most, t, began) >= 2 * (most + 1)
    BY <2>1, RoomGrows
  <2>3. Room(most, t, began) = (most + 1) * (e + 1)
    BY RoomIs
  <2> QED BY <2>2, <2>3
<1>5. /\ u \div 2 \in Nat
      /\ q > e => u \div 2 = s + (q - e)
      /\ q <= e => u \div 2 <= s + 1 /\ s <= u \div 2
  BY Halves
<1>6. sent <= Room(most, t, began) + quarter
  BY <1>1, <1>4
<1> HIDE DEF sent, quarter, s
<1>7. Room(most, t, began) <= Room(most, u, began) /\ Room(most, u, began) \in Nat
      /\ Room(most, u, began) >= 2 * (most + 1)
      /\ Room(most, u, began) = (most + 1) * (Length(u, began) + 1)
  BY RoomLater
<1>8. s = began => sent <= most + 2 * quarter
  BY <1>1 DEF sent, quarter
<1>9. u = 2 * began + 1 => sent <= most + quarter
  <2>1. u = 2 * began + 1 => t = 2 * began
    BY <1>1, <1>5
  <2> QED BY <1>1, <2>1 DEF sent, quarter
<1>10. sent <= Room(most, u, began)
  <2>1. CASE s = began
    BY <1>1, <1>7, <1>8, <2>1
  <2>2. CASE s # began /\ q > e
    <3>1. Length(u, began) = q
      BY <1>1, <1>2, <1>3, <1>5, <2>2 DEF Length
    <3>2. sent < part * (q + 1) /\ part * (q + 1) \in Nat
      BY <1>2
    <3> DEFINE q1 == q + 1
               m1 == most + 1
    <3>3. q1 \in Nat /\ m1 \in Nat /\ part \in Nat /\ part <= m1
      BY <1>2
    <3> HIDE DEF q1, m1
    <3>4. part * q1 <= m1 * q1
      BY <3>3, ProductsInOrder
    <3>5. Room(most, u, began) = m1 * q1 /\ sent < part * q1 /\ part * q1 \in Nat
      BY <1>7, <3>1, <3>2 DEF q1, m1
    <3> QED BY <1>1, <1>7, <3>4, <3>5
  <2>3. CASE q <= e
    <3> DEFINE q1 == q + 1
               e1 == e + 1
               m1 == most + 1
    <3>1. q1 \in Nat /\ e1 \in Nat /\ m1 \in Nat /\ part \in Nat /\ part <= m1
          /\ q1 <= e1
      BY <1>2, <1>3, <2>3
    <3>2. sent < part * q1 /\ Room(most, t, began) = m1 * e1
      BY <1>2, <1>4
    <3> HIDE DEF q1, e1, m1
    <3>3. part * q1 <= m1 * e1 /\ part * q1 \in Nat /\ m1 * e1 \in Nat
      BY <3>1, ProductsInOrder
    <3> QED BY <1>1, <1>4, <1>7, <3>2, <3>3
  <2>4. q > e \/ q <= e
    BY <1>2, <1>3
  <2> QED BY <2>1, <2>2, <2>3, <2>4
<1>11. ASSUME NEW low \in Nat, low <= part
       PROVE  low * (e + ((u \div 2) - s)) <= Room(most, t, began) + quarter
  <2>1. CASE q > e
    <3>1. e + ((u \div 2) - s) = q
      BY <1>1, <1>2, <1>3, <1>5, <2>1
    <3>2. low * q <= part * q /\ low * q \in Nat /\ part * q \in Nat
      BY <1>2, <1>11, ProductsInOrder
    <3>3. low * q <= sent
      BY <1>1, <1>2, <3>2
    <3> QED BY <1>1, <1>4, <1>6, <3>1, <3>2, <3>3
  <2>2. CASE q <= e
    <3> DEFINE w == e + ((u \div 2) - s)
               e1 == e + 1
               m1 == most + 1
    <3>1. w \in Nat /\ e1 \in Nat /\ w <= e1 /\ m1 \in Nat /\ low <= m1
      BY <1>1, <1>2, <1>3, <1>5, <1>11, <2>2
    <3>2. Room(most, t, began) = m1 * e1
      BY <1>4
    <3> HIDE DEF w, e1, m1
    <3>3. low * w <= m1 * e1 /\ low * w \in Nat /\ m1 * e1 \in Nat
      BY <3>1, ProductsInOrder
    <3>4. low * w <= Room(most, t, began) + quarter
      BY <1>1, <3>2, <3>3
    <3> QED BY <3>4 DEF w
  <2>3. q > e \/ q <= e
    BY <1>2, <1>3
  <2> QED BY <2>1, <2>2, <2>3
<1> QED BY <1>6, <1>9, <1>10, <1>11 DEF sent, quarter, s

\* What a connection may have sent before it goes on at t: little in the first
\* second, when a pause may be no longer than half a second.
Fits(sent, most, t, began) ==
  /\ t = 2 * began => sent <= most
  /\ t = 2 * began + 1 => sent <= most + (most \div 4)
  /\ sent <= Room(most, t, began)

\* And at any time, a chunk more.
Slack(sent, most, t, began) == sent <= Room(most, t, began) + (most \div 4)

\* What fits fits later, and with a larger share.
LEMMA FitsLater ==
  ASSUME NEW sent \in Nat, NEW most \in Nat, NEW more \in Nat, NEW t \in Nat,
         NEW u \in Nat, NEW began \in Nat,
         began <= t \div 2, t <= u, most <= more
  PROVE  /\ Fits(sent, most, t, began) => Fits(sent, more, u, began)
         /\ Slack(sent, most, t, began) => Slack(sent, more, u, began)
         /\ Fits(sent, most, t, began) => Slack(sent, more, u, began)
<1>1. /\ Room(most, t, began) \in Nat /\ Room(more, u, began) \in Nat
      /\ Room(most, t, began) <= Room(more, u, began)
  BY RoomGrows
<1>2. /\ most \div 4 \in Nat /\ more \div 4 \in Nat
      /\ most \div 4 <= more \div 4
  OBVIOUS
<1>3. 2 * began <= t
  BY Halves
<1> DEFINE a == most \div 4
           b == more \div 4
           x == Room(most, t, began)
           y == Room(more, u, began)
<1>4. /\ x \in Nat /\ y \in Nat /\ x <= y
      /\ a \in Nat /\ b \in Nat /\ a <= b
  BY <1>1, <1>2
<1> HIDE DEF a, b, x, y
<1>5. Fits(sent, most, t, began) <=>
        /\ t = 2 * began => sent <= most
        /\ t = 2 * began + 1 => sent <= most + a
        /\ sent <= x
  BY DEF Fits, a, x
<1>6. Fits(sent, more, u, began) <=>
        /\ u = 2 * began => sent <= more
        /\ u = 2 * began + 1 => sent <= more + b
        /\ sent <= y
  BY DEF Fits, b, y
<1>7. /\ Slack(sent, most, t, began) <=> sent <= x + a
      /\ Slack(sent, more, u, began) <=> sent <= y + b
  BY DEF Slack, a, b, x, y
<1> QED BY <1>3, <1>4, <1>5, <1>6, <1>7

\* The shorter a pause or the smaller the share the better.
LEMMA ShortLater ==
  ASSUME NEW low \in Nat, NEW lower \in Nat, NEW ran \in Nat, NEW wait \in Nat,
         NEW most \in Nat, NEW more \in Nat, NEW less \in Nat,
         lower <= low, most <= more, less <= wait,
         Short(low, ran, wait, most)
  PROVE  Short(lower, ran, less, more)
<1> DEFINE x == ran + wait
           y == ran + less
           z == ran + 1
           m1 == most + 1
           m2 == more + 1
           a == most \div 4
           b == more \div 4
<1>1. /\ x \in Nat /\ y \in Nat /\ z \in Nat /\ m1 \in Nat /\ m2 \in Nat
      /\ a \in Nat /\ b \in Nat /\ y <= x /\ m1 <= m2 /\ a <= b
  OBVIOUS
<1>2. low * x <= m1 * z + a
  BY DEF Short
<1> HIDE DEF x, y, z, m1, m2, a, b
<1>3. lower * y <= low * x /\ lower * y \in Nat /\ low * x \in Nat
  BY <1>1, ProductsInOrder
<1>4. m1 * z <= m2 * z /\ m1 * z \in Nat /\ m2 * z \in Nat
  <2>1. z <= z
    BY <1>1
  <2> QED BY <1>1, <2>1, ProductsInOrder
<1>5. lower * y <= m2 * z + b
  BY <1>1, <1>2, <1>3, <1>4
<1> QED BY <1>5 DEF Short, y, z, m2, b

(***************************************************************************)
(* The invariant of the schedule.  A connection that waits is measured at  *)
(* the time it goes on, and one that sends, now: there it is within its    *)
(* room.  So it is a chunk beyond its room at most at any time, and while  *)
(* it waits the pause is short for what it can have sent.                  *)
(***************************************************************************)
Resumes(c) == IF conn_state[c] = "pausing" THEN wakeup_at[c] ELSE now

SharesBetween(c) == least[c] <= share[c] /\ share[c] <= best[c]

TimesInOrder(c) ==
  /\ started_at[c] <= active_at[c] /\ active_at[c] <= Second
  /\ now <= Resumes(c)

Ahead(c) ==
  /\ Fits(bytes_sent[c], best[c], Resumes(c), started_at[c])
  /\ Slack(bytes_sent[c], best[c], now, started_at[c])

PauseShort(c) ==
  conn_state[c] = "pausing" /\ least[c] >= 4 =>
    Short(least[c], Ran(c), (wakeup_at[c] \div 2) - active_at[c], best[c])

PacedAt(c) == SharesBetween(c) /\ TimesInOrder(c) /\ Ahead(c) /\ PauseShort(c)

Paced == \A c \in Clients : conn_state[c] # "free" => PacedAt(c)

\* The numbers of a connection.
LEMMA Numbers ==
  ASSUME OtherTypes, NEW c \in Clients
  PROVE  /\ bytes_sent[c] \in Nat /\ best[c] \in Nat /\ least[c] \in Nat
         /\ share[c] \in Nat /\ started_at[c] \in Nat /\ active_at[c] \in Nat
         /\ wakeup_at[c] \in Nat /\ now \in Nat /\ Resumes(c) \in Nat
         /\ Second \in Nat /\ Second = now \div 2
<1>1. Second \in Nat
  BY Halves DEF OtherTypes, Second
<1> QED BY <1>1 DEF OtherTypes, Resumes, Second

\* A connection that a step leaves alone stays paced.
LEMMA OthersPaced ==
  ASSUME NEW d \in Clients, now' = now,
         conn_state'[d] = conn_state[d], share'[d] = share[d],
         best'[d] = best[d], least'[d] = least[d],
         bytes_sent'[d] = bytes_sent[d], started_at'[d] = started_at[d],
         active_at'[d] = active_at[d], wakeup_at'[d] = wakeup_at[d]
  PROVE  PacedAt(d)' <=> PacedAt(d)
BY DEF PacedAt, SharesBetween, TimesInOrder, Ahead, PauseShort, Resumes, Ran, Second

\* A connection starts on its schedule.
LEMMA StartPaced ==
  ASSUME Sound, TypeOK', NEW c \in Clients, NEW m \in Matching, Start(c, m)
  PROVE  PacedAt(c)'
<1> OtherTypes /\ OtherTypes'
  BY TypesInTwo DEF Sound
<1>1. /\ conn_state'[c] = "sending" /\ bytes_sent'[c] = 0
      /\ started_at'[c] = Second /\ active_at'[c] = Second /\ now' = now
      /\ best'[c] = share'[c] /\ least'[c] = share'[c]
  BY DEF Start, OtherTypes
<1>2. share'[c] \in Nat /\ now \in Nat /\ Second \in Nat /\ Second = now \div 2
  <2>1. share'[c] \in Nat
    BY DEF OtherTypes
  <2> QED BY <2>1, Numbers
<1>3. SharesBetween(c)' /\ PauseShort(c)'
  BY <1>1, <1>2 DEF SharesBetween, PauseShort
<1>4. TimesInOrder(c)'
  BY <1>1, <1>2 DEF TimesInOrder, Resumes, Second
<1> DEFINE most == share'[c]
           began == Second
<1>5. Fits(0, most, now, began) /\ Slack(0, most, now, began)
  <2>1. most \in Nat /\ now \in Nat /\ began \in Nat /\ began <= now \div 2
        /\ now <= now /\ most <= most
    BY <1>2
  <2> HIDE DEF most, began
  <2>2. Room(most, now, began) \in Nat
    BY <2>1, RoomGrows
  <2>3. most \div 4 \in Nat
    BY <2>1
  <2> QED BY <2>1, <2>2, <2>3 DEF Fits, Slack
<1>6. Ahead(c)'
  BY <1>1, <1>5 DEF Ahead, Resumes
<1> QED BY <1>3, <1>4, <1>6 DEF PacedAt

\* A connection that has been told to wait a while, or goes on when its pause is
\* over, is as far ahead as it was.
LEMMA ResumesLater ==
  ASSUME OtherTypes, OtherTypes', NEW c \in Clients, PacedAt(c),
         bytes_sent'[c] = bytes_sent[c], started_at'[c] = started_at[c],
         best[c] <= best'[c], now <= now', Resumes(c) <= Resumes(c)'
  PROVE  Ahead(c)'
<1> DEFINE sent == bytes_sent[c]
           began == started_at[c]
           most == best[c]
           more == best'[c]
           t == Resumes(c)
           u == Resumes(c)'
           n1 == now
           n2 == now'
<1>1. /\ sent \in Nat /\ began \in Nat /\ most \in Nat /\ t \in Nat /\ n1 \in Nat
      /\ began <= n1 \div 2 /\ n1 <= t
  <2>1. /\ bytes_sent[c] \in Nat /\ started_at[c] \in Nat /\ best[c] \in Nat
        /\ Resumes(c) \in Nat /\ now \in Nat /\ active_at[c] \in Nat
        /\ Second \in Nat /\ Second = now \div 2
    BY Numbers
  <2>2. started_at[c] <= active_at[c] /\ active_at[c] <= Second /\ now <= Resumes(c)
    BY DEF PacedAt, TimesInOrder
  <2>3. started_at[c] <= Second
    BY <2>1, <2>2
  <2> QED BY <2>1, <2>2, <2>3
<1>2. more \in Nat /\ u \in Nat /\ n2 \in Nat
  BY DEF OtherTypes, Resumes
<1>3. most <= more /\ t <= u /\ n1 <= n2
  OBVIOUS
<1>4. Fits(sent, most, t, began) /\ Slack(sent, most, n1, began)
  BY DEF PacedAt, Ahead
<1>5. Ahead(c)' <=> Fits(sent, more, u, began) /\ Slack(sent, more, n2, began)
  BY DEF Ahead
<1> HIDE DEF sent, began, most, more, t, u, n1, n2
<1>6. began <= t \div 2
  <2>1. n1 \div 2 <= t \div 2 /\ n1 \div 2 \in Nat /\ t \div 2 \in Nat
    BY <1>1, Halves
  <2> QED BY <1>1, <2>1
<1>7. Fits(sent, more, u, began)
  BY <1>1, <1>2, <1>3, <1>4, <1>6, FitsLater
<1>8. Slack(sent, more, n2, began)
  BY <1>1, <1>2, <1>3, <1>4, FitsLater
<1> QED BY <1>5, <1>7, <1>8

\* The seconds a connection ran, and those of its pause.
LEMMA WaitIs ==
  ASSUME OtherTypes, NEW c \in Clients, PacedAt(c), conn_state[c] = "pausing"
  PROVE  Ran(c) \in Nat /\ (wakeup_at[c] \div 2) - active_at[c] \in Nat
         /\ Second - active_at[c] <= (wakeup_at[c] \div 2) - active_at[c]
<1>1. /\ started_at[c] \in Nat /\ active_at[c] \in Nat /\ wakeup_at[c] \in Nat
      /\ now \in Nat /\ Second \in Nat /\ Second = now \div 2
  BY Numbers
<1>2. /\ started_at[c] <= active_at[c] /\ active_at[c] <= Second
      /\ now <= wakeup_at[c]
  BY DEF PacedAt, TimesInOrder, Resumes
<1>3. Ran(c) \in Nat
  BY <1>1, <1>2 DEF Ran
<1>4. now \div 2 <= wakeup_at[c] \div 2 /\ wakeup_at[c] \div 2 \in Nat
  BY <1>1, <1>2, Halves
<1> QED BY <1>1, <1>2, <1>3, <1>4

\* A socket that takes nothing is waited for; only a share of less than four
\* writes nothing.
LEMMA NothingPaced ==
  ASSUME Sound, TypeOK', NEW c \in Clients, PacedAt(c), SendNothing(c)
  PROVE  PacedAt(c)'
<1> OtherTypes /\ OtherTypes'
  BY TypesInTwo DEF Sound
<1>1. /\ conn_state[c] = "sending" /\ conn_state'[c] = "pausing"
      /\ wakeup_at'[c] = now \/ wakeup_at'[c] = now + 1
      /\ Chunk(c) = 0
      /\ UNCHANGED <<now, share, best, least, bytes_sent, started_at, active_at>>
  BY DEF SendNothing, Pause, OtherTypes
<1>2. now \in Nat /\ share[c] \in Nat /\ least[c] \in Nat
  BY Numbers
<1>3. Resumes(c) = now /\ Resumes(c) <= Resumes(c)' /\ now <= Resumes(c)'
  BY <1>1, <1>2 DEF Resumes
<1>4. now <= now' /\ best[c] <= best'[c]
  BY <1>1, Numbers
<1>5. Ahead(c)'
  BY <1>1, <1>3, <1>4, ResumesLater
<1>6. TimesInOrder(c)' /\ SharesBetween(c)'
  BY <1>1, <1>3 DEF PacedAt, TimesInOrder, SharesBetween, Second
<1>7. PauseShort(c)'
  <2>1. share[c] < 4 /\ least[c] <= share[c]
    BY <1>1, <1>2 DEF Chunk, PacedAt, SharesBetween
  <2> QED BY <1>1, <1>2, <2>1 DEF PauseShort
<1> QED BY <1>5, <1>6, <1>7 DEF PacedAt

\* Some of the head.
LEMMA HeadPaced ==
  ASSUME Sound, TypeOK', NEW c \in Clients, PacedAt(c), SendHead(c)
  PROVE  PacedAt(c)'
<1> OtherTypes /\ OtherTypes'
  BY TypesInTwo DEF Sound
<1>1. /\ conn_state[c] = "sending" /\ active_at'[c] = Second
      /\ UNCHANGED <<conn_state, now, share, best, least, bytes_sent,
                     started_at, wakeup_at>>
  BY DEF SendHead, OtherTypes
<1>2. Resumes(c)' = Resumes(c) /\ Ahead(c)' /\ SharesBetween(c)' /\ PauseShort(c)'
  BY <1>1 DEF Resumes, PacedAt, Ahead, SharesBetween, PauseShort
<1>3. TimesInOrder(c)'
  <2>1. started_at[c] <= Second /\ Second \in Nat
    BY Numbers DEF Sound, StartedBefore
  <2>2. now <= Resumes(c)
    BY DEF PacedAt, TimesInOrder
  <2> QED BY <1>1, <1>2, <2>1, <2>2 DEF TimesInOrder, Second
<1> QED BY <1>2, <1>3 DEF PacedAt

\* A pause is over.
LEMMA WakeupPaced ==
  ASSUME Sound, TypeOK', NEW c \in Clients, PacedAt(c), WakeupConnection(c)
  PROVE  PacedAt(c)'
<1> OtherTypes /\ OtherTypes'
  BY TypesInTwo DEF Sound
<1>1. /\ conn_state[c] = "pausing" /\ wakeup_at[c] <= now
      /\ conn_state'[c] = "sending"
      /\ UNCHANGED <<now, share, best, least, bytes_sent, started_at, active_at>>
  BY DEF WakeupConnection, OtherTypes
<1>2. Resumes(c) = now /\ Resumes(c)' = now /\ now \in Nat
  <2>1. now \in Nat /\ wakeup_at[c] \in Nat
    BY Numbers
  <2>2. now <= wakeup_at[c]
    BY <1>1 DEF PacedAt, TimesInOrder, Resumes
  <2> QED BY <1>1, <2>1, <2>2 DEF Resumes
<1>3. Ahead(c)'
  BY <1>1, <1>2 DEF PacedAt, Ahead
<1>4. TimesInOrder(c)' /\ SharesBetween(c)' /\ PauseShort(c)'
  BY <1>1, <1>2 DEF PacedAt, TimesInOrder, SharesBetween, PauseShort, Second
<1> QED BY <1>3, <1>4 DEF PacedAt

\* The shares are dealt out anew.
LEMMA UpdatePaced ==
  ASSUME Sound, TypeOK', UpdateThrottles,
         NEW c \in Clients, conn_state[c] # "free", PacedAt(c)
  PROVE  PacedAt(c)'
<1> OtherTypes /\ OtherTypes'
  BY TypesInTwo DEF Sound
<1>1. UNCHANGED <<conn_state, now, bytes_sent, started_at, active_at, wakeup_at>>
  BY DEF UpdateThrottles
<1>2. /\ best'[c] = IF share'[c] > best[c] THEN share'[c] ELSE best[c]
      /\ least'[c] = IF share'[c] < least[c] THEN share'[c] ELSE least[c]
  BY DEF UpdateThrottles
<1>3. /\ share'[c] \in Nat /\ best[c] \in Nat /\ least[c] \in Nat
      /\ best'[c] \in Nat /\ least'[c] \in Nat
  BY DEF OtherTypes
<1>4. /\ best[c] <= best'[c] /\ least'[c] <= least[c]
      /\ least'[c] <= share'[c] /\ share'[c] <= best'[c]
  BY <1>2, <1>3
<1>5. Resumes(c)' = Resumes(c) /\ Resumes(c) \in Nat /\ now \in Nat
  BY <1>1, Numbers DEF Resumes
<1>6. Ahead(c)'
  <2>1. Resumes(c) <= Resumes(c)' /\ now <= now'
    BY <1>1, <1>5
  <2> QED BY <1>1, <1>4, <2>1, ResumesLater
<1>7. TimesInOrder(c)' /\ SharesBetween(c)'
  BY <1>1, <1>4, <1>5 DEF PacedAt, TimesInOrder, SharesBetween, Second
<1>8. PauseShort(c)'
  <2> SUFFICES ASSUME conn_state[c] = "pausing", least'[c] >= 4
               PROVE  Short(least'[c], Ran(c), (wakeup_at[c] \div 2) - active_at[c],
                            best'[c])
    BY <1>1 DEF PauseShort, Ran
  <2> DEFINE low == least[c]
             lower == least'[c]
             most == best[c]
             more == best'[c]
             ran == Ran(c)
             wait == (wakeup_at[c] \div 2) - active_at[c]
  <2>1. low \in Nat /\ lower \in Nat /\ most \in Nat /\ more \in Nat
        /\ lower <= low /\ most <= more
    BY <1>3, <1>4
  <2>2. Short(low, ran, wait, most)
    <3>1. low >= 4
      BY <2>1
    <3> QED BY <3>1 DEF PacedAt, PauseShort
  <2>3. ran \in Nat /\ wait \in Nat /\ wait <= wait
    BY WaitIs
  <2> HIDE DEF low, lower, most, more, ran, wait
  <2>4. Short(lower, ran, wait, more)
    BY <2>1, <2>2, <2>3, ShortLater
  <2> QED BY <2>4 DEF lower, more, ran, wait
<1> QED BY <1>6, <1>7, <1>8 DEF PacedAt

\* The clock goes on only when no pause is over.
LEMMA TickPaced ==
  ASSUME Sound, TypeOK', Tick, NEW c \in Clients, conn_state[c] # "free", PacedAt(c)
  PROVE  PacedAt(c)'
<1> OtherTypes /\ OtherTypes'
  BY TypesInTwo DEF Sound
<1>1. /\ now' = now + 1
      /\ conn_state[c] = "pausing" => wakeup_at[c] > now
      /\ UNCHANGED connVars
  BY DEF Tick
<1>2. UNCHANGED <<conn_state, share, best, least, bytes_sent, started_at,
                  active_at, wakeup_at>>
  BY <1>1 DEF connVars
<1>3. now \in Nat /\ wakeup_at[c] \in Nat /\ best[c] \in Nat
      /\ active_at[c] \in Nat /\ Second \in Nat /\ Second = now \div 2
  BY Numbers
<1>4. now < now' /\ Resumes(c) <= Resumes(c)' /\ now' <= Resumes(c)'
  BY <1>1, <1>2, <1>3 DEF Resumes
<1>5. Ahead(c)'
  <2>1. now <= now' /\ best[c] <= best'[c]
    BY <1>1, <1>2, <1>3
  <2> QED BY <1>2, <1>4, <2>1, ResumesLater
<1>6. TimesInOrder(c)'
  <2>1. Second' \in Nat /\ Second <= Second'
    BY <1>1, <1>3, Halves DEF Second
  <2>2. started_at[c] <= active_at[c] /\ active_at[c] <= Second
    BY DEF PacedAt, TimesInOrder
  <2>3. active_at[c] <= Second'
    BY <1>3, <2>1, <2>2
  <2> QED BY <1>2, <1>4, <2>2, <2>3 DEF TimesInOrder
<1>7. SharesBetween(c)' /\ PauseShort(c)'
  BY <1>2 DEF PacedAt, SharesBetween, PauseShort, Ran
<1> QED BY <1>5, <1>6, <1>7 DEF PacedAt

\* A connection that sends, and is not too fast, is within its room.
LEMMA SlowPaced ==
  ASSUME Sound, TypeOK', NEW c \in Clients, NEW n \in 0 .. Size, SendSome(c, n),
         PacedAt(c), bytes_sent[c] + n # Size, ~TooFast(c, bytes_sent[c] + n)
  PROVE  PacedAt(c)'
<1> OtherTypes /\ OtherTypes'
  BY TypesInTwo DEF Sound
<1>1. /\ conn_state[c] = "sending" /\ bytes_sent'[c] = bytes_sent[c] + n
      /\ active_at'[c] = Second
      /\ UNCHANGED <<conn_state, wakeup_at, share, best, least, started_at, now>>
  BY DEF SendSome, OtherTypes
<1>2. Resumes(c)' = now
  BY <1>1 DEF Resumes
<1> DEFINE sent == bytes_sent[c] + n
           began == started_at[c]
           most == best[c]
           part == share[c]
           t == now
<1>3. /\ sent \in Nat /\ began \in Nat /\ most \in Nat /\ part \in Nat /\ t \in Nat
      /\ began <= t \div 2 /\ part <= most
  <2>1. bytes_sent[c] \in Nat /\ n \in Nat /\ Second = now \div 2
    BY Numbers
  <2>2. began <= Second
    BY DEF Sound, StartedBefore
  <2>3. part <= most
    BY DEF PacedAt, SharesBetween
  <2>4. began \in Nat /\ most \in Nat /\ part \in Nat /\ t \in Nat
    BY Numbers
  <2> QED BY <2>1, <2>2, <2>3, <2>4
<1>4. sent \div Length(t, began) <= part
  <2>1. Elapsed(c) = Length(now, started_at[c])
    BY DEF Elapsed, Length, Second
  <2>2. Elapsed(c) \in Nat \ {0}
    BY Times DEF Sound
  <2>3. sent \div Elapsed(c) \in Nat
    BY <1>3, <2>2, DivisionFits
  <2>4. ~(sent \div Elapsed(c) > share[c])
    BY DEF TooFast
  <2> HIDE DEF sent
  <2> QED BY <1>3, <2>1, <2>3, <2>4
<1>5. Ahead(c)' <=> Fits(sent, most, t, began) /\ Slack(sent, most, t, began)
  BY <1>1, <1>2 DEF Ahead
<1>6. TimesInOrder(c)' /\ SharesBetween(c)' /\ PauseShort(c)'
  <2>1. started_at[c] <= Second /\ Second \in Nat /\ now \in Nat
    BY Numbers DEF Sound, StartedBefore
  <2> QED BY <1>1, <1>2, <2>1
          DEF PacedAt, TimesInOrder, SharesBetween, PauseShort, Second
<1> HIDE DEF sent, began, most, part, t
<1>7. sent <= Room(most, t, began) /\ (t \div 2 = began => sent <= most)
  BY <1>3, <1>4, InTime
<1>8. Fits(sent, most, t, began)
  <2>1. t = 2 * began => t \div 2 = began
    BY <1>3
  <2>2. t = 2 * began + 1 => t \div 2 = began
    BY <1>3
  <2>3. most \div 4 \in Nat
    BY <1>3
  <2>4. t = 2 * began + 1 => sent <= most + (most \div 4)
    BY <1>3, <1>7, <2>2, <2>3
  <2> QED BY <1>7, <2>1, <2>4 DEF Fits
<1>9. Slack(sent, most, t, began)
  <2>1. t <= t /\ most <= most
    BY <1>3
  <2> QED BY <1>3, <1>8, <2>1, FitsLater
<1> QED BY <1>5, <1>6, <1>8, <1>9 DEF PacedAt

\* One that is too fast waits until it is within its room.
LEMMA FastPaced ==
  ASSUME Sound, TypeOK', NEW c \in Clients, NEW n \in 0 .. Size, SendSome(c, n),
         PacedAt(c), bytes_sent[c] + n # Size, TooFast(c, bytes_sent[c] + n)
  PROVE  PacedAt(c)'
<1> OtherTypes /\ OtherTypes' /\ StartedBefore
  BY TypesInTwo DEF Sound
<1> DEFINE had == bytes_sent[c]
           began == started_at[c]
           most == best[c]
           part == share[c]
           low == least[c]
           t == now
           e == Elapsed(c)
           q == (had + n) \div part
           u == IF q > e THEN t + 2 * (q - e) ELSE t + 1
<1>1. part # 0
  BY ZeroShareNotTooFast
<1>2. /\ conn_state[c] = "sending" /\ bytes_sent'[c] = had + n
      /\ active_at'[c] = Second /\ n <= Chunk(c)
      /\ UNCHANGED <<share, best, least, started_at, now>>
      /\ Coast(c, had + n)
  BY DEF SendSome, OtherTypes
<1>3. conn_state'[c] = "pausing" /\ wakeup_at'[c] = u
  <2>1. Pause(c, u)
    BY <1>1, <1>2 DEF Coast
  <2> HIDE DEF u
  <2> QED BY <2>1 DEF Pause, OtherTypes
<1>4. Resumes(c)' = u
  BY <1>3 DEF Resumes
<1>5. /\ had \in Nat /\ n \in Nat /\ began \in Nat /\ most \in Nat /\ low \in Nat
      /\ part \in Nat \ {0} /\ t \in Nat
      /\ began <= t \div 2 /\ part <= most /\ low <= part /\ n <= part \div 4
  <2>1. began <= Second
    BY DEF StartedBefore
  <2>2. part <= most /\ low <= part
    BY DEF PacedAt, SharesBetween
  <2>3. n <= part \div 4 /\ n \in Nat
    BY <1>2 DEF Chunk
  <2>4. /\ had \in Nat /\ began \in Nat /\ most \in Nat /\ low \in Nat
        /\ part \in Nat /\ t \in Nat
    BY Numbers
  <2> QED BY <1>1, <2>1, <2>2, <2>3, <2>4 DEF Second
<1>6. e = Length(t, began) /\ e \in Nat
  <2>1. e \in Nat
    BY Times
  <2> QED BY <2>1 DEF Elapsed, Length, Second
<1>7. Fits(had, most, t, began)
  BY <1>2 DEF PacedAt, Ahead, Resumes
<1>8. /\ TimesInOrder(c)' <=> began <= t \div 2 /\ t \div 2 <= t \div 2 /\ t <= u
      /\ SharesBetween(c)'
      /\ Ahead(c)' <=> Fits(had + n, most, u, began) /\ Slack(had + n, most, t, began)
  <2>1. TimesInOrder(c)' <=> began <= t \div 2 /\ t \div 2 <= t \div 2 /\ t <= u
    BY <1>2, <1>4 DEF TimesInOrder, Second
  <2>2. SharesBetween(c)'
    BY <1>2 DEF PacedAt, SharesBetween
  <2>3. Ahead(c)' <=> Fits(had + n, most, u, began) /\ Slack(had + n, most, t, began)
    BY <1>2, <1>4 DEF Ahead
  <2> QED BY <2>1, <2>2, <2>3
<1>9. PauseShort(c)' <=>
        (low >= 4 => Short(low, e, (u \div 2) - (t \div 2), most))
  <2>1. Ran(c)' = e
    BY <1>2 DEF Ran, Elapsed
  <2> HIDE DEF u, e
  <2> QED BY <1>2, <1>3, <2>1 DEF PauseShort, Second
<1> HIDE DEF had, began, most, part, low, t, e
<1>10. q \in Nat
  <2>1. had + n \in Nat
    BY <1>5
  <2> QED BY <1>5, <2>1, DivisionFits
<1>11. u = IF q > e THEN t + 2 * (q - e) ELSE t + 1
  OBVIOUS
<1>12. q = (had + n) \div part
  OBVIOUS
<1> HIDE DEF u, q
<1>13. /\ u \in Nat /\ t < u
       /\ q > e => u \div 2 = (t \div 2) + (q - e)
       /\ q <= e => t \div 2 <= u \div 2 /\ u \div 2 <= (t \div 2) + 1
  BY <1>5, <1>6, <1>10, <1>11, GoesOn
<1>14. /\ had <= Room(most, t, began)
       /\ t = 2 * began => had <= most
       /\ t = 2 * began + 1 => had <= most + (most \div 4)
  BY <1>7 DEF Fits
<1>15. /\ had + n <= Room(most, u, began)
       /\ had + n <= Room(most, t, began) + (most \div 4)
       /\ u = 2 * began + 1 => had + n <= most + (most \div 4)
       /\ \A l \in Nat : l <= part =>
            l * (e + ((u \div 2) - (t \div 2))) <= Room(most, t, began) + (most \div 4)
  BY <1>5, <1>6, <1>12, <1>13, <1>14, Coasting
<1>16. u # 2 * began
  <2>1. 2 * began <= t
    BY <1>5, Halves
  <2> QED BY <1>5, <1>13, <2>1
<1>17. Ahead(c)'
  BY <1>8, <1>15, <1>16 DEF Fits, Slack
<1>18. TimesInOrder(c)'
  BY <1>5, <1>8, <1>13
<1>19. PauseShort(c)'
  <2>1. Room(most, t, began) = (most + 1) * (e + 1)
    <3>1. most \in Nat /\ t \in Nat /\ began \in Nat /\ began <= t \div 2
      BY <1>5
    <3>2. Room(most, t, began) = (most + 1) * (Length(t, began) + 1)
      BY <3>1, RoomIs
    <3> QED BY <1>6, <3>2, Zenon
  <2>2. low * (e + ((u \div 2) - (t \div 2))) <= Room(most, t, began) + (most \div 4)
    BY <1>5, <1>15
  <2> QED BY <1>9, <2>1, <2>2 DEF Short
<1> QED BY <1>8, <1>17, <1>18, <1>19 DEF PacedAt

\* Every step of a connection leaves it paced or free, and leaves the others
\* alone.
LEMMA ConnectionPaced ==
  ASSUME Sound, TypeOK', NEW c \in Clients,
         \/ \E m \in Matching : Start(c, m)
         \/ SendNothing(c) \/ SendHead(c) \/ \E n \in 0 .. Size : SendSome(c, n)
         \/ WakeupConnection(c) \/ Idle(c) \/ Leave(c),
         Paced
  PROVE  Paced'
<1> OtherTypes
  BY TypesInTwo DEF Sound
<1>1. ASSUME NEW d \in Clients, d # c, conn_state'[d] # "free" PROVE PacedAt(d)'
  <2>1. /\ conn_state'[d] = conn_state[d] /\ wakeup_at'[d] = wakeup_at[d]
    <3>1. ASSUME NEW time, Pause(c, time) PROVE <2>1
      BY <1>1, <3>1 DEF Pause, OtherTypes
    <3>2. ASSUME Cleared(c) PROVE <2>1
      BY <1>1, <3>2 DEF Cleared, OtherTypes
    <3>3. ASSUME NEW n \in 0 .. Size, SendSome(c, n) PROVE <2>1
      <4>1. CASE bytes_sent[c] + n = Size
        BY <3>2, <3>3, <4>1 DEF SendSome
      <4>2. CASE bytes_sent[c] + n # Size
        BY <3>1, <3>3, <4>2 DEF SendSome, Coast
      <4> QED BY <4>1, <4>2
    <3>4. ASSUME NEW m \in Matching, Start(c, m) PROVE <2>1
      BY <1>1, <3>4 DEF Start, OtherTypes
    <3>5. CASE SendHead(c) \/ WakeupConnection(c)
      BY <1>1, <3>5 DEF SendHead, WakeupConnection, OtherTypes
    <3>6. CASE SendNothing(c)
      BY <3>1, <3>6 DEF SendNothing
    <3>7. CASE Idle(c) \/ Leave(c)
      BY <3>2, <3>7 DEF Idle, Leave
    <3> QED BY <3>3, <3>4, <3>5, <3>6, <3>7
  <2>2. /\ now' = now /\ share'[d] = share[d] /\ best'[d] = best[d]
        /\ least'[d] = least[d] /\ bytes_sent'[d] = bytes_sent[d]
        /\ started_at'[d] = started_at[d] /\ active_at'[d] = active_at[d]
    <3>1. ASSUME Cleared(c), now' = now PROVE <2>2
      BY <1>1, <3>1 DEF Cleared, OtherTypes
    <3>2. ASSUME NEW n \in 0 .. Size, SendSome(c, n) PROVE <2>2
      <4>1. CASE bytes_sent[c] + n = Size
        BY <3>1, <3>2, <4>1 DEF SendSome
      <4>2. CASE bytes_sent[c] + n # Size
        BY <1>1, <3>2, <4>2 DEF SendSome, OtherTypes
      <4> QED BY <4>1, <4>2
    <3>3. ASSUME NEW m \in Matching, Start(c, m) PROVE <2>2
      BY <1>1, <3>3 DEF Start, OtherTypes
    <3>4. CASE SendHead(c) \/ WakeupConnection(c) \/ SendNothing(c)
      BY <1>1, <3>4 DEF SendHead, WakeupConnection, SendNothing, OtherTypes
    <3>5. CASE Idle(c) \/ Leave(c)
      BY <3>1, <3>5 DEF Idle, Leave
    <3> QED BY <3>2, <3>3, <3>4, <3>5
  <2>3. PacedAt(d)
    BY <1>1, <2>1 DEF Paced
  <2> QED BY <2>1, <2>2, <2>3, OthersPaced
<1>2. ASSUME conn_state'[c] # "free" PROVE PacedAt(c)'
  <2>1. ASSUME Cleared(c) PROVE FALSE
    BY <1>2, <2>1 DEF Cleared, OtherTypes
  <2>2. CASE \E m \in Matching : Start(c, m)
    BY <2>2, StartPaced
  <2>3. ASSUME conn_state[c] # "free" PROVE PacedAt(c)
    BY <2>3 DEF Paced
  <2>4. CASE SendNothing(c)
    <3>1. conn_state[c] # "free"
      BY <2>4 DEF SendNothing
    <3> QED BY <2>3, <2>4, <3>1, NothingPaced
  <2>5. CASE SendHead(c)
    <3>1. conn_state[c] # "free"
      BY <2>5 DEF SendHead
    <3> QED BY <2>3, <2>5, <3>1, HeadPaced
  <2>6. CASE WakeupConnection(c)
    <3>1. conn_state[c] # "free"
      BY <2>6 DEF WakeupConnection
    <3> QED BY <2>3, <2>6, <3>1, WakeupPaced
  <2>7. ASSUME NEW n \in 0 .. Size, SendSome(c, n) PROVE PacedAt(c)'
    <3>1. conn_state[c] # "free"
      BY <2>7 DEF SendSome
    <3>2. bytes_sent[c] + n # Size
      BY <2>1, <2>7 DEF SendSome
    <3> QED BY <2>3, <2>7, <3>1, <3>2, SlowPaced, FastPaced
  <2>8. CASE Idle(c) \/ Leave(c)
    BY <2>1, <2>8 DEF Idle, Leave
  <2> QED BY <2>2, <2>4, <2>5, <2>6, <2>7, <2>8
<1> QED BY <1>1, <1>2 DEF Paced

\* The invariant of the schedule is inductive.
LEMMA StepPaced ==
  ASSUME Sound, TypeOK', [Next]_vars, Paced
  PROVE  Paced'
<1>1. CASE UNCHANGED vars
  BY <1>1, OthersPaced DEF vars, connVars, Paced
<1>2. CASE UpdateThrottles
  <2>1. conn_state' = conn_state
    BY <1>2 DEF UpdateThrottles
  <2> QED BY <1>2, <2>1, UpdatePaced DEF Paced
<1>3. CASE Tick
  <2>1. conn_state' = conn_state
    BY <1>3 DEF Tick, connVars
  <2> QED BY <1>3, <2>1, TickPaced DEF Paced
<1>4. CASE \E c \in Clients :
             \/ \E m \in Matching : Start(c, m)
             \/ SendNothing(c) \/ SendHead(c) \/ \E n \in 0 .. Size : SendSome(c, n)
             \/ WakeupConnection(c) \/ Idle(c) \/ Leave(c)
  BY <1>4, ConnectionPaced
<1> QED BY <1>1, <1>2, <1>3, <1>4 DEF Next

\* It holds always.
LEMMA AlwaysPaced == Spec => []Paced
<1>1. Init => Paced
  BY DEF Init, Paced
<1>2. Sound /\ Sound' /\ Paced /\ [Next]_vars => Paced'
  BY StepPaced DEF Sound
<1> QED BY <1>1, <1>2, AlwaysSound, PTL DEF Spec

-----------------------------------------------------------------------------
\* Every variable has its type, so in particular num_sending, rates and shares
\* never fall below zero (clear_throttles, update_throttles).
THEOREM TypeCorrect == Spec => []TypeOK
<1>1. Sound => TypeOK
  BY DEF Sound
<1> QED BY <1>1, AlwaysSound, PTL

\* handle_send never divides by a share of zero, however many connections share
\* a throttle of whatever limit.
THEOREM DivisionsSafe == Spec => []NeverDividesByZero
<1>1. Init => NeverDividesByZero
  BY DEF Init, NeverDividesByZero
<1>2. Sound /\ NeverDividesByZero /\ [Next]_vars => NeverDividesByZero'
  BY NeverDividesStep, Zenon DEF NeverDividesByZero
<1> QED BY <1>1, <1>2, AlwaysSound, PTL DEF Spec

\* A throttle with a minimum never lets anybody in (check_throttles).
THEOREM MinimumKeepsOut == Spec => []MinimumNeverMet
<1>1. Sound => MinimumNeverMet
  BY FS_EmptySet DEF Sound, MinimumUnused, CountsRight, MinimumNeverMet
<1> QED BY <1>1, AlwaysSound, PTL

\* num_sending counts the connections that hold a throttle, so that whoever is
\* sending has throttles to divide among their holders, and no count is zero
\* (check_throttles, clear_throttles, update_throttles).
THEOREM CountsAlwaysRight ==
  Spec => [](/\ \A t \in Throttles : num_sending[t] = Cardinality(Holding(t))
             /\ \A c \in Active :
                  tnums[c] # {} /\ \A t \in tnums[c] : num_sending[t] > 0)
<1>1. ASSUME Sound
      PROVE  /\ \A t \in Throttles : num_sending[t] = Cardinality(Holding(t))
             /\ \A c \in Active :
                  tnums[c] # {} /\ \A t \in tnums[c] : num_sending[t] > 0
  BY <1>1, HeldCounts DEF Sound, CountsRight, HoldersHold, Active, TypeOK
<1> QED BY <1>1, AlwaysSound, PTL

\* After update_throttles the holders of a throttle are promised no more than its
\* limit together, whoever came and went before (update_throttles).
THEOREM LimitsDivided == Spec => SharesFit
<1>1. ASSUME Sound, [Next]_vars
      PROVE  [UpdateThrottles =>
                \A t \in Throttles : Promised(t)' <= max_limit[t]]_vars
  BY <1>1, StepTypes, UpdateFits
<1> QED BY <1>1, AlwaysSound, PTL DEF Spec, SharesFit

\* Nobody is ever more than a second and a chunk ahead of the schedule of the
\* largest share it has had, but for the rounding of its rate, or waits for longer
\* than what it can have sent takes at the smallest, for any limits, any times and
\* any number of connections (handle_send, wakeup_connection).
THEOREM AlwaysOnSchedule == Spec => []OnSchedule
<1>1. Paced => NeverFarAhead
  BY DEF Paced, PacedAt, Ahead, Slack, Room, NeverFarAhead, Active, Second
<1>2. Paced => PausesShort
  BY DEF Paced, PacedAt, PauseShort, PausesShort, Active
<1>3. Paced => OnSchedule
  BY <1>1, <1>2 DEF OnSchedule
<1> QED BY <1>3, AlwaysPaced, PTL

\* A connection that idle cuts off while it waits for its schedule has lost part
\* of its share, or has run for so long that the rounding of its rate explains the
\* pause: the least share times the time it ran and the time limit is no more than
\* the largest share allowed (handle_send, update_throttles, idle).
THEOREM CutOffExplained ==
  Spec => [][\A c \in Clients :
               Idle(c) /\ conn_state[c] = "pausing" /\ least[c] >= 4 =>
                 least[c] * (Ran(c) + IDLE_SEND_TIMELIMIT)
                   <= (best[c] + 1) * (Ran(c) + 1) + (best[c] \div 4)]_vars
<1>1. ASSUME Sound, Paced, NEW c \in Clients, Idle(c), conn_state[c] = "pausing",
             least[c] >= 4
      PROVE  least[c] * (Ran(c) + IDLE_SEND_TIMELIMIT)
               <= (best[c] + 1) * (Ran(c) + 1) + (best[c] \div 4)
  <2> OtherTypes
    BY <1>1, TypesInTwo DEF Sound
  <2>1. PacedAt(c)
    BY <1>1 DEF Paced
  <2> DEFINE low == least[c]
             most == best[c]
             ran == Ran(c)
             wait == (wakeup_at[c] \div 2) - active_at[c]
             less == IDLE_SEND_TIMELIMIT
  <2>2. Short(low, ran, wait, most)
    BY <1>1, <2>1 DEF PacedAt, PauseShort
  <2>3. less \in Nat /\ less <= Second - active_at[c]
    BY <1>1 DEF Idle, Overdue
  <2>4. ran \in Nat /\ wait \in Nat /\ Second - active_at[c] <= wait
    BY <1>1, <2>1, WaitIs
  <2>5. low \in Nat /\ most \in Nat /\ Second \in Nat /\ active_at[c] \in Nat
    BY Numbers
  <2>6. low <= low /\ most <= most
    BY <2>5
  <2> HIDE DEF low, most, ran, wait, less
  <2>7. less <= wait
    BY <2>3, <2>4, <2>5
  <2>8. Short(low, ran, less, most)
    BY <2>2, <2>3, <2>4, <2>5, <2>6, <2>7, ShortLater
  <2> QED BY <2>8 DEF Short, low, most, ran, less
<1>2. ASSUME Sound, Paced
      PROVE  [\A c \in Clients :
                Idle(c) /\ conn_state[c] = "pausing" /\ least[c] >= 4 =>
                  least[c] * (Ran(c) + IDLE_SEND_TIMELIMIT)
                    <= (best[c] + 1) * (Ran(c) + 1) + (best[c] \div 4)]_vars
  BY <1>1, <1>2
<1> QED BY <1>2, AlwaysSound, AlwaysPaced, PTL
=============================================================================
