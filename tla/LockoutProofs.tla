--------------------------- MODULE LockoutProofs ----------------------------
(***************************************************************************)
(* Proofs about Lockout: the types, that the semaphore keeps servers apart *)
(* whatever they do and whenever they die, and that the record of a user   *)
(* whose attempts do not overlap has his failures, so that he is turned    *)
(* away when that is due; for any number of servers, users and attempts.   *)
(***************************************************************************)
EXTENDS Lockout, SequenceTheorems, FiniteSetTheorems, TLAPS

USE LockoutAssumption DEF LockoutAssumption

-----------------------------------------------------------------------------
(***************************************************************************)
(* The search for a record.                                                *)
(***************************************************************************)
\* A set of naturals that is not empty has a least element.
LEMMA LeastExists ==
  ASSUME NEW S \in SUBSET Nat, S # {}
  PROVE  \E x \in S : \A y \in S : x <= y
<1> DEFINE T == {1 .. n : n \in S}
<1>1. T \subseteq FiniteSubsetsOf(Nat) /\ T # {}
  <2>1. \A n \in Nat : 1 .. n \in FiniteSubsetsOf(Nat)
    <3>1. \A n \in Nat : IsFiniteSet(1 .. n) /\ 1 .. n \in SUBSET Nat
      BY FS_Interval
    <3> QED BY <3>1 DEF FiniteSubsetsOf
  <2>2. \A v \in T : \E n \in S : v = 1 .. n
    OBVIOUS
  <2>3. \E n \in S : 1 .. n \in T
    OBVIOUS
  <2> HIDE DEF T
  <2> QED BY <2>1, <2>2, <2>3, Zenon
<1>2. IsWellFoundedOn(StrictSubsetOrdering(Nat), FiniteSubsetsOf(Nat))
  BY FS_StrictSubsetOrderingWellFounded
<1>3. PICK u \in T : \A v \in T : <<v, u>> \notin StrictSubsetOrdering(Nat)
  <2> HIDE DEF T
  <2> QED BY <1>1, <1>2, WFMin
<1>4. PICK x \in S : u = 1 .. x
  OBVIOUS
<1>5. ASSUME NEW y \in S, y < x PROVE FALSE
  <2>1. 1 .. y \in T
    OBVIOUS
  <2>2. 1 .. y \subseteq 1 .. x /\ x \in 1 .. x /\ x \notin 1 .. y
    BY <1>5
  <2>3. <<1 .. y, 1 .. x>> \in StrictSubsetOrdering(Nat)
    BY <2>2 DEF StrictSubsetOrdering
  <2> QED BY <1>3, <1>4, <2>1, <2>3
<1> QED BY <1>5

\* findRecord finds nothing, or a record with the name.
LEMMA PosIsFound ==
  ASSUME file \in Seq(Record), NEW u
  PROVE  \/ PosOf(u) = NotFound /\ Found(u) = {}
         \/ /\ PosOf(u) \in Found(u) /\ PosOf(u) # NotFound
            /\ PosOf(u) \in 1 .. Len(file)
            /\ file[PosOf(u)] \in Record
<1>1. CASE Found(u) = {}
  BY <1>1 DEF PosOf
<1>2. CASE Found(u) # {}
  <2>1. Found(u) \in SUBSET Nat /\ Found(u) \subseteq 1 .. Len(file)
    BY DEF Found
  <2>2. FirstOf(u) \in Found(u)
    BY <1>2, <2>1, LeastExists DEF FirstOf
  <2>3. PosOf(u) = FirstOf(u)
    BY <1>2 DEF PosOf
  <2>4. file[FirstOf(u)] \in Record
    BY <2>1, <2>2
  <2> QED BY <2>1, <2>2, <2>3, <2>4 DEF NotFound
<1> QED BY <1>1, <1>2

-----------------------------------------------------------------------------
(***************************************************************************)
(* Types.  What is about to be written has a time, and what is about to be *)
(* rewritten is a record of that user.                                     *)
(***************************************************************************)
Timed == \A s \in Servers :
  at[s] \in {"find", "rewrite", "append", "named"} => job[s].last \in 0 .. MaxTime

Aimed == \A s \in Servers :
  at[s] = "rewrite" => job[s].pos \in Found(job[s].user)

\* The types in two parts: what is TRUE or FALSE, and the rest.
FlagTypes == torn \in BOOLEAN /\ lost \in BOOLEAN

OtherTypes ==
  /\ sem \in Nat \cup {NoSem}
  /\ file \in Seq(Record)
  /\ now \in 0 .. MaxTime /\ attempts \in 0 .. MaxAttempts
  /\ at \in [Servers -> Places]
  /\ inside \subseteq Servers
  /\ job \in [Servers -> Job]
  /\ fails \in [Users -> Nat]
  /\ failed_at \in [Users -> Never .. MaxTime]
  /\ spoiled \subseteq Users

\* The two parts are the types, before and after a step.
LEMMA TypesInTwo ==
  /\ TypeOK <=> FlagTypes /\ OtherTypes
  /\ TypeOK' <=> FlagTypes' /\ OtherTypes'
BY DEF TypeOK, FlagTypes, OtherTypes

\* The locals of a server at rest.
LEMMA NoJobIsJob ==
  /\ NoJob \in Job
  /\ \A u \in Users : JobFor(u) \in Job
  /\ \A u \in Users, n \in Nat, l \in Never .. MaxTime : JobOf(u, n, l) \in Job
<1>1. (CHOOSE u \in Users : TRUE) \in Users
  OBVIOUS
<1>2. \A u \in Users, n \in Nat, l \in Never .. MaxTime : JobOf(u, n, l) \in Job
  BY DEF JobOf, Job, NotFound
<1>3. \A u \in Users : JobFor(u) \in Job
  BY <1>2 DEF JobFor, Never
<1> QED BY <1>1, <1>2, <1>3 DEF NoJob

\* At the start.
LEMMA InitTypes == Init => TypeOK /\ Timed /\ Aimed
<1> SUFFICES ASSUME Init PROVE TypeOK /\ Timed /\ Aimed
  OBVIOUS
<1>1. FlagTypes
  BY Zenon DEF Init, FlagTypes
<1>2. OtherTypes
  <2>1. file \in Seq(Record)
    BY DEF Init
  <2>2. job \in [Servers -> Job]
    BY NoJobIsJob DEF Init
  <2> QED BY <2>1, <2>2 DEF Init, OtherTypes, Places, Critical, NoSem, Never
<1>3. Timed /\ Aimed
  BY DEF Init, Timed, Aimed
<1> QED BY <1>1, <1>2, <1>3, TypesInTwo

\* The flags stay flags.
LEMMA StepFlags ==
  ASSUME TypeOK, [Next]_vars
  PROVE  FlagTypes'
<1> FlagTypes
  BY TypesInTwo
<1> USE DEF FlagTypes, lockVars, fileVars, Release
<1>1. CASE UNCHANGED vars \/ Tick
  BY <1>1, Zenon DEF vars, Tick
<1>2. ASSUME NEW s \in Servers, Start(s) \/ Enter(s) \/ Interrupted(s)
      PROVE  FlagTypes'
  BY <1>2, Zenon DEF Start, CreateSem, SetSem, ReuseSem, Enter, Interrupted
<1>3. ASSUME NEW s \in Servers, Authenticate(s)
      PROVE  FlagTypes'
  BY <1>3, Zenon DEF Authenticate, CheckRead, Refuse, Right, Wrong, RecallRead,
                     UpdateRead, Stamp
<1>4. ASSUME NEW s \in Servers, Store(s)
      PROVE  FlagTypes'
  BY <1>4, Zenon DEF Store, Find, Rewrite, WriteFails, AppendHeader, AppendName,
                     AppendNameFails
<1>5. ASSUME NEW s \in Servers, Die(s)
      PROVE  FlagTypes'
  <2>1. lost' \in BOOLEAN
    BY <1>5 DEF Die
  <2> QED BY <1>5, <2>1, Zenon DEF Die
<1>6. ASSUME NEW s \in Servers, NEW u \in Users, Attempt(s, u)
      PROVE  FlagTypes'
  BY <1>6, Zenon DEF Attempt
<1> QED BY <1>1, <1>2, <1>3, <1>4, <1>5, <1>6, Zenon DEF Next

\* Rewrite changes the counts of one record, and no name.
LEMMA RewriteFile ==
  ASSUME OtherTypes, Timed, Aimed, NEW s \in Servers, Rewrite(s)
  PROVE  /\ file' \in Seq(Record)
         /\ \A u : Found(u)' = Found(u)
         /\ \A i \in DOMAIN file \ {job[s].pos} : file'[i] = file[i]
         /\ job[s].pos \in DOMAIN file
         /\ file'[job[s].pos].num_failed = job[s].num
         /\ file'[job[s].pos].last_failed = job[s].last
<1> DEFINE p == job[s].pos
           r == [user |-> file[p].user, num_failed |-> job[s].num,
                 last_failed |-> job[s].last]
<1>1. p \in DOMAIN file /\ file[p] \in Record
  BY DEF Rewrite, Aimed, Found, OtherTypes
<1>2. job[s] \in Job /\ job[s].last \in 0 .. MaxTime
  BY DEF Rewrite, OtherTypes, Timed
<1>3. r \in Record
  BY <1>1, <1>2 DEF Record, Job
<1>4. file' = [file EXCEPT ![p] = r]
  BY <1>1 DEF Rewrite
<1>5. p \in 1 .. Len(file)
  BY <1>1 DEF OtherTypes
<1> HIDE DEF r, p
<1>6. file' \in Seq(Record) /\ Len(file') = Len(file)
  BY <1>3, <1>4, <1>5, ExceptSeq DEF OtherTypes
<1>7. DOMAIN file' = DOMAIN file
  BY <1>4
<1>8. \A i \in DOMAIN file : file'[i] = IF i = p THEN r ELSE file[i]
  BY <1>4
<1>9. r.user = file[p].user /\ r.num_failed = job[s].num /\ r.last_failed = job[s].last
  BY DEF r
<1>10. \A u : Found(u)' = Found(u)
  BY <1>7, <1>8, <1>9 DEF Found
<1> QED BY <1>1, <1>6, <1>8, <1>9, <1>10 DEF p

\* AppendName adds one record behind the others.
LEMMA AppendFile ==
  ASSUME OtherTypes, Timed, NEW s \in Servers, AppendName(s)
  PROVE  /\ file' \in Seq(Record)
         /\ \A u : Found(u)' = IF u = job[s].user THEN Found(u) \cup {Len(file) + 1}
                               ELSE Found(u)
         /\ \A i \in DOMAIN file : file'[i] = file[i]
         /\ Len(file) + 1 \notin DOMAIN file
         /\ file'[Len(file) + 1] = RecordOf(s)
<1>1. job[s] \in Job /\ job[s].last \in 0 .. MaxTime
  BY DEF AppendName, OtherTypes, Timed
<1>2. RecordOf(s) \in Record /\ RecordOf(s).user = job[s].user
  BY <1>1 DEF RecordOf, Record, Job
<1>3. file' = Append(file, RecordOf(s)) /\ file \in Seq(Record)
  BY DEF AppendName, OtherTypes
<1> HIDE DEF RecordOf
<1>4. /\ file' \in Seq(Record) /\ Len(file') = Len(file) + 1
      /\ \A i \in 1 .. Len(file) : file'[i] = file[i]
      /\ file'[Len(file) + 1] = RecordOf(s)
  BY <1>2, <1>3, AppendProperties
<1>5. DOMAIN file = 1 .. Len(file) /\ DOMAIN file' = 1 .. Len(file) + 1
  BY <1>3, <1>4
<1>6. \A u : Found(u)' = IF u = job[s].user THEN Found(u) \cup {Len(file) + 1}
                         ELSE Found(u)
  <2>1. Len(file) \in Nat
    BY <1>3
  <2>2. \A i \in DOMAIN file' : i \in DOMAIN file \/ i = Len(file) + 1
    BY <1>5, <2>1
  <2>3. \A i \in DOMAIN file : i \in DOMAIN file'
    BY <1>5, <2>1
  <2>4. Len(file) + 1 \in DOMAIN file'
    BY <1>5, <2>1
  <2> QED BY <1>2, <1>4, <1>5, <2>2, <2>3, <2>4 DEF Found
<1> QED BY <1>3, <1>4, <1>5, <1>6

\* The types and what writers hold, for a step that leaves the file alone and
\* takes one server from one place to another.
LEMMA MoveTypes ==
  ASSUME OtherTypes, Timed, Aimed, file' = file, attempts' = attempts,
         sem' \in Nat \cup {NoSem}, now' \in 0 .. MaxTime, inside' \subseteq Servers,
         fails' \in [Users -> Nat], failed_at' \in [Users -> Never .. MaxTime],
         spoiled' \subseteq Users,
         NEW s \in Servers, NEW p \in Places, NEW j \in Job,
         at' = [at EXCEPT ![s] = p], job' = [job EXCEPT ![s] = j],
         p \in {"find", "rewrite", "append", "named"} => j.last \in 0 .. MaxTime,
         p = "rewrite" => j.pos \in Found(j.user)
  PROVE  OtherTypes' /\ Timed' /\ Aimed'
<1>1. \A u : Found(u)' = Found(u)
  BY DEF Found
<1>2. /\ at' \in [Servers -> Places] /\ job' \in [Servers -> Job]
      /\ at'[s] = p /\ job'[s] = j
      /\ \A r \in Servers \ {s} : at'[r] = at[r] /\ job'[r] = job[r]
  BY DEF OtherTypes
<1>3. Timed'
  BY <1>2 DEF Timed
<1>4. Aimed'
  BY <1>1, <1>2 DEF Aimed
<1> QED BY <1>2, <1>3, <1>4 DEF OtherTypes

\* Starting, dying and waiting for the semaphore.
LEMMA StartTypes ==
  ASSUME OtherTypes, Timed, Aimed, NEW s \in Servers,
         Start(s) \/ Enter(s) \/ Interrupted(s) \/ Die(s)
  PROVE  OtherTypes' /\ Timed' /\ Aimed'
<1>1. job = [job EXCEPT ![s] = job[s]] /\ job[s] \in Job /\ job[s].user \in Users
  BY DEF OtherTypes, Job
<1>2. at = [at EXCEPT ![s] = at[s]] /\ at[s] \in Places
  BY DEF OtherTypes
<1>3. CASE Start(s)
  BY <1>1, <1>3, MoveTypes DEF Start, CreateSem, SetSem, ReuseSem, OtherTypes,
       Places, Critical, NoSem, fileVars, lockVars, history
<1>4. CASE Enter(s)
  <2>1. sem' \in Nat \cup {NoSem} /\ inside' \subseteq Servers
    BY <1>4 DEF Enter, OtherTypes, NoSem
  <2>2. UNCHANGED <<file, now, attempts, fails, failed_at, spoiled>>
    BY <1>4 DEF Enter, fileVars, history
  <2>3. /\ at[s] \in {"find", "rewrite", "append", "named"} => job[s].last \in 0 .. MaxTime
        /\ at[s] = "rewrite" => job[s].pos \in Found(job[s].user)
    BY DEF Timed, Aimed
  <2>4. /\ now' \in 0 .. MaxTime /\ fails' \in [Users -> Nat]
        /\ failed_at' \in [Users -> Never .. MaxTime] /\ spoiled' \subseteq Users
    BY <2>2 DEF OtherTypes
  <2>5. at' = [at EXCEPT ![s] = at[s]] /\ job' = [job EXCEPT ![s] = job[s]]
    BY <1>1, <1>2, <1>4 DEF Enter
  <2> QED BY <1>1, <1>2, <2>1, <2>2, <2>3, <2>4, <2>5, MoveTypes
<1>5. CASE Die(s)
  BY <1>1, <1>5, NoJobIsJob, MoveTypes DEF Die, OtherTypes, Places, Critical, fileVars
<1>6. CASE Interrupted(s)
  <2>1. /\ UNCHANGED <<file, sem, inside, now, attempts, fails, failed_at>>
        /\ spoiled' \subseteq Users
    BY <1>1, <1>6 DEF Interrupted, OtherTypes, lockVars, fileVars
  <2>2. /\ sem' \in Nat \cup {NoSem} /\ inside' \subseteq Servers
        /\ now' \in 0 .. MaxTime /\ fails' \in [Users -> Nat]
        /\ failed_at' \in [Users -> Never .. MaxTime]
    BY <2>1 DEF OtherTypes
  <2>3. \E p \in Places, j \in Job :
          /\ at' = [at EXCEPT ![s] = p] /\ job' = [job EXCEPT ![s] = j]
          /\ p \in {"find", "rewrite", "append", "named"} => j.last \in 0 .. MaxTime
          /\ p # "rewrite"
    <3>1. CASE at[s] = "check" /\ at' = [at EXCEPT ![s] = "decide"] /\ job' = job
      BY <1>1, <3>1 DEF Places
    <3>2. CASE /\ at' = [at EXCEPT ![s] = "stamp"]
               /\ job' = [job EXCEPT ![s].num = 1]
      <4>1. [job[s] EXCEPT !.num = 1] \in Job
        BY <1>1 DEF Job
      <4>2. job' = [job EXCEPT ![s] = [job[s] EXCEPT !.num = 1]]
        BY <3>2 DEF OtherTypes
      <4> QED BY <3>2, <4>1, <4>2 DEF Places
    <3>3. CASE at[s] = "find" /\ at' = [at EXCEPT ![s] = "append"] /\ job' = job
      BY <1>1, <3>3 DEF Places, Critical, Timed
    <3>4. CASE Return(s)
      BY <3>4, NoJobIsJob DEF Return, Places
    <3> QED BY <1>6, <3>1, <3>2, <3>3, <3>4 DEF Interrupted
  <2> QED BY <2>1, <2>2, <2>3, MoveTypes
<1> QED BY <1>3, <1>4, <1>5, <1>6

\* A record that was found is a job's.
LEMMA ReadJob ==
  ASSUME OtherTypes, NEW s \in Servers, PosOf(job[s].user) # NotFound,
         NEW n \in Nat
  PROVE  /\ JobOf(job[s].user, n, file[PosOf(job[s].user)].last_failed) \in Job
         /\ file[PosOf(job[s].user)].num_failed \in Nat
         /\ file[PosOf(job[s].user)].last_failed \in 0 .. MaxTime
<1>1. job[s].user \in Users
  BY DEF OtherTypes, Job
<1>2. file[PosOf(job[s].user)] \in Record
  BY PosIsFound DEF OtherTypes
<1>3. /\ file[PosOf(job[s].user)].num_failed \in Nat
      /\ file[PosOf(job[s].user)].last_failed \in 0 .. MaxTime
  BY <1>2 DEF Record
<1>4. file[PosOf(job[s].user)].last_failed \in Never .. MaxTime
  BY <1>3 DEF Never
<1> QED BY <1>1, <1>3, <1>4, NoJobIsJob

\* A request and its way through the library's callers.
LEMMA RequestTypes ==
  ASSUME OtherTypes, Timed, Aimed, NEW s \in Servers,
         Authenticate(s) \/ \E u \in Users : Attempt(s, u)
  PROVE  /\ \E p \in Places, j \in Job :
              /\ at' = [at EXCEPT ![s] = p] /\ job' = [job EXCEPT ![s] = j]
              /\ p \in {"find", "rewrite", "append", "named"} => j.last \in 0 .. MaxTime
              /\ p # "rewrite"
         /\ file' = file /\ now' = now
<1>1. /\ job = [job EXCEPT ![s] = job[s]] /\ job[s] \in Job /\ job[s].user \in Users
      /\ job[s].num \in Nat
  BY DEF OtherTypes, Job
<1> DEFINE Moves(p, j) ==
      /\ at' = [at EXCEPT ![s] = p] /\ job' = [job EXCEPT ![s] = j]
      /\ p \in {"find", "rewrite", "append", "named"} => j.last \in 0 .. MaxTime
      /\ p # "rewrite"
<1>2. \E p \in Places, j \in Job : Moves(p, j)
  <2>1. CASE Refuse(s) \/ Return(s)
    BY <2>1, NoJobIsJob DEF Refuse, Return, Places
  <2>2. CASE Right(s) \/ Wrong(s)
    BY <1>1, <2>2 DEF Right, Wrong, Places, Critical
  <2>3. CASE \E u \in Users : Attempt(s, u)
    BY <2>3, NoJobIsJob DEF Attempt, Places, Critical
  <2>4. CASE CheckRead(s)
    <3>1. CASE PosOf(job[s].user) = NotFound
      BY <1>1, <2>4, <3>1, NoJobIsJob DEF CheckRead, Places
    <3>2. CASE PosOf(job[s].user) # NotFound
      <4> DEFINE i == PosOf(job[s].user)
                 j == JobOf(job[s].user, file[i].num_failed, file[i].last_failed)
      <4>1. j \in Job
        BY <1>1, <3>2, ReadJob
      <4>2. Moves("decide", j)
        BY <2>4, <3>2 DEF CheckRead
      <4> QED BY <4>1, <4>2 DEF Places
    <3> QED BY <3>1, <3>2
  <2>5. CASE RecallRead(s)
    <3>1. CASE PosOf(job[s].user) = NotFound
      BY <2>1, <2>5, <3>1 DEF RecallRead
    <3>2. CASE PosOf(job[s].user) # NotFound
      <4> DEFINE i == PosOf(job[s].user)
                 j == JobOf(job[s].user, 0, file[i].last_failed)
      <4>1. j \in Job /\ j.last \in 0 .. MaxTime
        BY <3>2, ReadJob DEF JobOf
      <4>2. Moves("find", j)
        BY <2>5, <3>2, <4>1 DEF RecallRead
      <4> QED BY <4>1, <4>2 DEF Places, Critical
    <3> QED BY <3>1, <3>2
  <2>6. CASE UpdateRead(s)
    <3> DEFINE i == PosOf(job[s].user)
               n == IF i = NotFound THEN 1 ELSE file[i].num_failed + 1
    <3>1. n \in Nat
      BY ReadJob
    <3>2. job' = [job EXCEPT ![s] = [job[s] EXCEPT !.num = n]]
      BY <2>6 DEF UpdateRead, OtherTypes
    <3>3. [job[s] EXCEPT !.num = n] \in Job
      <4> HIDE DEF n
      <4> QED BY <1>1, <3>1 DEF Job
    <3> QED BY <2>6, <3>2, <3>3 DEF UpdateRead, Places
  <2>7. CASE Stamp(s)
    <3>1. job' = [job EXCEPT ![s] = [job[s] EXCEPT !.last = now]]
      BY <2>7 DEF Stamp, OtherTypes
    <3>2. /\ [job[s] EXCEPT !.last = now] \in Job
          /\ [job[s] EXCEPT !.last = now].last \in 0 .. MaxTime
      <4>1. now \in 0 .. MaxTime /\ now \in Never .. MaxTime
        BY DEF Never, OtherTypes
      <4>2. PICK u, m, l, k :
              /\ u \in Users /\ m \in Nat /\ k \in Nat
              /\ job[s] = [user |-> u, num |-> m, last |-> l, pos |-> k]
        BY <1>1 DEF Job
      <4>3. [job[s] EXCEPT !.last = now] = [user |-> u, num |-> m, last |-> now, pos |-> k]
        BY <4>2
      <4>4. /\ [user |-> u, num |-> m, last |-> now, pos |-> k] \in Job
            /\ [user |-> u, num |-> m, last |-> now, pos |-> k].last \in 0 .. MaxTime
        BY <4>1, <4>2 DEF Job
      <4> QED BY <4>3, <4>4, Zenon
    <3> QED BY <2>7, <3>1, <3>2 DEF Stamp, Places, Critical
  <2> QED BY <2>1, <2>2, <2>3, <2>4, <2>5, <2>6, <2>7 DEF Authenticate
<1>3. file' = file /\ now' = now
  BY DEF Authenticate, CheckRead, Refuse, Right, Wrong, RecallRead, UpdateRead,
         Stamp, Attempt, fileVars
<1> QED BY <1>2, <1>3

\* The same, for the other variables.
LEMMA RequestNumbers ==
  ASSUME OtherTypes, NEW s \in Servers,
         Authenticate(s) \/ \E u \in Users : Attempt(s, u)
  PROVE  /\ sem' \in Nat \cup {NoSem} /\ inside' \subseteq Servers
         /\ attempts' \in 0 .. MaxAttempts
         /\ fails' \in [Users -> Nat] /\ failed_at' \in [Users -> Never .. MaxTime]
         /\ spoiled' \subseteq Users
<1> USE DEF OtherTypes, lockVars, history, Release
<1>1. job[s].user \in Users
  BY DEF Job
<1>2. CASE Right(s) \/ Wrong(s)
  BY <1>1, <1>2 DEF Right, Wrong
<1>3. CASE Refuse(s)
  BY <1>3 DEF Refuse
<1>4. CASE CheckRead(s) \/ RecallRead(s) \/ UpdateRead(s)
  <2>1. sem' = sem + 1 /\ inside' \subseteq Servers
    BY <1>4 DEF CheckRead, RecallRead, UpdateRead
  <2>2. sem' \in Nat \cup {NoSem}
    BY <2>1 DEF NoSem
  <2> QED BY <1>4, <2>1, <2>2 DEF CheckRead, RecallRead, UpdateRead
<1>5. CASE Stamp(s)
  BY <1>1, <1>5 DEF Stamp, Never
<1>6. CASE \E u \in Users : Attempt(s, u)
  BY <1>6 DEF Attempt
<1> QED BY <1>2, <1>3, <1>4, <1>5, <1>6 DEF Authenticate

\* Storing.
LEMMA StoreTypes ==
  ASSUME OtherTypes, Timed, Aimed, NEW s \in Servers, Store(s)
  PROVE  OtherTypes' /\ Timed' /\ Aimed'
<1> USE DEF lockVars, history, Release
<1>1. job = [job EXCEPT ![s] = job[s]] /\ job[s] \in Job /\ job[s].user \in Users
  BY DEF OtherTypes, Job
<1>2. sem' \in Nat \cup {NoSem} /\ inside' \subseteq Servers
  BY DEF OtherTypes, NoSem, Store, Find, Rewrite, WriteFails, AppendHeader,
         AppendName, AppendNameFails
<1>3. /\ now' \in 0 .. MaxTime /\ attempts' = attempts /\ fails' \in [Users -> Nat]
      /\ failed_at' \in [Users -> Never .. MaxTime] /\ spoiled' \subseteq Users
  BY <1>1 DEF OtherTypes, Store, Find, Rewrite, WriteFails, AppendHeader,
         AppendName, AppendNameFails, fileVars
<1>4. CASE Find(s)
  <2> DEFINE i == PosOf(job[s].user)
             p == IF i = NotFound THEN "append" ELSE "rewrite"
             j == [job[s] EXCEPT !.pos = i]
  <2>1. PosOf(job[s].user) \in Nat
    BY PosIsFound DEF OtherTypes, NotFound
  <2>2. j \in Job /\ j.last = job[s].last /\ j.user = job[s].user /\ j.pos = i
    <3> HIDE DEF i
    <3> QED BY <1>1, <2>1 DEF Job, i
  <2>3. p = "rewrite" => j.pos \in Found(j.user)
    BY <2>2, PosIsFound DEF OtherTypes
  <2>4. j.last \in 0 .. MaxTime
    BY <1>4, <2>2 DEF Find, Timed
  <2>5. at' = [at EXCEPT ![s] = p] /\ job' = [job EXCEPT ![s] = j] /\ file' = file
    BY <1>4 DEF Find, fileVars
  <2> HIDE DEF j, p
  <2>6. p \in Places
    BY DEF p, Places, Critical
  <2> QED BY <1>2, <1>3, <2>2, <2>3, <2>4, <2>5, <2>6, MoveTypes
<1>5. CASE WriteFails(s) \/ AppendNameFails(s)
  <2>1. at' = [at EXCEPT ![s] = "idle"] /\ job' = [job EXCEPT ![s] = NoJob]
        /\ file' = file
    BY <1>5 DEF WriteFails, AppendNameFails, Return, fileVars
  <2> QED BY <1>2, <1>3, <2>1, NoJobIsJob, MoveTypes DEF Places
<1>6. CASE AppendHeader(s)
  <2>1. at' = [at EXCEPT ![s] = "named"] /\ job' = [job EXCEPT ![s] = job[s]]
        /\ file' = file
    BY <1>1, <1>6 DEF AppendHeader
  <2>2. job[s].last \in 0 .. MaxTime /\ "named" \in Places
    BY <1>6 DEF AppendHeader, Timed, Places, Critical
  <2> QED BY <1>1, <1>2, <1>3, <2>1, <2>2, MoveTypes
<1>7. ASSUME file' \in Seq(Record), \A u : Found(u) \subseteq Found(u)', Return(s)
      PROVE  OtherTypes' /\ Timed' /\ Aimed'
  <2>1. /\ at' \in [Servers -> Places] /\ job' \in [Servers -> Job]
        /\ at'[s] = "idle"
        /\ \A r \in Servers \ {s} : at'[r] = at[r] /\ job'[r] = job[r]
    BY <1>7, NoJobIsJob DEF Return, OtherTypes, Places
  <2>2. Timed'
    BY <2>1 DEF Timed
  <2>3. Aimed'
    BY <1>7, <2>1 DEF Aimed
  <2> QED BY <1>2, <1>3, <1>7, <2>1, <2>2, <2>3 DEF OtherTypes
<1>8. CASE Rewrite(s)
  <2>1. file' \in Seq(Record) /\ Return(s)
    BY <1>8, RewriteFile DEF Rewrite
  <2>2. \A u : Found(u)' = Found(u)
    BY <1>8, RewriteFile
  <2>3. \A u : Found(u) \subseteq Found(u)'
    BY <2>2, Zenon
  <2> QED BY <1>7, <2>1, <2>3
<1>9. CASE AppendName(s)
  BY <1>7, <1>9, AppendFile DEF AppendName
<1> QED BY <1>4, <1>5, <1>6, <1>8, <1>9 DEF Store

\* Types after any step.
LEMMA StepTypes ==
  ASSUME TypeOK, Timed, Aimed, [Next]_vars
  PROVE  TypeOK' /\ Timed' /\ Aimed'
<1> SUFFICES OtherTypes' /\ Timed' /\ Aimed'
  BY StepFlags, TypesInTwo
<1> OtherTypes
  BY TypesInTwo
<1>1. CASE UNCHANGED vars \/ Tick
  <2>1. UNCHANGED <<file, sem, inside, at, job, attempts, fails, failed_at, spoiled>>
    BY <1>1 DEF vars, Tick, lockVars, fileVars, history
  <2>2. now' \in 0 .. MaxTime
    BY <1>1 DEF vars, Tick, OtherTypes
  <2>3. \A u : Found(u)' = Found(u)
    BY <2>1 DEF Found
  <2> QED BY <2>1, <2>2, <2>3 DEF OtherTypes, Timed, Aimed
<1>2. ASSUME NEW s \in Servers, Start(s) \/ Enter(s) \/ Interrupted(s) \/ Die(s)
      PROVE  OtherTypes' /\ Timed' /\ Aimed'
  BY <1>2, StartTypes
<1>3. ASSUME NEW s \in Servers, Authenticate(s) \/ \E u \in Users : Attempt(s, u)
      PROVE  OtherTypes' /\ Timed' /\ Aimed'
  <2>1. PICK p \in Places, j \in Job :
          /\ at' = [at EXCEPT ![s] = p] /\ job' = [job EXCEPT ![s] = j]
          /\ p \in {"find", "rewrite", "append", "named"} => j.last \in 0 .. MaxTime
          /\ p # "rewrite"
    BY <1>3, RequestTypes
  <2>2. file' = file /\ now' = now
    BY <1>3, RequestTypes
  <2>3. \A u : Found(u)' = Found(u)
    BY <2>2 DEF Found
  <2>4. /\ at' \in [Servers -> Places] /\ job' \in [Servers -> Job]
        /\ at'[s] = p /\ job'[s] = j
        /\ \A r \in Servers \ {s} : at'[r] = at[r] /\ job'[r] = job[r]
    BY <2>1 DEF OtherTypes
  <2>5. Timed' /\ Aimed'
    BY <2>1, <2>3, <2>4 DEF Timed, Aimed
  <2> QED BY <1>3, <2>2, <2>4, <2>5, RequestNumbers DEF OtherTypes
<1>4. ASSUME NEW s \in Servers, Store(s)
      PROVE  OtherTypes' /\ Timed' /\ Aimed'
  BY <1>4, StoreTypes
<1> QED BY <1>1, <1>2, <1>3, <1>4 DEF Next

-----------------------------------------------------------------------------
(***************************************************************************)
(* The semaphore as a token: down while one server has it, that one is     *)
(* inside or about to set it for the first time, or when it is lost.       *)
(***************************************************************************)
Created == {s \in Servers : at[s] = "created"}
Holders == inside \cup Created

Token ==
  /\ sem \in {NoSem, 0, 1}
  /\ \A r, s \in Holders : r = s
  /\ \A s \in inside : at[s] \in Critical
  /\ sem = 0 <=> Holders # {} \/ lost
  /\ lost => Holders = {}
  /\ sem = NoSem => \A s \in Servers : at[s] = "down"
  /\ \A s \in Servers : at[s] = "named" => s \in inside
  /\ torn => lost \/ \E s \in inside : at[s] = "named"

\* The token is what the property says.
LEMMA TokenSuffices ==
  ASSUME Token
  PROVE  SemaphoreKept
BY DEF Token, SemaphoreKept, Holders, Created, NoSem

\* Nobody has it at the start.
LEMMA InitToken == Init => Token
BY DEF Init, Token, Holders, Created, NoSem

\* A step that does not touch the semaphore, of a server without it.
LEMMA QuietToken ==
  ASSUME TypeOK, Token, NEW s \in Servers, NEW p, sem # NoSem,
         at' = [at EXCEPT ![s] = p],
         sem' = sem, inside' = inside, lost' = lost, torn' = torn,
         at[s] \notin {"created", "named"}, p \notin {"created", "named"},
         s \notin inside
  PROVE  Token'
<1>1. \A r \in Servers : at'[r] = IF r = s THEN p ELSE at[r]
  BY DEF TypeOK
<1>2. Created' = Created /\ Holders' = Holders
  BY <1>1 DEF Created, Holders
<1>3. inside \subseteq Servers
  BY DEF TypeOK
<1> QED BY <1>1, <1>2, <1>3 DEF Token

\* SEM_RELEASE at the end of a critical section that leaves no header torn.
LEMMA ReleaseToken ==
  ASSUME TypeOK, Token, NEW s \in Servers, NEW p,
         Release(s), at' = [at EXCEPT ![s] = p],
         p \notin {"created", "named"},
         \/ torn' = FALSE
         \/ torn' = torn /\ at[s] # "named"
  PROVE  Token'
<1>1. \A r \in Servers : at'[r] = IF r = s THEN p ELSE at[r]
  BY DEF TypeOK
<1>2. inside = {s} /\ Created = {} /\ sem = 0 /\ ~lost
  BY DEF Release, Token, Holders, Created, Critical, TypeOK
<1>3. inside' = {} /\ Created' = {} /\ sem' = 1 /\ ~lost'
  BY <1>1, <1>2 DEF Release, Created
<1>4. ~torn'
  BY <1>2 DEF Token
<1>5. \A r \in Servers : at'[r] # "named"
  BY <1>1, <1>2 DEF Token
<1> QED BY <1>3, <1>4, <1>5 DEF Token, Holders, NoSem

\* The token moves with every step as it should.
LEMMA StepToken ==
  ASSUME TypeOK, Token, [Next]_vars
  PROVE  Token'
<1> USE DEF lockVars, fileVars
<1>1. CASE UNCHANGED vars \/ Tick
  <2>1. UNCHANGED <<sem, inside, lost, torn, at>>
    BY <1>1, Zenon DEF vars, Tick
  <2> QED BY <2>1 DEF Token, Holders, Created
<1>2. ASSUME NEW s \in Servers, Start(s) PROVE Token'
  <2>1. CASE CreateSem(s)
    <3>1. \A r \in Servers : at'[r] = IF r = s THEN "created" ELSE at[r]
      BY <2>1 DEF CreateSem, TypeOK
    <3>2. \A r \in Servers : at[r] = "down"
      BY <2>1 DEF CreateSem, Token
    <3>3. inside = {} /\ ~lost /\ ~torn
      BY <2>1, <3>2 DEF CreateSem, Token, Holders, NoSem
    <3>4. Holders' = {s}
      BY <2>1, <3>1, <3>2, <3>3 DEF CreateSem, Holders, Created
    <3>5. sem' = 0 /\ inside' = {} /\ ~lost' /\ ~torn'
      BY <2>1, <3>3 DEF CreateSem
    <3>6. \A r \in Servers : at'[r] # "named"
      BY <3>1, <3>2
    <3> QED BY <3>4, <3>5, <3>6 DEF Token, NoSem
  <2>2. CASE SetSem(s)
    <3>1. \A r \in Servers : at'[r] = IF r = s THEN "idle" ELSE at[r]
      BY <2>2 DEF SetSem, TypeOK
    <3>2. Holders = {s} /\ inside = {} /\ ~lost
      BY <2>2 DEF SetSem, Token, Holders, Created, Critical
    <3>3. ~torn
      BY <3>2 DEF Token
    <3>4. sem' = 1 /\ inside' = {} /\ ~lost' /\ ~torn'
      BY <2>2, <3>2, <3>3 DEF SetSem
    <3>5. Holders' = {}
      BY <3>1, <3>2, <3>4 DEF Holders, Created
    <3>6. \A r \in Servers : at'[r] # "named"
      BY <3>1, <3>2 DEF Token
    <3> QED BY <3>4, <3>5, <3>6 DEF Token, NoSem
  <2>3. CASE ReuseSem(s)
    <3>1. s \notin inside
      BY <2>3 DEF ReuseSem, Token, Critical
    <3>2. /\ sem' = sem /\ inside' = inside /\ lost' = lost /\ torn' = torn
          /\ sem # NoSem /\ at[s] \notin {"created", "named"}
      BY <2>3 DEF ReuseSem
    <3>3. \E p : at' = [at EXCEPT ![s] = p] /\ p \notin {"created", "named"}
      <4>1. at' = [at EXCEPT ![s] = "idle"] /\ "idle" \notin {"created", "named"}
        BY <2>3 DEF ReuseSem
      <4> QED BY <4>1, Zenon
    <3> QED BY <3>1, <3>2, <3>3, QuietToken
  <2> QED BY <1>2, <2>1, <2>2, <2>3 DEF Start
<1>3. ASSUME NEW s \in Servers, Enter(s) PROVE Token'
  <2>1. /\ at' = at /\ lost' = lost /\ torn' = torn
        /\ inside' = inside \cup {s} /\ sem = 1 /\ sem' = 0
        /\ at[s] \in Critical
    BY <1>3 DEF Enter, Token, NoSem
  <2>2. Holders = {} /\ ~lost /\ ~torn
    BY <2>1 DEF Token, Holders
  <2>3. Created' = {} /\ inside' = {s}
    BY <2>1, <2>2 DEF Created, Holders
  <2>4. \A r \in Servers : at'[r] # "named"
    BY <2>1, <2>2 DEF Token, Holders
  <2>5. Holders' = {s} /\ ~lost' /\ ~torn'
    BY <2>1, <2>2, <2>3 DEF Holders
  <2> QED BY <2>1, <2>3, <2>4, <2>5 DEF Token, NoSem
<1>4. ASSUME NEW s \in Servers, Interrupted(s) PROVE Token'
  <2>1. \E p : at' = [at EXCEPT ![s] = p] /\ p \notin {"created", "named"}
    BY <1>4 DEF Interrupted, Return
  <2>2. /\ sem' = sem /\ inside' = inside /\ lost' = lost /\ torn' = torn
        /\ s \notin inside /\ sem # NoSem
    BY <1>4 DEF Interrupted, NoSem
  <2>3. at[s] \notin {"created", "named"}
    BY <1>4, <2>2 DEF Interrupted, Critical, Token
  <2> QED BY <2>1, <2>2, <2>3, QuietToken
<1>5. ASSUME NEW s \in Servers,
             \/ Refuse(s) \/ Right(s) \/ Wrong(s) \/ Stamp(s)
             \/ \E u \in Users : Attempt(s, u)
      PROVE  Token'
  <2>1. \E p : at' = [at EXCEPT ![s] = p] /\ p \notin {"created", "named"}
    BY <1>5 DEF Refuse, Right, Wrong, Stamp, Attempt, Return
  <2>2. sem' = sem /\ inside' = inside /\ lost' = lost /\ torn' = torn
    BY <1>5, Zenon DEF Refuse, Right, Wrong, Stamp, Attempt
  <2>3. at[s] \in {"decide", "stamp", "idle"}
    BY <1>5 DEF Refuse, Right, Wrong, Stamp, Attempt
  <2>4. s \notin inside /\ sem # NoSem
    BY <2>3 DEF Token, Critical
  <2> QED BY <2>1, <2>2, <2>3, <2>4, QuietToken
<1>6. ASSUME NEW s \in Servers,
             \/ CheckRead(s) \/ RecallRead(s) \/ UpdateRead(s)
             \/ Find(s) \/ Rewrite(s) \/ WriteFails(s)
      PROVE  Token'
  <2>1. \E p : at' = [at EXCEPT ![s] = p] /\ p \notin {"created", "named"}
    BY <1>6 DEF CheckRead, RecallRead, UpdateRead, Find, Rewrite, WriteFails, Return
  <2>2. Release(s) /\ torn' = torn
    BY <1>6, Zenon DEF CheckRead, RecallRead, UpdateRead, Find, Rewrite, WriteFails
  <2>3. at[s] # "named"
    BY <1>6 DEF CheckRead, RecallRead, UpdateRead, Find, Rewrite, WriteFails
  <2> QED BY <2>1, <2>2, <2>3, ReleaseToken
<1>7. ASSUME NEW s \in Servers, AppendName(s) \/ AppendNameFails(s) PROVE Token'
  <2>1. at' = [at EXCEPT ![s] = "idle"] /\ Release(s) /\ torn' = FALSE
    BY <1>7, Zenon DEF AppendName, AppendNameFails, Return
  <2>2. \E p : at' = [at EXCEPT ![s] = p] /\ p \notin {"created", "named"}
    <3>1. "idle" \notin {"created", "named"}
      OBVIOUS
    <3> QED BY <2>1, <3>1, Zenon
  <2> QED BY <2>1, <2>2, ReleaseToken
<1>8. ASSUME NEW s \in Servers, AppendHeader(s) PROVE Token'
  <2>1. \A r \in Servers : at'[r] = IF r = s THEN "named" ELSE at[r]
    BY <1>8 DEF AppendHeader, TypeOK
  <2>2. inside = {s} /\ Created = {} /\ sem = 0 /\ ~lost
    BY <1>8 DEF AppendHeader, Token, Holders, Created, TypeOK
  <2>3. inside' = {s} /\ Created' = {} /\ sem' = 0 /\ ~lost'
    BY <1>8, <2>1, <2>2 DEF AppendHeader, Created
  <2>4. \A r \in Servers : at'[r] = "named" => r = s
    BY <2>1, <2>2 DEF Token
  <2> QED BY <2>1, <2>3, <2>4 DEF Token, Holders, NoSem, Critical
<1>9. ASSUME NEW s \in Servers, Die(s) PROVE Token'
  <2>1. \A r \in Servers : at'[r] = IF r = s THEN "down" ELSE at[r]
    BY <1>9 DEF Die, TypeOK
  <2>2. sem' = sem /\ torn' = torn /\ inside' = inside \ {s}
        /\ (lost' <=> lost \/ s \in Holders)
    BY <1>9 DEF Die, Holders, Created
  <2>3. Holders' = Holders \ {s}
    BY <2>1, <2>2 DEF Holders, Created
  <2>4. Holders' # {} => ~lost'
    BY <2>2, <2>3 DEF Token
  <2>5. sem' = 0 <=> Holders' # {} \/ lost'
    BY <2>2, <2>3 DEF Token
  <2>6. \A r \in inside' : at'[r] \in Critical
    BY <2>1, <2>2 DEF Token, TypeOK
  <2>7. \A r \in Servers : at'[r] = "named" => r \in inside'
    BY <2>1, <2>2 DEF Token
  <2>8. torn' => lost' \/ \E r \in inside' : at'[r] = "named"
    <3>1. CASE s \in Holders
      BY <2>2, <3>1
    <3>2. CASE s \notin Holders
      BY <2>1, <2>2, <3>2 DEF Token, Holders, TypeOK
    <3> QED BY <3>1, <3>2
  <2>9. sem' = NoSem => \A r \in Servers : at'[r] = "down"
    BY <2>1, <2>2 DEF Token
  <2> QED BY <2>2, <2>3, <2>4, <2>5, <2>6, <2>7, <2>8, <2>9 DEF Token
<1> QED BY <1>1, <1>2, <1>3, <1>4, <1>5, <1>6, <1>7, <1>8, <1>9
        DEF Next, Authenticate, Store

-----------------------------------------------------------------------------
(***************************************************************************)
(* The record of a user.  While nobody works with it, it has his failures  *)
(* and the time of the last; while one server does, what is in its locals  *)
(* makes up for what is not in the file yet.                               *)
(***************************************************************************)
Works(s, u) == at[s] \in Busy /\ job[s].user = u

\* The file says that u has failed n times in a row, last at t.
OnFile(u, n, t) ==
  IF PosOf(u) = NotFound
  THEN n = 0 /\ t = Never
  ELSE file[PosOf(u)].num_failed = n /\ file[PosOf(u)].last_failed = t

InStep(s, u) ==
  /\ at[s] = "check" => OnFile(u, fails[u], failed_at[u])
  /\ at[s] = "decide" => /\ OnFile(u, fails[u], failed_at[u])
                         /\ job[s].num = fails[u] /\ job[s].last = failed_at[u]
  /\ at[s] = "recall" => fails[u] = 0 /\ \E n : OnFile(u, n, failed_at[u])
  /\ at[s] = "update" => fails[u] # 0 /\ OnFile(u, fails[u] - 1, failed_at[u])
  /\ at[s] = "stamp" => job[s].num = fails[u]
  /\ at[s] \in {"find", "rewrite", "append", "named"} =>
       job[s].num = fails[u] /\ job[s].last = failed_at[u]
  /\ at[s] = "rewrite" => job[s].pos = PosOf(u) /\ PosOf(u) # NotFound
  /\ at[s] \in {"append", "named"} => Found(u) = {}

Kept(u) ==
  u \notin spoiled =>
    /\ \A r, s \in Servers : Works(r, u) /\ Works(s, u) => r = s
    /\ (\A s \in Servers : ~Works(s, u)) => OnFile(u, fails[u], failed_at[u])
    /\ \A s \in Servers : Works(s, u) => InStep(s, u)

\* At the start there are no records and no failures.
LEMMA InitKept == Init => \A u \in Users : Kept(u)
<1> SUFFICES ASSUME Init, NEW u \in Users PROVE Kept(u)
  OBVIOUS
<1>1. \A s \in Servers : ~Works(s, u)
  BY DEF Init, Works, Busy, Places, Critical
<1>2. PosOf(u) = NotFound
  BY DEF Init, PosOf, Found
<1>3. OnFile(u, fails[u], failed_at[u])
  BY <1>2 DEF OnFile, Init
<1> QED BY <1>1, <1>3 DEF Kept

\* The same records: the search finds what it found.
LEMMA SamePos ==
  ASSUME NEW u, Found(u)' = Found(u)
  PROVE  PosOf(u)' = PosOf(u)
BY DEF PosOf, FirstOf

\* Nothing that has to do with the user moves.
LEMMA Elsewhere ==
  ASSUME TypeOK, NEW u \in Users, Kept(u), spoiled \subseteq spoiled',
         NEW s \in Servers, ~Works(s, u), ~Works(s, u)',
         \A r \in Servers \ {s} : at'[r] = at[r] /\ job'[r] = job[r],
         Found(u)' = Found(u), \A i \in Found(u) : file'[i] = file[i],
         fails'[u] = fails[u], failed_at'[u] = failed_at[u]
  PROVE  Kept(u)'
<1> SUFFICES ASSUME u \notin spoiled' PROVE Kept(u)'
  BY DEF Kept
<1>1. PosOf(u)' = PosOf(u)
  BY SamePos
<1>2. PosOf(u) # NotFound => file'[PosOf(u)] = file[PosOf(u)]
  BY PosIsFound DEF TypeOK
<1>3. \A n, t : OnFile(u, n, t) => OnFile(u, n, t)'
  BY <1>1, <1>2 DEF OnFile
<1>4. OnFile(u, fails[u], failed_at[u]) => OnFile(u, fails[u], failed_at[u])'
  BY <1>1, <1>2 DEF OnFile
<1>5. \A r \in Servers : Works(r, u)' => Works(r, u)
  BY DEF Works
<1>6. \A r \in Servers : Works(r, u) => Works(r, u)'
  BY DEF Works
<1>7. ASSUME NEW r \in Servers, Works(r, u)'
      PROVE  InStep(r, u)'
  <2>1. InStep(r, u) /\ at'[r] = at[r] /\ job'[r] = job[r]
    BY <1>5, <1>7 DEF Kept
  <2>2. at[r] = "recall" => \E n : OnFile(u, n, failed_at[u])'
    BY <1>3, <2>1 DEF InStep, OnFile
  <2>3. at[r] = "update" => OnFile(u, fails[u] - 1, failed_at[u])'
    BY <1>1, <1>2, <2>1 DEF InStep, OnFile
  <2> QED BY <1>1, <1>4, <2>1, <2>2, <2>3 DEF InStep
<1>8. \A r, q \in Servers : Works(r, u)' /\ Works(q, u)' => r = q
  BY <1>5 DEF Kept
<1>9. (\A r \in Servers : ~Works(r, u)') => OnFile(u, fails[u], failed_at[u])'
  BY <1>4, <1>6 DEF Kept
<1> QED BY <1>7, <1>8, <1>9 DEF Kept

\* The only server that works with the user does a step.
LEMMA Alone ==
  ASSUME NEW u \in Users, NEW s \in Servers,
         \A r \in Servers \ {s} : ~Works(r, u) /\ at'[r] = at[r] /\ job'[r] = job[r],
         \/ Works(s, u)' /\ InStep(s, u)'
         \/ ~Works(s, u)' /\ OnFile(u, fails[u], failed_at[u])'
  PROVE  Kept(u)'
<1>1. \A r \in Servers \ {s} : ~Works(r, u)'
  BY DEF Works
<1> QED BY <1>1 DEF Kept

\* Steps that break an attempt off, or begin before one and end after none.
LEMMA BreakOffKept ==
  ASSUME TypeOK, NEW u \in Users, Kept(u), NEW s \in Servers,
         Start(s) \/ Die(s) \/ Interrupted(s) \/ WriteFails(s) \/ AppendNameFails(s)
  PROVE  Kept(u)'
<1> SUFFICES ASSUME u \notin spoiled' PROVE Kept(u)'
  BY DEF Kept
<1>1. /\ \A r \in Servers \ {s} : at'[r] = at[r] /\ job'[r] = job[r]
      /\ UNCHANGED <<file, fails, failed_at>> /\ spoiled \subseteq spoiled'
  BY DEF Start, CreateSem, SetSem, ReuseSem, Die, Interrupted, WriteFails,
         AppendNameFails, Return, fileVars, lockVars, history, TypeOK
<1>2. CASE Start(s)
  <2>1. ~Works(s, u) /\ ~Works(s, u)'
    BY <1>2 DEF Start, CreateSem, SetSem, ReuseSem, Works, Busy, TypeOK
  <2> QED BY <1>1, <2>1, Elsewhere DEF Found
<1>3. CASE Die(s)
  <2>1. ~Works(s, u) /\ ~Works(s, u)'
    BY <1>3 DEF Die, Works, Busy, TypeOK
  <2> QED BY <1>1, <2>1, Elsewhere DEF Found
<1>4. CASE Interrupted(s) \/ WriteFails(s) \/ AppendNameFails(s)
  <2>1. job[s].user # u /\ at[s] \in Busy
    BY <1>4 DEF Interrupted, WriteFails, AppendNameFails, Critical, Busy, Places
  <2>2. job'[s].user = job[s].user \/ at'[s] = "idle"
    <3>1. \/ job' = job \/ at'[s] = "idle"
          \/ job'[s] = [job[s] EXCEPT !.num = 1]
      BY <1>4 DEF Interrupted, WriteFails, AppendNameFails, Return, TypeOK
    <3>2. job[s] \in Job
      BY DEF TypeOK
    <3> QED BY <3>1, <3>2 DEF Job
  <2>3. ~Works(s, u) /\ ~Works(s, u)'
    BY <2>1, <2>2 DEF Works, Busy
  <2> QED BY <1>1, <2>3, Elsewhere DEF Found
<1> QED BY <1>2, <1>3, <1>4

\* A new attempt finds the record settled, or spoils the user.
LEMMA AttemptKept ==
  ASSUME TypeOK, NEW u \in Users, Kept(u), NEW s \in Servers, NEW v \in Users,
         Attempt(s, v)
  PROVE  Kept(u)'
<1> SUFFICES ASSUME u \notin spoiled' PROVE Kept(u)'
  BY DEF Kept
<1>1. /\ \A r \in Servers \ {s} : at'[r] = at[r] /\ job'[r] = job[r]
      /\ UNCHANGED <<file, fails, failed_at>> /\ spoiled \subseteq spoiled'
      /\ at'[s] = "check" /\ job'[s] = JobFor(v) /\ at[s] = "idle"
  BY DEF Attempt, fileVars, TypeOK
<1>2. Found(u)' = Found(u) /\ PosOf(u)' = PosOf(u)
  BY <1>1, SamePos DEF Found
<1>3. ~Works(s, u)
  BY <1>1 DEF Works, Busy
<1>4. CASE v # u
  <2>1. ~Works(s, u)'
    BY <1>1, <1>4 DEF Works, JobFor, JobOf
  <2> QED BY <1>1, <1>2, <1>3, <2>1, Elsewhere
<1>5. CASE v = u
  <2>1. \A r \in Servers : ~Works(r, u)
    BY <1>5 DEF Attempt, Works
  <2>2. OnFile(u, fails[u], failed_at[u])'
    BY <1>1, <1>2, <2>1 DEF Kept, OnFile
  <2>3. Works(s, u)'
    BY <1>1, <1>5 DEF Works, JobFor, JobOf, Busy, Places, Critical
  <2>4. InStep(s, u)'
    BY <1>1, <2>2 DEF InStep
  <2> QED BY <1>1, <2>1, <2>3, <2>4, Alone
<1> QED BY <1>4, <1>5

\* A step of an attempt for one user leaves the others alone.
LEMMA OthersKept ==
  ASSUME TypeOK, Aimed, Timed, NEW u \in Users, Kept(u), NEW s \in Servers,
         job[s].user # u,
         \/ Authenticate(s) \/ Find(s) \/ AppendHeader(s) \/ Rewrite(s) \/ AppendName(s)
  PROVE  Kept(u)'
<1>1. /\ \A r \in Servers \ {s} : at'[r] = at[r] /\ job'[r] = job[r]
      /\ spoiled' = spoiled
  BY DEF Authenticate, CheckRead, Refuse, Right, Wrong, RecallRead, UpdateRead,
         Stamp, Find, AppendHeader, Rewrite, AppendName, Return, history, TypeOK
<1>2. job'[s].user = job[s].user \/ at'[s] = "idle"
  <2>1. CASE Refuse(s) \/ Rewrite(s) \/ AppendName(s)
    BY <2>1 DEF Refuse, Rewrite, AppendName, Return, TypeOK
  <2>2. CASE Right(s) \/ Wrong(s) \/ AppendHeader(s)
    BY <2>2 DEF Right, Wrong, AppendHeader
  <2>3. CASE CheckRead(s) \/ RecallRead(s)
    <3>1. \/ at'[s] = "idle"
          \/ \E n, l : job' = [job EXCEPT ![s] = JobOf(job[s].user, n, l)]
      <4>1. CASE CheckRead(s)
        BY <4>1 DEF CheckRead, JobFor
      <4>2. CASE RecallRead(s)
        BY <4>2 DEF RecallRead, Return, TypeOK
      <4> QED BY <2>3, <4>1, <4>2
    <3> QED BY <3>1 DEF JobOf, TypeOK
  <2>4. CASE UpdateRead(s) \/ Stamp(s) \/ Find(s)
    <3>1. job[s] \in Job
      BY DEF TypeOK
    <3>2. \/ \E n : job'[s] = [job[s] EXCEPT !.num = n]
          \/ \E n : job'[s] = [job[s] EXCEPT !.last = n]
          \/ \E n : job'[s] = [job[s] EXCEPT !.pos = n]
      BY <2>4 DEF UpdateRead, Stamp, Find, TypeOK
    <3> QED BY <3>1, <3>2 DEF Job
  <2> QED BY <2>1, <2>2, <2>3, <2>4 DEF Authenticate
<1>3. ~Works(s, u) /\ ~Works(s, u)'
  BY <1>2 DEF Works, Busy
<1>4. fails'[u] = fails[u] /\ failed_at'[u] = failed_at[u]
  BY DEF Authenticate, CheckRead, Refuse, Right, Wrong, RecallRead, UpdateRead,
         Stamp, Find, AppendHeader, Rewrite, AppendName, history, TypeOK
<1>5. Found(u)' = Found(u) /\ \A i \in Found(u) : file'[i] = file[i]
  <2> OtherTypes
    BY TypesInTwo
  <2>1. CASE Rewrite(s)
    <3>1. Found(u)' = Found(u) /\ \A i \in DOMAIN file \ {job[s].pos} : file'[i] = file[i]
      BY <2>1, RewriteFile
    <3>2. job[s].pos \notin Found(u)
      BY <2>1 DEF Rewrite, Aimed, Found
    <3> QED BY <3>1, <3>2 DEF Found
  <2>2. CASE AppendName(s)
    <3>1. Found(u)' = Found(u) /\ \A i \in DOMAIN file : file'[i] = file[i]
      BY <2>2, AppendFile
    <3> QED BY <3>1 DEF Found
  <2>3. CASE file' = file
    BY <2>3 DEF Found
  <2> QED BY <2>1, <2>2, <2>3 DEF Authenticate, CheckRead, Refuse, Right, Wrong,
             RecallRead, UpdateRead, Stamp, Find, AppendHeader, fileVars
<1> QED BY <1>1, <1>3, <1>4, <1>5, Elsewhere

\* What is known when a server does a step of an attempt that is not spoiled.
LEMMA Solo ==
  ASSUME NEW u \in Users, Kept(u), u \notin spoiled, NEW s \in Servers, Works(s, u)
  PROVE  InStep(s, u) /\ \A r \in Servers \ {s} : ~Works(r, u)
BY DEF Kept

\* The steps of an attempt, for its user: reading and deciding.
LEMMA OwnRequestKept ==
  ASSUME TypeOK, NEW u \in Users, Kept(u), NEW s \in Servers, job[s].user = u,
         Authenticate(s)
  PROVE  Kept(u)'
<1>0. /\ \A r \in Servers \ {s} : at'[r] = at[r] /\ job'[r] = job[r]
      /\ spoiled' = spoiled /\ file' = file
  BY DEF Authenticate, CheckRead, Refuse, Right, Wrong, RecallRead, UpdateRead,
         Stamp, Return, fileVars, history, TypeOK
<1> SUFFICES ASSUME u \notin spoiled PROVE Kept(u)'
  BY <1>0 DEF Kept
<1>1. Works(s, u)
  BY DEF Authenticate, CheckRead, Refuse, Right, Wrong, RecallRead, UpdateRead,
         Stamp, Works, Busy, Places, Critical
<1>2. InStep(s, u) /\ \A r \in Servers \ {s} : ~Works(r, u)
  BY <1>1, Solo
<1>3. Found(u)' = Found(u) /\ PosOf(u)' = PosOf(u)
  BY <1>0, SamePos DEF Found
<1>4. fails[u] \in Nat /\ failed_at[u] \in Never .. MaxTime
  BY DEF TypeOK
<1> SUFFICES \/ Works(s, u)' /\ InStep(s, u)'
             \/ ~Works(s, u)' /\ OnFile(u, fails[u], failed_at[u])'
  BY <1>0, <1>2, Alone
<1>6. CASE CheckRead(s)
  <2>1. at'[s] = "decide" /\ UNCHANGED <<fails, failed_at>>
    BY <1>6 DEF CheckRead, history, TypeOK
  <2>2. job'[s] = IF PosOf(u) = NotFound THEN JobFor(u)
                  ELSE JobOf(u, file[PosOf(u)].num_failed, file[PosOf(u)].last_failed)
    BY <1>6 DEF CheckRead, TypeOK
  <2>3. OnFile(u, fails[u], failed_at[u])
    BY <1>2, <1>6 DEF InStep, CheckRead
  <2>4. job'[s].user = u /\ job'[s].num = fails[u] /\ job'[s].last = failed_at[u]
    BY <2>2, <2>3 DEF OnFile, JobFor, JobOf
  <2>5. OnFile(u, fails[u], failed_at[u])'
    BY <1>0, <1>3, <2>1, <2>3 DEF OnFile
  <2> QED BY <2>1, <2>4, <2>5 DEF InStep, Works, Busy, Places
<1>7. CASE Refuse(s)
  <2>1. at'[s] = "idle" /\ UNCHANGED <<fails, failed_at>>
    BY <1>7 DEF Refuse, Return, history, TypeOK
  <2>2. OnFile(u, fails[u], failed_at[u])
    BY <1>2, <1>7 DEF InStep, Refuse
  <2>3. OnFile(u, fails[u], failed_at[u])'
    BY <1>0, <1>3, <2>1, <2>2 DEF OnFile
  <2> QED BY <2>1, <2>3 DEF Works, Busy
<1>8. CASE Right(s) \/ Wrong(s)
  <2>1. job' = job /\ failed_at' = failed_at
    BY <1>8 DEF Right, Wrong
  <2>2. OnFile(u, fails[u], failed_at[u])
    BY <1>2, <1>8 DEF InStep, Right, Wrong
  <2>3. CASE Right(s)
    <3>1. at'[s] = "recall" /\ fails'[u] = 0
      BY <2>3 DEF Right, TypeOK
    <3>2. \E n : OnFile(u, n, failed_at[u])'
      BY <1>0, <1>3, <2>1, <2>2 DEF OnFile
    <3> QED BY <1>1, <2>1, <3>1, <3>2 DEF InStep, Works, Busy, Places, Critical
  <2>4. CASE Wrong(s)
    <3>1. at'[s] = "update" /\ fails'[u] = fails[u] + 1
      BY <2>4 DEF Wrong, TypeOK
    <3>2. fails'[u] # 0 /\ fails'[u] - 1 = fails[u]
      BY <1>4, <3>1
    <3>3. OnFile(u, fails[u] - 1, failed_at[u])'
      BY <1>0, <1>3, <2>1, <2>2, <3>2 DEF OnFile
    <3> QED BY <1>1, <2>1, <3>1, <3>2, <3>3 DEF InStep, Works, Busy, Places, Critical
  <2> QED BY <1>8, <2>3, <2>4
<1>9. CASE RecallRead(s)
  <2>1. UNCHANGED <<fails, failed_at>> /\ fails[u] = 0
    BY <1>2, <1>9 DEF RecallRead, history, InStep
  <2>2. PICK n : OnFile(u, n, failed_at[u])
    BY <1>2, <1>9 DEF RecallRead, InStep
  <2>3. CASE PosOf(u) = NotFound
    <3>1. at'[s] = "idle"
      BY <1>9, <2>3 DEF RecallRead, Return, TypeOK
    <3>2. OnFile(u, fails[u], failed_at[u])'
      BY <1>0, <1>3, <2>1, <2>2, <2>3 DEF OnFile
    <3> QED BY <3>1, <3>2 DEF Works, Busy
  <2>4. CASE PosOf(u) # NotFound
    <3>1. at'[s] = "find" /\ job'[s] = JobOf(u, 0, file[PosOf(u)].last_failed)
      BY <1>9, <2>4 DEF RecallRead, TypeOK
    <3>2. job'[s].user = u /\ job'[s].num = fails[u] /\ job'[s].last = failed_at[u]
      BY <2>1, <2>2, <2>4, <3>1 DEF OnFile, JobOf
    <3> QED BY <2>1, <3>1, <3>2 DEF InStep, Works, Busy, Places, Critical
  <2> QED BY <2>3, <2>4
<1>10. CASE UpdateRead(s)
  <2>1. UNCHANGED <<fails, failed_at>> /\ fails[u] # 0 /\ at'[s] = "stamp"
    BY <1>2, <1>10 DEF UpdateRead, history, InStep, TypeOK
  <2>2. OnFile(u, fails[u] - 1, failed_at[u])
    BY <1>2, <1>10 DEF UpdateRead, InStep
  <2>3. job'[s] = [job[s] EXCEPT !.num = IF PosOf(u) = NotFound THEN 1
                                         ELSE file[PosOf(u)].num_failed + 1]
    BY <1>10 DEF UpdateRead, TypeOK
  <2>4. (IF PosOf(u) = NotFound THEN 1 ELSE file[PosOf(u)].num_failed + 1) = fails[u]
    BY <1>4, <2>2 DEF OnFile
  <2>5. job'[s].user = u /\ job'[s].num = fails[u]
    BY <2>3, <2>4 DEF TypeOK, Job
  <2> QED BY <2>1, <2>5 DEF InStep, Works, Busy, Places
<1>11. CASE Stamp(s)
  <2>1. fails' = fails /\ at'[s] = "find" /\ failed_at'[u] = now
    BY <1>11 DEF Stamp, TypeOK
  <2>2. job'[s] = [job[s] EXCEPT !.last = now] /\ job[s].num = fails[u]
    BY <1>2, <1>11 DEF Stamp, InStep, TypeOK
  <2>3. job'[s].user = u /\ job'[s].num = fails[u] /\ job'[s].last = now
    BY <2>2 DEF TypeOK, Job
  <2> QED BY <2>1, <2>3 DEF InStep, Works, Busy, Places, Critical
<1> QED BY <1>6, <1>7, <1>8, <1>9, <1>10, <1>11 DEF Authenticate

\* The steps of an attempt, for its user: storing.
LEMMA OwnStoreKept ==
  ASSUME TypeOK, Timed, Aimed, NEW u \in Users, Kept(u), NEW s \in Servers,
         job[s].user = u,
         Find(s) \/ AppendHeader(s) \/ Rewrite(s) \/ AppendName(s)
  PROVE  Kept(u)'
<1> OtherTypes
  BY TypesInTwo
<1>0. /\ \A r \in Servers \ {s} : at'[r] = at[r] /\ job'[r] = job[r]
      /\ UNCHANGED <<spoiled, fails, failed_at>>
  BY DEF Find, AppendHeader, Rewrite, AppendName, Return, history, TypeOK
<1> SUFFICES ASSUME u \notin spoiled PROVE Kept(u)'
  BY <1>0 DEF Kept
<1>1. Works(s, u)
  BY DEF Find, AppendHeader, Rewrite, AppendName, Works, Busy, Places, Critical
<1>2. InStep(s, u) /\ \A r \in Servers \ {s} : ~Works(r, u)
  BY <1>1, Solo
<1> SUFFICES \/ Works(s, u)' /\ InStep(s, u)'
             \/ ~Works(s, u)' /\ OnFile(u, fails[u], failed_at[u])'
  BY <1>0, <1>2, Alone
<1>3. job[s].num = fails[u] /\ job[s].last = failed_at[u]
  BY <1>2 DEF Find, AppendHeader, Rewrite, AppendName, InStep
<1>4. CASE Find(s)
  <2>1. file' = file /\ job'[s] = [job[s] EXCEPT !.pos = PosOf(u)]
        /\ at'[s] = IF PosOf(u) = NotFound THEN "append" ELSE "rewrite"
    BY <1>4 DEF Find, fileVars, TypeOK
  <2>2. Found(u)' = Found(u) /\ PosOf(u)' = PosOf(u)
    BY <2>1, SamePos DEF Found
  <2>3. /\ job'[s].user = u /\ job'[s].num = fails[u] /\ job'[s].last = failed_at[u]
        /\ job'[s].pos = PosOf(u)
    BY <1>3, <2>1 DEF TypeOK, Job
  <2>4. PosOf(u) = NotFound => Found(u) = {}
    BY PosIsFound DEF TypeOK
  <2> QED BY <1>0, <2>1, <2>2, <2>3, <2>4 DEF InStep, Works, Busy, Places, Critical
<1>5. CASE AppendHeader(s)
  <2>1. file' = file /\ job' = job /\ at'[s] = "named" /\ Found(u) = {}
    BY <1>2, <1>5 DEF AppendHeader, InStep, TypeOK
  <2>2. Found(u)' = {}
    BY <2>1 DEF Found
  <2> QED BY <1>0, <1>3, <2>1, <2>2 DEF InStep, Works, Busy, Places, Critical
<1>6. CASE Rewrite(s)
  <2>1. at'[s] = "idle" /\ job[s].pos = PosOf(u) /\ PosOf(u) # NotFound
    BY <1>2, <1>6 DEF Rewrite, Return, InStep, TypeOK
  <2>2. /\ Found(u)' = Found(u)
        /\ file'[job[s].pos].num_failed = job[s].num
        /\ file'[job[s].pos].last_failed = job[s].last
    BY <1>6, RewriteFile
  <2>3. PosOf(u)' = PosOf(u)
    BY <2>2, SamePos
  <2>4. OnFile(u, fails[u], failed_at[u])'
    BY <1>0, <1>3, <2>1, <2>2, <2>3 DEF OnFile
  <2> QED BY <2>1, <2>4 DEF Works, Busy
<1>7. CASE AppendName(s)
  <2>1. at'[s] = "idle" /\ Found(u) = {}
    BY <1>2, <1>7 DEF AppendName, Return, InStep, TypeOK
  <2>2. Found(u)' = {Len(file) + 1} /\ file'[Len(file) + 1] = RecordOf(s)
    BY <1>7, <2>1, AppendFile
  <2>3. Len(file) + 1 \in Nat \ {0}
    BY DEF OtherTypes
  <2>4. PosOf(u)' = Len(file) + 1 /\ PosOf(u)' # NotFound
    <3>1. FirstOf(u)' = Len(file) + 1
      BY <2>2, <2>3 DEF FirstOf
    <3> QED BY <2>2, <2>3, <3>1 DEF PosOf, NotFound
  <2>5. RecordOf(s).num_failed = fails[u] /\ RecordOf(s).last_failed = failed_at[u]
    BY <1>3 DEF RecordOf
  <2>6. OnFile(u, fails[u], failed_at[u])'
    BY <1>0, <2>2, <2>4, <2>5 DEF OnFile
  <2> QED BY <2>1, <2>6 DEF Works, Busy
<1> QED BY <1>4, <1>5, <1>6, <1>7

\* Every record is kept by every step.
LEMMA StepKept ==
  ASSUME TypeOK, Timed, Aimed, NEW u \in Users, Kept(u), [Next]_vars
  PROVE  Kept(u)'
<1>1. ASSUME UNCHANGED <<file, at, job, fails, failed_at, spoiled>>
      PROVE  Kept(u)'
  BY <1>1 DEF Kept, InStep, OnFile, PosOf, FirstOf, Found, Works
<1>2. CASE UNCHANGED vars \/ Tick
  BY <1>1, <1>2 DEF vars, Tick, fileVars, history
<1>3. ASSUME NEW s \in Servers, Enter(s) PROVE Kept(u)'
  BY <1>1, <1>3 DEF Enter, fileVars, history
<1>4. ASSUME NEW s \in Servers, Authenticate(s) PROVE Kept(u)'
  BY <1>4, OthersKept, OwnRequestKept
<1>5. ASSUME NEW s \in Servers, Store(s) PROVE Kept(u)'
  BY <1>5, OthersKept, OwnStoreKept, BreakOffKept DEF Store
<1>6. ASSUME NEW s \in Servers, Start(s) \/ Die(s) \/ Interrupted(s) PROVE Kept(u)'
  BY <1>6, BreakOffKept
<1>7. ASSUME NEW s \in Servers, NEW v \in Users, Attempt(s, v) PROVE Kept(u)'
  BY <1>7, AttemptKept
<1> QED BY <1>2, <1>3, <1>4, <1>5, <1>6, <1>7 DEF Next

-----------------------------------------------------------------------------
\* The invariant.
Sound == TypeOK /\ Timed /\ Aimed /\ Token /\ \A u \in Users : Kept(u)

\* It holds always.
LEMMA AlwaysSound == Spec => []Sound
<1>1. Init => Sound
  BY InitTypes, InitToken, InitKept DEF Sound
<1>2. Sound /\ [Next]_vars => Sound'
  <2> SUFFICES ASSUME Sound, [Next]_vars PROVE Sound'
    OBVIOUS
  <2>1. TypeOK' /\ Timed' /\ Aimed'
    BY StepTypes DEF Sound
  <2>2. Token'
    BY StepToken DEF Sound
  <2>3. \A u \in Users : Kept(u)'
    BY StepKept DEF Sound
  <2> QED BY <2>1, <2>2, <2>3 DEF Sound
<1> QED BY <1>1, <1>2, PTL DEF Spec

\* Every variable has its type: in particular no record is ever written without
\* the time of a failure (storeData).
THEOREM TypeCorrect == Spec => []TypeOK
<1>1. Sound => TypeOK
  BY DEF Sound
<1> QED BY <1>1, AlwaysSound, PTL

\* The semaphore keeps servers apart and is up again when nobody is inside,
\* whatever servers start, are interrupted or die (libInit, SEM_GET, SEM_RELEASE).
THEOREM SemaphoreAlwaysKept == Spec => []SemaphoreKept
<1>1. Sound => SemaphoreKept
  BY TokenSuffices DEF Sound
<1> QED BY <1>1, AlwaysSound, PTL

\* The record of a user whose attempts do not overlap has his failures in a row
\* and the time of the last (update_lockout, recall_lockout, storeData).
THEOREM CountsAlwaysExact == Spec => []CountsExact
<1>1. Sound => CountsExact
  <2> SUFFICES ASSUME Sound, NEW u \in Users \ spoiled,
                      \A s \in Servers : at[s] \in Busy => job[s].user # u
               PROVE  IF PosOf(u) = NotFound
                      THEN fails[u] = 0
                      ELSE /\ file[PosOf(u)].num_failed = fails[u]
                           /\ file[PosOf(u)].last_failed = failed_at[u]
    BY DEF CountsExact
  <2>1. \A s \in Servers : ~Works(s, u)
    BY DEF Works
  <2>2. OnFile(u, fails[u], failed_at[u])
    BY <2>1 DEF Sound, Kept
  <2> QED BY <2>2 DEF OnFile
<1> QED BY <1>1, AlwaysSound, PTL

\* Who leaves check_lockout has been refused or heard.
LEMMA DecideMoves ==
  ASSUME TypeOK, [Next]_vars, NEW s \in Servers, at[s] = "decide",
         at'[s] \in {"idle", "recall", "update"}
  PROVE  Refuse(s) \/ Right(s) \/ Wrong(s)
<1>1. ~UNCHANGED vars /\ ~Tick
  BY DEF vars, Tick
<1>2. ASSUME NEW r \in Servers,
             \/ Start(r) \/ Enter(r) \/ Interrupted(r)
             \/ \E u \in Users : Attempt(r, u)
      PROVE  at'[s] = at[s]
  BY <1>2 DEF Start, CreateSem, SetSem, ReuseSem, Enter, Interrupted, Return,
              Attempt, Critical, TypeOK
<1>3. ASSUME NEW r \in Servers, Die(r)
      PROVE  at'[s] = at[s] \/ at'[s] = "down"
  BY <1>3 DEF Die, TypeOK
<1>4. ASSUME NEW r \in Servers, Store(r)
      PROVE  at'[s] = at[s]
  BY <1>4 DEF Store, Find, Rewrite, WriteFails, AppendHeader, AppendName,
              AppendNameFails, Return, TypeOK
<1>5. ASSUME NEW r \in Servers, Authenticate(r), r # s
      PROVE  at'[s] = at[s]
  BY <1>5 DEF Authenticate, CheckRead, Refuse, Right, Wrong, RecallRead,
              UpdateRead, Stamp, Return, TypeOK
<1>6. ASSUME NEW r \in Servers, CheckRead(r) \/ RecallRead(r) \/ UpdateRead(r) \/ Stamp(r)
      PROVE  r # s
  BY <1>6 DEF CheckRead, RecallRead, UpdateRead, Stamp
<1>7. PICK r \in Servers : Authenticate(r)
  BY <1>1, <1>2, <1>3, <1>4 DEF Next
<1> QED BY <1>5, <1>6, <1>7 DEF Authenticate

\* A user whose attempts do not overlap is turned away exactly while the lockout
\* that his failures in a row have earned him lasts (check_lockout, getLOTime).
THEOREM AlwaysTurnedAwayWhenDue == Spec => TurnedAwayWhenDue
<1>1. ASSUME Sound, [Next]_vars, NEW s \in Servers, at[s] = "decide",
             at'[s] \in {"idle", "recall", "update"}, job[s].user \notin spoiled
      PROVE  at'[s] = "idle" <=> Due(job[s].user)
  <2> DEFINE u == job[s].user
  <2>1. u \in Users
    BY <1>1 DEF Sound, TypeOK, Job
  <2>2. Works(s, u)
    BY <1>1 DEF Works, Busy, Places
  <2>3. job[s].num = fails[u] /\ job[s].last = failed_at[u]
    BY <1>1, <2>1, <2>2, Solo DEF Sound, InStep
  <2>4. LockedOut(s) <=> Due(u)
    BY <2>3 DEF LockedOut, Due
  <2>5. Refuse(s) \/ Right(s) \/ Wrong(s)
    BY <1>1, DecideMoves DEF Sound
  <2>6. at'[s] = "idle" <=> LockedOut(s)
    BY <1>1, <2>5 DEF Refuse, Right, Wrong, Return, Sound, TypeOK
  <2> QED BY <2>4, <2>6
<1>2. Sound /\ [Next]_vars =>
        \A s \in Servers :
          at[s] = "decide" /\ at'[s] \in {"idle", "recall", "update"}
            /\ job[s].user \notin spoiled
          => (at'[s] = "idle" <=> Due(job[s].user))
  BY <1>1
<1> QED BY <1>2, AlwaysSound, PTL DEF Spec, TurnedAwayWhenDue
=============================================================================
