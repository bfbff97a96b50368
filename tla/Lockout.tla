------------------------------- MODULE Lockout -------------------------------
(***************************************************************************)
(* The lockout of users who fail to authenticate: the library liblockout.c *)
(* with its file of records, which all servers of a host share, and the    *)
(* functions of libhttpd.c that use it on each request for a protected     *)
(* file.  One System V semaphore guards every read of a record and every   *)
(* write, but not the whole of a look-up followed by a write; a server may *)
(* die anywhere, and the semaphore is taken without SEM_UNDO.              *)
(*                                                                         *)
(* The file is a sequence of records, of which only the last may lack its  *)
(* name (torn).  findRecord reads record by record, each read in a         *)
(* critical section of its own; records never move, so the search is one   *)
(* critical section here, that of its last read.  Passwords are reduced to *)
(* being right or wrong for the user they come with; the password file can *)
(* be opened.  delData has no caller.                                      *)
(***************************************************************************)
EXTENDS Integers, Sequences, FiniteSets

CONSTANTS
  Servers,              \* the server processes that share the file
  Users,                \* user names that clients send
  TRESHOLD_TRIES,       \* failures that lock a user out (spelt as in the code)
  CONST_A, CONST_B,     \* seconds of a lockout, and more for each failure
  MaxTime,              \* bound: the clock stops there
  MaxAttempts           \* bound: requests with credentials

ASSUME LockoutAssumption ==
  /\ Users # {}
  /\ TRESHOLD_TRIES \in Nat \ {0} /\ CONST_A \in Nat /\ CONST_B \in Nat
  /\ MaxTime \in Nat /\ MaxAttempts \in Nat

VARIABLES
  sem,                  \* value of the semaphore, NoSem before it exists
  file,                 \* the records of the lockout file
  torn,                 \* the file ends in a header without a name
  now,                  \* time(0)
  at,                   \* where each server is
  inside,               \* servers between SEM_GET and SEM_RELEASE
  job,                  \* user, header and offset a server works with
  attempts,             \* requests so far
  \* history
  lost,                 \* a server died where nobody will raise the semaphore
  fails,                \* failures in a row of each user
  failed_at,            \* when the last of them was
  spoiled               \* users with attempts that overlapped or broke off

lockVars == <<sem, inside, lost>>
fileVars == <<file, torn>>
history == <<fails, failed_at, spoiled>>
vars == <<lockVars, fileVars, now, at, job, attempts, history>>

NoSem == -1
NotFound == 0
Never == -1

Record == [user : Users, num_failed : Nat, last_failed : 0 .. MaxTime]

\* What a server does inside the semaphore, and what it does outside.
Critical == {"check", "recall", "update", "find", "rewrite", "append", "named"}
Places == Critical \cup {"down", "created", "idle", "decide", "stamp"}
Busy == Places \ {"down", "created", "idle"}

JobOf(u, num, last) == [user |-> u, num |-> num, last |-> last, pos |-> NotFound]
JobFor(u) == JobOf(u, 0, Never)
NoJob == JobFor(CHOOSE u \in Users : TRUE)

Init ==
  /\ sem = NoSem /\ inside = {} /\ lost = FALSE
  /\ file = <<>> /\ torn = FALSE
  /\ now = 0
  /\ at = [s \in Servers |-> "down"]
  /\ job = [s \in Servers |-> NoJob] /\ attempts = 0
  /\ fails = [u \in Users |-> 0]
  /\ failed_at = [u \in Users |-> Never]
  /\ spoiled = {}

(***************************************************************************)
(* libInit.  The server that creates the semaphore gives it its value in a *)
(* second call; one that finds it does not touch it.                       *)
(***************************************************************************)
CreateSem(s) ==
  /\ at[s] = "down" /\ sem = NoSem
  /\ sem' = 0
  /\ at' = [at EXCEPT ![s] = "created"]
  /\ UNCHANGED <<fileVars, now, attempts, inside, job, lost, history>>

SetSem(s) ==
  /\ at[s] = "created"
  /\ sem' = 1
  /\ at' = [at EXCEPT ![s] = "idle"]
  /\ UNCHANGED <<fileVars, now, attempts, inside, job, lost, history>>

\* Mutant: every server that starts gives the semaphore its value.
ReuseSemResetting(s) ==
  /\ at[s] = "down" /\ sem # NoSem
  /\ sem' = 1
  /\ at' = [at EXCEPT ![s] = "idle"]
  /\ UNCHANGED <<fileVars, now, attempts, inside, job, lost, history>>

ReuseSem(s) ==
  /\ at[s] = "down" /\ sem # NoSem
  /\ at' = [at EXCEPT ![s] = "idle"]
  /\ UNCHANGED <<lockVars, fileVars, now, attempts, job, history>>

(***************************************************************************)
(* SEM_GET and SEM_RELEASE.                                                *)
(***************************************************************************)
\* Back in the main loop; the locals are gone.
Return(s) ==
  /\ at' = [at EXCEPT ![s] = "idle"]
  /\ job' = [job EXCEPT ![s] = NoJob]

Enter(s) ==
  /\ at[s] \in Critical /\ s \notin inside
  /\ sem > 0
  /\ sem' = sem - 1
  /\ inside' = inside \cup {s}
  /\ UNCHANGED <<fileVars, now, attempts, at, job, lost, history>>

Release(s) ==
  /\ s \in inside
  /\ sem' = sem + 1
  /\ inside' = inside \ {s}
  /\ UNCHANGED lost

(***************************************************************************)
(* findRecord: the first record with the name.                             *)
(***************************************************************************)
Found(u) == {i \in DOMAIN file : file[i].user = u}
FirstOf(u) == CHOOSE i \in Found(u) : \A k \in Found(u) : i <= k

\* Mutant: a search that looks at the first record only.
PosOfFirstOnly(u) == IF file # <<>> /\ file[1].user = u THEN 1 ELSE NotFound

PosOf(u) == IF Found(u) = {} THEN NotFound ELSE FirstOf(u)

\* getLOTime
LOTime(num) ==
  IF num >= TRESHOLD_TRIES THEN CONST_A + CONST_B * (num - TRESHOLD_TRIES) ELSE 0

(***************************************************************************)
(* auth_check2, up to the answer.                                          *)
(***************************************************************************)
\* A request with credentials for a protected file.
Attempt(s, u) ==
  /\ at[s] = "idle"
  /\ at' = [at EXCEPT ![s] = "check"]
  /\ attempts < MaxAttempts /\ attempts' = attempts + 1
  /\ job' = [job EXCEPT ![s] = JobFor(u)]
  /\ spoiled' = IF \E r \in Servers : at[r] \in Busy /\ job[r].user = u
                THEN spoiled \cup {u} ELSE spoiled
  /\ UNCHANGED <<lockVars, fileVars, now, fails, failed_at>>

\* check_lockout: readData.  last = Never stands for RET_FAIL, no record.
CheckRead(s) ==
  /\ at[s] = "check"
  /\ Release(s)
  /\ \E i \in {PosOf(job[s].user)} :
       job' = [job EXCEPT ![s] = IF i = NotFound THEN JobFor(@.user)
                                 ELSE JobOf(@.user, file[i].num_failed,
                                            file[i].last_failed)]
  /\ at' = [at EXCEPT ![s] = "decide"]
  /\ UNCHANGED <<fileVars, now, attempts, history>>

\* Mutant: the lockout ends a second early.
LockedOutShort(s) ==
  job[s].last # Never /\ now < job[s].last + LOTime(job[s].num)

\* check_lockout: is the lockout of this record still valid?
LockedOut(s) ==
  job[s].last # Never /\ now <= job[s].last + LOTime(job[s].num)

Refuse(s) ==
  /\ at[s] = "decide" /\ LockedOut(s)
  /\ Return(s)
  /\ UNCHANGED <<lockVars, fileVars, now, attempts, history>>

\* The password is right: recall_lockout follows.
Right(s) ==
  /\ at[s] = "decide" /\ ~LockedOut(s)
  /\ at' = [at EXCEPT ![s] = "recall"]
  /\ fails' = [fails EXCEPT ![job[s].user] = 0]
  /\ UNCHANGED <<lockVars, fileVars, now, attempts, job, failed_at, spoiled>>

\* It is wrong, or there is no such user: update_lockout follows.
Wrong(s) ==
  /\ at[s] = "decide" /\ ~LockedOut(s)
  /\ at' = [at EXCEPT ![s] = "update"]
  /\ fails' = [fails EXCEPT ![job[s].user] = @ + 1]
  /\ UNCHANGED <<lockVars, fileVars, now, attempts, job, failed_at, spoiled>>

(***************************************************************************)
(* recall_lockout and update_lockout, up to storeData.                     *)
(***************************************************************************)
RecallRead(s) ==
  /\ at[s] = "recall"
  /\ Release(s)
  /\ \E i \in {PosOf(job[s].user)} :
       IF i = NotFound
       THEN Return(s)
       ELSE /\ at' = [at EXCEPT ![s] = "find"]
            /\ job' = [job EXCEPT ![s] = JobOf(@.user, 0, file[i].last_failed)]
  /\ UNCHANGED <<fileVars, now, attempts, history>>

UpdateRead(s) ==
  /\ at[s] = "update"
  /\ Release(s)
  /\ \E i \in {PosOf(job[s].user)} :
       job' = [job EXCEPT ![s].num = IF i = NotFound THEN 1
                                     ELSE file[i].num_failed + 1]
  /\ at' = [at EXCEPT ![s] = "stamp"]
  /\ UNCHANGED <<fileVars, now, attempts, history>>

\* update_lockout: the time of the failure.
Stamp(s) ==
  /\ at[s] = "stamp"
  /\ job' = [job EXCEPT ![s].last = now]
  /\ failed_at' = [failed_at EXCEPT ![job[s].user] = now]
  /\ at' = [at EXCEPT ![s] = "find"]
  /\ UNCHANGED <<lockVars, fileVars, now, attempts, fails, spoiled>>

(***************************************************************************)
(* storeData: find the record, then rewrite its header or append one.      *)
(***************************************************************************)
Find(s) ==
  /\ at[s] = "find"
  /\ Release(s)
  /\ \E i \in {PosOf(job[s].user)} :
       /\ job' = [job EXCEPT ![s].pos = i]
       /\ at' = [at EXCEPT ![s] = IF i = NotFound THEN "append" ELSE "rewrite"]
  /\ UNCHANGED <<fileVars, now, attempts, history>>

RecordOf(s) == [user |-> job[s].user, num_failed |-> job[s].num,
                last_failed |-> job[s].last]

\* Mutant: the early return after a failed write forgets SEM_RELEASE.
WriteFailsHolding(s) ==
  /\ at[s] \in {"rewrite", "append"} /\ s \in inside
  /\ inside' = inside \ {s}
  /\ Return(s)
  /\ spoiled' = spoiled \cup {job[s].user}
  /\ UNCHANGED <<sem, lost, fileVars, now, attempts, fails, failed_at>>

\* A write that fails leaves the file alone; the callers ignore it.
WriteFails(s) ==
  /\ at[s] \in {"rewrite", "append"}
  /\ Release(s)
  /\ Return(s)
  /\ spoiled' = spoiled \cup {job[s].user}
  /\ UNCHANGED <<fileVars, now, attempts, fails, failed_at>>

Rewrite(s) ==
  /\ at[s] = "rewrite"
  /\ Release(s)
  /\ file' = [file EXCEPT ![job[s].pos] = [user |-> @.user, num_failed |-> job[s].num,
                                           last_failed |-> job[s].last]]
  /\ Return(s)
  /\ UNCHANGED <<torn, now, attempts, history>>

AppendHeader(s) ==
  /\ at[s] = "append" /\ s \in inside
  /\ torn' = TRUE
  /\ at' = [at EXCEPT ![s] = "named"]
  /\ UNCHANGED <<file, now, attempts, job, lockVars, history>>

AppendName(s) ==
  /\ at[s] = "named"
  /\ Release(s)
  /\ file' = Append(file, RecordOf(s))
  /\ torn' = FALSE
  /\ Return(s)
  /\ UNCHANGED <<now, attempts, history>>

\* The name cannot be written: ftruncate takes the header off again.
AppendNameFails(s) ==
  /\ at[s] = "named"
  /\ Release(s)
  /\ torn' = FALSE
  /\ Return(s)
  /\ spoiled' = spoiled \cup {job[s].user}
  /\ UNCHANGED <<file, now, attempts, fails, failed_at>>

(***************************************************************************)
(* A signal ends the wait of SEM_GET: semop is never restarted, and the    *)
(* macro returns.  A look-up that is cut short looks like no record.       *)
(***************************************************************************)
Interrupted(s) ==
  /\ at[s] \in Critical /\ s \notin inside
  /\ sem = 0
  /\ spoiled' = spoiled \cup {job[s].user}
  /\ \/ /\ at[s] = "check"
        /\ at' = [at EXCEPT ![s] = "decide"]
        /\ UNCHANGED job
     \/ /\ at[s] = "update"
        /\ at' = [at EXCEPT ![s] = "stamp"]
        /\ job' = [job EXCEPT ![s].num = 1]
     \/ /\ at[s] = "find"
        /\ at' = [at EXCEPT ![s] = "append"]
        /\ UNCHANGED job
     \/ /\ at[s] \in {"recall", "rewrite", "append"}
        /\ Return(s)
  /\ UNCHANGED <<lockVars, fileVars, now, attempts, fails, failed_at>>

(***************************************************************************)
(* A server ends: exit, SIGKILL, or SIGTERM and the watchdog, whose        *)
(* handlers do not return.  lockout_close does nothing for the semaphore.  *)
(***************************************************************************)
Die(s) ==
  /\ at[s] # "down"
  /\ lost' = (lost \/ s \in inside \/ at[s] = "created")
  /\ spoiled' = IF at[s] \in Busy THEN spoiled \cup {job[s].user} ELSE spoiled
  /\ inside' = inside \ {s}
  /\ at' = [at EXCEPT ![s] = "down"]
  /\ job' = [job EXCEPT ![s] = NoJob]
  /\ UNCHANGED <<sem, fileVars, now, attempts, fails, failed_at>>

Tick ==
  /\ now < MaxTime
  /\ now' = now + 1
  /\ UNCHANGED <<lockVars, fileVars, at, job, attempts, history>>

Start(s) == CreateSem(s) \/ SetSem(s) \/ ReuseSem(s)

Authenticate(s) ==
  \/ CheckRead(s) \/ Refuse(s) \/ Right(s) \/ Wrong(s)
  \/ RecallRead(s) \/ UpdateRead(s) \/ Stamp(s)

Store(s) ==
  \/ Find(s) \/ Rewrite(s) \/ WriteFails(s)
  \/ AppendHeader(s) \/ AppendName(s) \/ AppendNameFails(s)

Next ==
  \/ \E s \in Servers :
       \/ Start(s) \/ Enter(s) \/ Interrupted(s)
       \/ Authenticate(s) \/ Store(s) \/ Die(s)
       \/ \E u \in Users : Attempt(s, u)
  \/ Tick

Spec == Init /\ [][Next]_vars

\* A server goes on with its start and with a request, and whoever waits for the
\* semaphore gets it in turn: semop serves its waiters in order.
Fairness ==
  \A s \in Servers :
    /\ WF_vars(SetSem(s))
    /\ WF_vars(Authenticate(s) \/ Store(s))
    /\ SF_vars(Enter(s))

FairSpec == Spec /\ Fairness

(***************************************************************************)
(* Properties.                                                             *)
(***************************************************************************)
Job == [user : Users, num : Nat, last : Never .. MaxTime, pos : Nat]

\* Every variable has its type.
TypeOK ==
  /\ sem \in Nat \cup {NoSem}
  /\ file \in Seq(Record) /\ torn \in BOOLEAN
  /\ now \in 0 .. MaxTime /\ attempts \in 0 .. MaxAttempts
  /\ at \in [Servers -> Places]
  /\ inside \subseteq Servers
  /\ job \in [Servers -> Job]
  /\ lost \in BOOLEAN
  /\ fails \in [Users -> Nat]
  /\ failed_at \in [Users -> Never .. MaxTime]
  /\ spoiled \subseteq Users

\* At most one server is inside, and the semaphore is up again when nobody is,
\* however often servers start, unless one died holding it; a header without its
\* name is in the file only while its writer is inside, or for good when it died
\* there, and then nobody appends to it any more
\* (libInit, SEM_GET, SEM_RELEASE, storeData).
SemaphoreKept ==
  /\ \A r, s \in inside : r = s
  /\ sem > 0 => inside = {} /\ sem = 1 /\ ~torn
  /\ sem = 0 => \/ inside # {} \/ lost
                \/ \E s \in Servers : at[s] = "created"
  /\ torn => lost \/ \E s \in inside : at[s] = "named"

\* When the attempts of a user do not overlap, and none broke off, his record
\* has his failures in a row and the time of the last one, whatever attempts of
\* other users, on this server or another, did to the file meanwhile
\* (update_lockout, recall_lockout, storeData).
CountsExact ==
  \A u \in Users \ spoiled :
    (\A s \in Servers : at[s] \in Busy => job[s].user # u) =>
      IF PosOf(u) = NotFound
      THEN fails[u] = 0
      ELSE /\ file[PosOf(u)].num_failed = fails[u]
           /\ file[PosOf(u)].last_failed = failed_at[u]

\* A user whose attempts do not overlap is turned away unheard exactly while the
\* lockout his failures in a row have earned him lasts; with less than
\* TRESHOLD_TRIES failures that is the rest of the second of the last one
\* (check_lockout, getLOTime).
Due(u) == failed_at[u] # Never /\ now <= failed_at[u] + LOTime(fails[u])

TurnedAwayWhenDue ==
  [][\A s \in Servers :
       at[s] = "decide" /\ at'[s] \in {"idle", "recall", "update"}
         /\ job[s].user \notin spoiled
       => (at'[s] = "idle" <=> Due(job[s].user))]_vars

\* Every attempt ends, whatever the other servers do, unless one of them died
\* with the semaphore: then it may wait for ever (SEM_GET without SEM_UNDO).
AttemptsEnd ==
  \A s \in Servers : at[s] \in Busy ~> (at[s] \notin Busy \/ lost)
=============================================================================
