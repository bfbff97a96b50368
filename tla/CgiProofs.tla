------------------------------- MODULE CgiProofs -------------------------------
(***************************************************************************)
(* Proofs about Children and Cgi: whatever order signals, forks and timers *)
(* come in, cgi_count covers the children that are not yet reaped, so that *)
(* never more of them run than cgi_limit allows; what goes on behind a CGI *)
(* request changes none of that; and the data that passes through the two  *)
(* interposers stays whole and in order.                                   *)
(***************************************************************************)
EXTENDS Cgi, FiniteSetTheorems, TLAPS

USE ChildrenAssumption DEF ChildrenAssumption, Holders

\* The invariant: the types, the covering, and that what ++cgi_count is about
\* to store stays within the limit.
Covered ==
  /\ ChildrenTypeOK
  /\ CountCoversChildren
  /\ step = "counting" /\ cgi_limit # 0 => loaded < cgi_limit

-----------------------------------------------------------------------------
\* The sets of children are finite.
LEMMA AliveFinite ==
  /\ IsFiniteSet(Alive)
  /\ Cardinality(Alive) \in Nat
  /\ IsFiniteSet(Alive')
  /\ Cardinality(Alive') \in Nat
<1>1. Alive \subseteq Pids /\ Alive' \subseteq Pids
  BY DEF Alive
<1> QED
  BY <1>1, FS_Subset, FS_CardinalityType

\* The server starts with nothing to cover.
LEMMA InitCovered == ChildrenInit => Covered
<1> SUFFICES ASSUME ChildrenInit PROVE Covered
  OBVIOUS
<1>1. Alive = {}
  BY DEF ChildrenInit, Alive
<1>2. Cardinality(Alive) = 0
  BY <1>1, FS_EmptySet
<1>3. ChildrenTypeOK
  <2>1. cgi_count = 0 /\ loaded = 0 /\ step = "idle"
    BY DEF ChildrenInit
  <2>2. child \in [Pids -> {"none", "running", "zombie"}]
    BY DEF ChildrenInit
  <2>3. int_timers \in [Pids -> Nat] /\ kill_timers \in [Pids -> Nat]
    BY DEF ChildrenInit
  <2>4. chld_pending \in BOOLEAN
    BY Zenon DEF ChildrenInit
  <2> QED
    BY <2>1, <2>2, <2>3, <2>4 DEF ChildrenTypeOK
<1> QED
  BY <1>2, <1>3 DEF ChildrenInit, Covered, CountCoversChildren

\* A step that leaves count and progress alone and neither adds nor reaps a
\* child keeps the invariant.
LEMMA SameChildrenCovered ==
  ASSUME Covered, ChildrenTypeOK', Alive' = Alive,
         UNCHANGED <<cgi_count, step, loaded>>
  PROVE  Covered'
BY DEF Covered, CountCoversChildren

\* A kill makes a running child a zombie at most.
LEMMA KilledSameChildren ==
  ASSUME ChildrenTypeOK, NEW p \in Pids, NEW dies \in BOOLEAN, Killed(p, dies)
  PROVE  /\ Alive' = Alive
         /\ child' \in [Pids -> {"none", "running", "zombie"}]
         /\ chld_pending' \in BOOLEAN
BY DEF ChildrenTypeOK, Killed, Alive

\* fork() takes the place that was counted for it.
LEMMA ForkCovered ==
  ASSUME Covered, NEW p \in Pids, Fork(p)
  PROVE  Covered'
<1>1. p \notin Alive
  BY DEF Fork, Alive
<1>2. Alive' = Alive \cup {p}
  BY DEF Fork, Alive, Covered, ChildrenTypeOK
<1>3. Cardinality(Alive') = Cardinality(Alive) + 1
  BY <1>1, <1>2, AliveFinite, FS_AddElement
<1>4. ChildrenTypeOK'
  BY DEF Covered, ChildrenTypeOK, Fork
<1> QED
  BY <1>3, <1>4, AliveFinite DEF Covered, CountCoversChildren, ChildrenTypeOK, Fork

\* The handler gives back one place for each child it reaps, wherever it cuts
\* into cgi() or ls().
LEMMA HandleChldCovered ==
  ASSUME Covered, HandleChld
  PROVE  Covered'
<1> DEFINE reaped == Zombies
           k == Cardinality(reaped)
<1>1. reaped \subseteq Alive
  BY DEF Zombies, Alive
<1>2. Alive' = Alive \ reaped
  BY DEF HandleChld, Zombies, Alive, Covered, ChildrenTypeOK
<1>3. /\ IsFiniteSet(reaped)
      /\ k \in Nat
  BY <1>1, AliveFinite, FS_Subset, FS_CardinalityType
<1>4. Cardinality(Alive') = Cardinality(Alive) - k
  <2>1. Alive \cap reaped = reaped
    BY <1>1
  <2> QED
    BY <2>1, <1>2, AliveFinite, FS_Difference
<1>5. /\ cgi_count' = IF cgi_count < k THEN 0 ELSE cgi_count - k
      /\ UNCHANGED <<step, loaded>>
  BY DEF HandleChld, Lowered
<1> HIDE DEF reaped, k
<1>6. cgi_count' \in Nat /\ cgi_count' <= cgi_count
  BY <1>3, <1>5 DEF Covered, ChildrenTypeOK
<1>7. ChildrenTypeOK'
  <2>1. child' \in [Pids -> {"none", "running", "zombie"}]
    BY DEF HandleChld, Covered, ChildrenTypeOK
  <2>2. chld_pending' \in BOOLEAN
    BY DEF HandleChld
  <2>3. cgi_limit # 0 => cgi_count' <= cgi_limit
    BY <1>6 DEF Covered, ChildrenTypeOK
  <2> QED
    BY <1>6, <2>1, <2>2, <2>3 DEF HandleChld, Covered, ChildrenTypeOK, timerVars
<1>8. CountCoversChildren'
  BY <1>3, <1>4, <1>5, AliveFinite DEF Covered, ChildrenTypeOK, CountCoversChildren
<1> QED
  BY <1>5, <1>7, <1>8 DEF Covered

\* Every step keeps the invariant.
LEMMA StepCovered ==
  ASSUME Covered, [ChildrenNext]_childVars
  PROVE  Covered'
<1> USE DEF timerVars
<1>1. CASE Refuse \/ UNCHANGED childVars
  <2>1. UNCHANGED childVars
    BY <1>1 DEF Refuse
  <2> QED
    BY <2>1, SameChildrenCovered DEF childVars, Covered, ChildrenTypeOK, Alive
<1>2. CASE LoadCount
  BY <1>2, AliveFinite
     DEF LoadCount, Refuses, Covered, ChildrenTypeOK, CountCoversChildren, Alive
<1>3. CASE StoreCount
  <2>1. Alive' = Alive
    BY <1>3 DEF StoreCount, Alive
  <2> QED
    BY <1>3, <2>1, AliveFinite
       DEF StoreCount, Covered, ChildrenTypeOK, CountCoversChildren
<1>4. CASE ForkFails
  <2>1. Alive' = Alive
    BY <1>4 DEF ForkFails, Alive
  <2> QED
    BY <1>4, <2>1, AliveFinite
       DEF ForkFails, Covered, ChildrenTypeOK, CountCoversChildren
<1>5. CASE HandleChld
  BY <1>5, HandleChldCovered
<1>6. CASE \E p \in Pids : Fork(p)
  BY <1>6, ForkCovered
<1>7. CASE \E p \in Pids : ChildEnds(p)
  BY <1>7, SameChildrenCovered DEF ChildEnds, Covered, ChildrenTypeOK, Alive
<1>8. ASSUME NEW p \in Pids, NEW dies \in BOOLEAN, CgiKill(p, dies)
      PROVE  Covered'
  <2>1. Killed(p, dies) /\ UNCHANGED <<cgi_count, step, loaded>>
    BY <1>8 DEF CgiKill
  <2>2. /\ child' \in [Pids -> {"none", "running", "zombie"}]
        /\ chld_pending' \in BOOLEAN
        /\ Alive' = Alive
    BY <2>1, KilledSameChildren DEF Covered
  <2>3. /\ int_timers' \in [Pids -> Nat]
        /\ kill_timers' \in [Pids -> Nat]
    BY <1>8 DEF CgiKill, Covered, ChildrenTypeOK
  <2>4. ChildrenTypeOK'
    BY <2>1, <2>2, <2>3 DEF Covered, ChildrenTypeOK
  <2> QED
    BY <2>1, <2>2, <2>4, SameChildrenCovered
<1>9. ASSUME NEW p \in Pids, CgiKill2(p)
      PROVE  Covered'
  <2>1. Killed(p, TRUE) /\ UNCHANGED <<cgi_count, step, loaded>>
    BY <1>9 DEF CgiKill2
  <2>2. /\ child' \in [Pids -> {"none", "running", "zombie"}]
        /\ chld_pending' \in BOOLEAN
        /\ Alive' = Alive
    BY <2>1, KilledSameChildren DEF Covered
  <2>3. /\ int_timers' \in [Pids -> Nat]
        /\ kill_timers' \in [Pids -> Nat]
    BY <1>9 DEF CgiKill2, Covered, ChildrenTypeOK
  <2>4. ChildrenTypeOK'
    BY <2>1, <2>2, <2>3 DEF Covered, ChildrenTypeOK
  <2> QED
    BY <2>1, <2>2, <2>4, SameChildrenCovered
<1> QED
  BY <1>1, <1>2, <1>3, <1>4, <1>5, <1>6, <1>7, <1>8, <1>9 DEF ChildrenNext

\* The count covers the children in every reachable state.
THEOREM AlwaysCovered == ChildrenSpec => []Covered
BY InitCovered, StepCovered, PTL DEF ChildrenSpec

-----------------------------------------------------------------------------
\* The child that is setting up or running a program has a pid.
ChildHasPid == setup # "none" => cgi \in Pids

\* Every step of Cgi keeps that.
LEMMA StepHasPid ==
  ASSUME ChildHasPid, [Next]_vars
  PROVE  ChildHasPid'
<1> USE DEF ChildHasPid
<1>1. CASE UNCHANGED vars
  BY <1>1 DEF vars, plumbing
<1>2. CASE Counts \/ Reaps
  BY <1>2 DEF Counts, Reaps, plumbing
<1>3. CASE Forks
  BY <1>3 DEF Forks, ForkListing, ForkCgi, plumbing
<1>4. CASE \E p \in Pids : KillChild(p) \/ ListingEnds(p)
  BY <1>4 DEF KillChild, ListingEnds, ChildGone, plumbing
<1>5. CASE CgiChild
  BY <1>5 DEF CgiChild, SetUpStdin, SetUpStdout, Exec, ChildFails
<1>6. CASE Program
  BY <1>6 DEF Program, ProgramReads, ProgramWrites, ProgramExits, ChildGone,
              plumbing
<1>7. CASE Input
  BY <1>7 DEF Input, InputTakesLeftover, InputReads, InputWrites, InputBreaks,
              InputDone
<1>8. CASE Output
  BY <1>8 DEF Output, OutputCollects, OutputEndsEarly, OutputStatus,
              OutputEchoes, OutputDone, OutputBreaks
<1>9. CASE ClientSends
  BY <1>9 DEF ClientSends
<1> QED
  BY <1>1, <1>2, <1>3, <1>4, <1>5, <1>6, <1>7, <1>8, <1>9 DEF Next

\* What happens behind a CGI request is, for the main process and its children,
\* a step of Children or none.
LEMMA CgiStep ==
  ASSUME ChildHasPid, [Next]_vars
  PROVE  [ChildrenNext]_childVars
<1>1. CASE UNCHANGED vars
  BY <1>1 DEF vars
<1>2. CASE Counts \/ Reaps
  BY <1>2 DEF Counts, Reaps, ChildrenNext
<1>3. CASE Forks
  BY <1>3 DEF Forks, ForkListing, ForkCgi, ChildrenNext
<1>4. CASE \E p \in Pids : KillChild(p) \/ ListingEnds(p)
  BY <1>4 DEF KillChild, ListingEnds, ChildrenNext
<1>5. CASE CgiChild
  <2>1. CASE ChildFails
    BY <2>1 DEF ChildFails, ChildHasPid, ChildrenNext
  <2> QED
    BY <1>5, <2>1 DEF CgiChild, SetUpStdin, SetUpStdout, Exec
<1>6. CASE Program
  <2>1. CASE ProgramExits
    BY <2>1 DEF ProgramExits, ChildHasPid, ChildrenNext
  <2> QED
    BY <1>6, <2>1 DEF Program, ProgramReads, ProgramWrites
<1>7. CASE Input
  BY <1>7 DEF Input, InputTakesLeftover, InputReads, InputWrites, InputBreaks,
              InputDone
<1>8. CASE Output
  BY <1>8 DEF Output, OutputCollects, OutputEndsEarly, OutputStatus,
              OutputEchoes, OutputDone, OutputBreaks
<1>9. CASE ClientSends
  BY <1>9 DEF ClientSends
<1> QED
  BY <1>1, <1>2, <1>3, <1>4, <1>5, <1>6, <1>7, <1>8, <1>9 DEF Next

\* Cgi implements Children: nothing a program, its interposers or its client
\* do is more to the main process than a child that ends.
THEOREM CgiImplementsChildren == Spec => ChildrenSpec
<1>1. CgiInit => ChildrenInit /\ ChildHasPid
  BY DEF CgiInit, ChildHasPid
<1> QED
  BY <1>1, StepHasPid, CgiStep, PTL DEF Spec, ChildrenSpec

\* Never more programs and listings at once than cgi_limit allows.
THEOREM LimitKept == Spec => []NeverOverLimit
<1>1. Covered => NeverOverLimit
  BY AliveFinite DEF Covered, ChildrenTypeOK, CountCoversChildren, NeverOverLimit
<1> QED
  BY <1>1, AlwaysCovered, CgiImplementsChildren, PTL

-----------------------------------------------------------------------------
(***************************************************************************)
(* The data.  Sequences of units 1, 2, ... first.                          *)
(***************************************************************************)
LEMMA UpToFacts ==
  ASSUME NEW n \in Nat
  PROVE  /\ UpTo(n) \in Seq(Int) /\ Len(UpTo(n)) = n
         /\ \A i \in 1 .. n : UpTo(n)[i] = i
         /\ UpTo(n + 1) = Append(UpTo(n), n + 1)
         /\ UpTo(0) = <<>>
<1>1. UpTo(n) \in Seq(Int) /\ Len(UpTo(n)) = n /\ \A i \in 1 .. n : UpTo(n)[i] = i
  BY DEF UpTo
<1>2. UpTo(n + 1) \in Seq(Int) /\ Len(UpTo(n + 1)) = n + 1
      /\ \A i \in 1 .. n + 1 : UpTo(n + 1)[i] = i
  BY DEF UpTo
<1>3. UpTo(n + 1) = Append(UpTo(n), n + 1)
  BY <1>1, <1>2
<1>4. UpTo(0) = <<>>
  BY DEF UpTo
<1> QED BY <1>1, <1>3, <1>4

\* Counting one further.
LEMMA UpToNext ==
  ASSUME NEW n \in Nat
  PROVE  UpTo(n + 1) = Append(UpTo(n), n + 1) /\ Len(UpTo(n + 1)) = n + 1
<1> DEFINE m == n + 1
<1>1. m \in Nat
  OBVIOUS
<1> HIDE DEF m
<1>2. Len(UpTo(m)) = m
  BY <1>1, UpToFacts
<1> QED BY <1>2, UpToFacts DEF m

\* Two sequences of one length with the same elements are one.
LEMMA SameSequence ==
  ASSUME NEW S, NEW a \in Seq(S), NEW b \in Seq(S), NEW n \in Nat,
         Len(a) = n, Len(b) = n, \A i \in 1 .. n : a[i] = b[i]
  PROVE  a = b
OBVIOUS

\* A sequence that counts, and its first part, do so up to their lengths.
LEMMA Counting ==
  ASSUME NEW a \in Seq(Int), NEW b \in Seq(Int)
  PROVE  /\ Len(a \o b) = Len(a) + Len(b) /\ a \o b \in Seq(Int)
         /\ a \o b = UpTo(Len(a \o b)) => a = UpTo(Len(a))
<1> DEFINE k == Len(a)
           n == Len(a) + Len(b)
<1>1. /\ Len(a \o b) = n /\ a \o b \in Seq(Int)
      /\ k \in Nat /\ n \in Nat /\ k <= n
      /\ \A i \in 1 .. k : (a \o b)[i] = a[i]
  OBVIOUS
<1>2. Len(a) = k
  OBVIOUS
<1> HIDE DEF k, n
<1>3. ASSUME a \o b = UpTo(n) PROVE a = UpTo(k)
  <2>1. \A i \in 1 .. n : (a \o b)[i] = i
    BY <1>1, <1>3, UpToFacts
  <2>2. ASSUME NEW i \in 1 .. k PROVE a[i] = i
    <3>1. i \in 1 .. n
      BY <1>1
    <3> QED BY <3>1, <1>1, <2>1
  <2>3. /\ UpTo(k) \in Seq(Int) /\ Len(UpTo(k)) = k
        /\ \A i \in 1 .. k : UpTo(k)[i] = i
    BY <1>1, UpToFacts
  <2>4. \A i \in 1 .. k : a[i] = UpTo(k)[i]
    BY <2>2, <2>3
  <2> QED BY <1>1, <1>2, <2>3, <2>4, SameSequence
<1> QED BY <1>1, <1>3 DEF k, n

\* A unit that moves from the head of one sequence to the end of another.
LEMMA HeadMoves ==
  ASSUME NEW S, NEW a \in Seq(S), NEW b \in Seq(S), b # <<>>
  PROVE  /\ Head(b) \in S /\ Tail(b) \in Seq(S) /\ Len(Tail(b)) = Len(b) - 1
         /\ Append(a, Head(b)) \o Tail(b) = a \o b
<1> DEFINE c == Append(a, Head(b))
           t == Tail(b)
           n == Len(a) + Len(b)
<1>1. /\ Head(b) \in S /\ t \in Seq(S) /\ Len(t) = Len(b) - 1
      /\ Len(b) \in Nat \ {0} /\ Len(a) \in Nat /\ n \in Nat
      /\ Head(b) = b[1] /\ \A i \in 1 .. Len(b) - 1 : t[i] = b[i + 1]
  OBVIOUS
<1>2. c \in Seq(S) /\ Len(c) = Len(a) + 1 /\ c[Len(a) + 1] = b[1]
      /\ \A i \in 1 .. Len(a) : c[i] = a[i]
  OBVIOUS
<1> HIDE DEF c, t
<1>3. Len(c \o t) = n /\ c \o t \in Seq(S) /\ a \o b \in Seq(S) /\ Len(a \o b) = n
  <2>1. c \o t \in Seq(S) /\ Len(c \o t) = Len(c) + Len(t)
    <3>1. c \in Seq(S) /\ t \in Seq(S)
      BY <1>1, <1>2
    <3> QED BY <3>1
  <2>2. a \o b \in Seq(S) /\ Len(a \o b) = Len(a) + Len(b)
    OBVIOUS
  <2> QED BY <2>1, <2>2, <1>1, <1>2
<1>4. ASSUME NEW i \in 1 .. n
      PROVE  (c \o t)[i] = (a \o b)[i]
  <2>0. i <= Len(a) \/ i = Len(a) + 1 \/ i > Len(a) + 1
    BY <1>1
  <2>1. CASE i <= Len(a)
    BY <1>1, <1>2, <2>1
  <2>2. CASE i = Len(a) + 1
    BY <1>1, <1>2, <2>2
  <2>3. CASE i > Len(a) + 1
    <3>1. (c \o t)[i] = t[i - (Len(a) + 1)]
      BY <1>1, <1>2, <2>3
    <3>2. (a \o b)[i] = b[i - Len(a)]
      BY <1>1, <2>3
    <3>3. t[i - (Len(a) + 1)] = b[(i - (Len(a) + 1)) + 1]
      BY <1>1, <2>3
    <3> QED BY <1>1, <3>1, <3>2, <3>3
  <2> QED BY <2>0, <2>1, <2>2, <2>3
<1> HIDE DEF n
<1>5. c \o t = a \o b
  BY <1>1, <1>3, <1>4, SameSequence
<1> QED BY <1>1, <1>5 DEF c, t

\* A unit appended to the last of two sequences is appended to the whole.
LEMMA AppendMoves ==
  ASSUME NEW S, NEW a \in Seq(S), NEW b \in Seq(S), NEW x \in S
  PROVE  a \o Append(b, x) = Append(a \o b, x)
OBVIOUS

\* Sequences may be joined in any order of grouping.
LEMMA Regrouped ==
  ASSUME NEW S, NEW a \in Seq(S), NEW b \in Seq(S), NEW c \in Seq(S)
  PROVE  (a \o b) \o c = a \o (b \o c)
OBVIOUS

\* A sequence over a set is one over any larger set.
LEMMA Wider ==
  ASSUME NEW S, NEW T, S \subseteq T, NEW a \in Seq(S)
  PROVE  a \in Seq(T)
OBVIOUS

\* What comes first of two joined sequences is a prefix of the whole.
LEMMA FirstIsPrefix ==
  ASSUME NEW S, NEW a \in Seq(S), NEW b \in Seq(S)
  PROVE  IsPrefixOf(a, a \o b) /\ IsPrefixOf(a, a) /\ IsPrefixOf(<<>>, a)
<1> DEFINE n == Len(a)
<1>1. n \in Nat /\ Len(b) \in Nat /\ Len(a \o b) = n + Len(b)
      /\ a \o b \in Seq(S) /\ \A i \in 1 .. n : (a \o b)[i] = a[i]
  OBVIOUS
<1>2. Len(a) = n
  OBVIOUS
<1>3. SubSeq(a, 1, n) = a
  OBVIOUS
<1>4. SubSeq(a \o b, 1, n) = a
  OBVIOUS
<1>5. SubSeq(a, 1, 0) = <<>> /\ Len(<<>>) = 0
  OBVIOUS
<1> QED BY <1>1, <1>3, <1>4, <1>5 DEF IsPrefixOf

-----------------------------------------------------------------------------
(***************************************************************************)
(* The invariant.                                                          *)
(***************************************************************************)
Whole == (got \o in_pipe) \o carried
FailedOn(w) == w # <<>> /\ w[1] = ErrorPage
RestOf(w) == IF FailedOn(w) THEN Tail(w) ELSE w

\* A process that has an end of a pipe open is one that is there, and the
\* program has its standard output.
HoldersKnown ==
  /\ holders.in_w # {} => input # "none"
  /\ "child" \in holders.in_r \cup holders.out_w =>
       setup \notin {"none", "stdin"}
  /\ "output" \in holders.in_r \cup holders.out_r => output # "none"
  /\ request.mime /\ setup \in {"exec", "program"} =>
       holders.out_w = {"child"}

\* Until execve() nothing has been written to the connection.
SetupKnown ==
  /\ setup = "stdin" =>
       input = "none" /\ taken = 0 /\ got = <<>> /\ in_pipe = <<>>
  /\ setup \in {"stdin", "stdout"} => output = "none"
  /\ setup = "exec" => output \in {"none", "headers"}
  /\ setup \in {"stdin", "stdout", "exec"} =>
       produced = 0 /\ wire = <<>> /\ out_pipe = <<>> /\ headers = <<>>

\* The interposer has taken exactly what is read, in the pipe or in its hands.
InputKnown ==
  /\ Whole = UpTo(Len(Whole))
  /\ input # "none" => Interposed /\ Len(Whole) = taken
  /\ input = "none" => carried = <<>>
  /\ ~Interposed => in_pipe = <<>> /\ Len(got) = taken
  /\ Len(carried) <= 1
  /\ request.leftover <= sent
  /\ Interposed /\ request.length # -1 =>
       Len(Whole) <= request.length \/ Len(Whole) <= request.leftover

\* What the program wrote is on the wire, in the headers or in the pipe, and
\* the status line is before it once the headers are complete.
OutputKnown ==
  /\ FailedOn(wire) => produced = 0 /\ setup = "none"
  /\ ~request.mime =>
       /\ output = "none" /\ RestOf(wire) = UpTo(produced)
       /\ out_pipe = <<>> /\ headers = <<>>
  /\ output \in {"headers", "status"} =>
       RestOf(wire) = <<>> /\ headers \o out_pipe = UpTo(produced)
  /\ output = "echo" =>
       /\ headers = <<>>
       /\ RestOf(wire) \o out_pipe = <<StatusLine>> \o UpTo(produced)
  /\ request.mime /\ output = "none" =>
       IsPrefixOf(RestOf(wire), <<StatusLine>> \o UpTo(produced))
  /\ output = "status" =>
       Eof \/ (headers # <<>> /\ headers[Len(headers)] = request.blank)

CgiInv == TypeOK /\ HoldersKnown /\ SetupKnown /\ InputKnown /\ OutputKnown

\* The child lets go, killed or by itself, and leaves the data alone.
ChildLeaves ==
  /\ setup' = "none"
  /\ cgi' = NoPid
  /\ holders' = Without("child")
  /\ UNCHANGED <<request, input, output, dataVars>>

\* The steps of Cgi, as far as its own variables go.
LEMMA StepCases ==
  ASSUME [Next]_vars
  PROVE  \/ UNCHANGED plumbing
         \/ \E p \in Pids, r \in Requests : ForkCgi(p, r)
         \/ ChildLeaves
         \/ CgiChild
         \/ ProgramReads
         \/ ProgramWrites
         \/ Input
         \/ Output
         \/ ClientSends
<1>1. CASE UNCHANGED vars
  BY <1>1 DEF vars
<1>2. CASE Counts \/ Reaps
  BY <1>2 DEF Counts, Reaps
<1>3. CASE Forks
  BY <1>3 DEF Forks, ForkListing
<1>4. CASE \E p \in Pids : KillChild(p) \/ ListingEnds(p)
  BY <1>4 DEF KillChild, ListingEnds, ChildGone, ChildLeaves
<1>5. CASE ProgramExits
  BY <1>5 DEF ProgramExits, ChildGone, ChildLeaves
<1> QED
  BY <1>1, <1>2, <1>3, <1>4, <1>5 DEF Next, Program

\* The server starts in the invariant.
LEMMA InitKnown == CgiInit => CgiInv
<1> SUFFICES ASSUME CgiInit PROVE CgiInv
  OBVIOUS
<1> USE DEF CgiInit, NoRequest, NoHolders
<1>1. TypeOK
  <2>1. ChildrenTypeOK
    BY InitCovered DEF Covered
  <2>2. request \in Request
    BY CgiAssumption DEF CgiAssumption, Request
  <2> QED
    BY <2>1, <2>2, CgiAssumption
       DEF CgiAssumption, TypeOK, OwnTypes, Body, Text
<1>2. HoldersKnown
  BY DEF HoldersKnown
<1>3. SetupKnown
  BY DEF SetupKnown
<1>4. Whole = <<>> /\ UpTo(0) = <<>>
  BY UpToFacts DEF Whole
<1>5. InputKnown
  BY <1>4 DEF InputKnown, Interposed
<1>6. OutputKnown
  BY <1>4 DEF OutputKnown, FailedOn, RestOf
<1> QED
  BY <1>1, <1>2, <1>3, <1>5, <1>6 DEF CgiInv

\* Whoever lets go, the ends that are left stay what they are.
LEMMA WithoutTyped ==
  ASSUME holders \in Holders, NEW who
  PROVE  Without(who) \in Holders
BY DEF Holders, Without

\* Every step keeps the types.
LEMMA TypesKept ==
  ASSUME CgiInv, ChildHasPid, [Next]_vars
  PROVE  OwnTypes'
<1> USE CgiAssumption DEF CgiAssumption
<1>0. OwnTypes /\ holders \in Holders
  BY DEF CgiInv, TypeOK, OwnTypes, Holders
<1>1. CASE UNCHANGED plumbing
  BY <1>0, <1>1 DEF plumbing, dataVars, OwnTypes
<1>2. ASSUME NEW p \in Pids, NEW r \in Requests, ForkCgi(p, r) PROVE OwnTypes'
  <2>1. r \in Request /\ r.leftover \in 0 .. MaxBody
    BY DEF Request
  <2> QED BY <2>1, <1>0, <1>2 DEF ForkCgi, OwnTypes, Text
<1>3. CASE ChildLeaves
  BY <1>0, <1>3, WithoutTyped DEF ChildLeaves, dataVars, OwnTypes, Holders
<1>4. CASE CgiChild
  <2>1. CASE SetUpStdin
    <3>1. ASSUME Interposed PROVE holders' \in Holders
      <4>1. holders' = [holders EXCEPT !.in_w = {"input"}, !.in_r = {"child"}]
        BY <2>1, <3>1 DEF SetUpStdin
      <4> QED BY <4>1, <1>0 DEF Holders
    <3>2. ASSUME ~Interposed PROVE holders' \in Holders
      BY <2>1, <3>2, <1>0 DEF SetUpStdin
    <3> QED
      BY <1>0, <2>1, <3>1, <3>2 DEF SetUpStdin, dataVars, OwnTypes, Holders
  <2>2. CASE SetUpStdout
    <3>1. ASSUME request.mime PROVE holders' \in Holders
      <4> DEFINE ends == IF Interposed THEN holders.in_r \cup {"output"}
                         ELSE holders.in_r
      <4>1. holders' = [holders EXCEPT !.out_w = {"child"}, !.out_r = {"output"},
                                       !.in_r = ends]
        BY <2>2, <3>1, <1>0 DEF SetUpStdout, Holders
      <4>2. ends \in SUBSET {"child", "output"}
        BY <1>0 DEF Holders
      <4> HIDE DEF ends
      <4> QED BY <4>1, <4>2, <1>0 DEF Holders
    <3>2. ASSUME ~request.mime PROVE holders' \in Holders
      BY <2>2, <3>2, <1>0 DEF SetUpStdout
    <3> QED
      BY <1>0, <2>2, <3>1, <3>2 DEF SetUpStdout, dataVars, OwnTypes, Holders
  <2>3. CASE Exec
    BY <1>0, <2>3 DEF Exec, dataVars, OwnTypes
  <2>4. CASE ChildFails
    <3>1. wire' \in Seq(ErrorPage .. MaxOutput)
      BY <1>0, <2>4 DEF ChildFails, OwnTypes, ErrorPage
    <3> QED
      BY <1>0, <2>4, <3>1, WithoutTyped DEF ChildFails, OwnTypes, Holders
  <2> QED BY <1>4, <2>1, <2>2, <2>3, <2>4 DEF CgiChild
<1>5. CASE ProgramReads
  <2>1. CASE Interposed
    <3>1. /\ in_pipe \in Seq(Body) /\ in_pipe # <<>> /\ got \in Seq(Body)
          /\ Len(in_pipe) <= PipeSize
          /\ got' = Append(got, Head(in_pipe)) /\ in_pipe' = Tail(in_pipe)
      BY <1>0, <1>5, <2>1 DEF ProgramReads, OwnTypes
    <3>2. /\ got' \in Seq(Body) /\ in_pipe' \in Seq(Body)
          /\ Len(in_pipe') <= PipeSize
      BY <3>1
    <3> QED BY <1>0, <1>5, <2>1, <3>2 DEF ProgramReads, OwnTypes
  <2>2. CASE ~Interposed
    <3>1. taken + 1 \in Body /\ taken' \in 0 .. sent /\ got' = Append(got, taken + 1)
      BY <1>0, <1>5, <2>2 DEF ProgramReads, OwnTypes, Body
    <3>2. got' \in Seq(Body)
      BY <1>0, <3>1 DEF OwnTypes
    <3> QED BY <1>0, <1>5, <2>2, <3>1, <3>2 DEF ProgramReads, OwnTypes
  <2> QED BY <2>1, <2>2
<1>6. CASE ProgramWrites
  <2>1. produced + 1 \in 1 .. MaxOutput /\ produced' = produced + 1
        /\ produced + 1 \in ErrorPage .. MaxOutput
    BY <1>0, <1>6 DEF ProgramWrites, OwnTypes, ErrorPage
  <2>2. /\ out_pipe \in Text /\ Len(out_pipe) <= PipeSize
        /\ wire \in Seq(ErrorPage .. MaxOutput)
    BY <1>0 DEF OwnTypes
  <2>3. /\ Append(out_pipe, produced + 1) \in Text
        /\ Len(Append(out_pipe, produced + 1)) = Len(out_pipe) + 1
        /\ Len(out_pipe) \in Nat
        /\ Append(wire, produced + 1) \in Seq(ErrorPage .. MaxOutput)
    BY <2>1, <2>2 DEF Text
  <2>4. Len(out_pipe) < PipeSize => Len(out_pipe) + 1 <= PipeSize
    BY <2>3
  <2>5. /\ out_pipe' \in Text /\ Len(out_pipe') <= PipeSize
        /\ wire' \in Seq(ErrorPage .. MaxOutput)
    <3>1. \/ /\ Len(out_pipe) < PipeSize /\ wire' = wire
             /\ out_pipe' = Append(out_pipe, produced + 1)
          \/ wire' = Append(wire, produced + 1) /\ out_pipe' = out_pipe
      BY <1>6 DEF ProgramWrites
    <3> QED BY <3>1, <2>2, <2>3, <2>4
  <2>6. produced' \in 0 .. MaxOutput
    BY <2>1, <1>0 DEF OwnTypes
  <2> QED
    BY <1>0, <1>6, <2>5, <2>6 DEF ProgramWrites, OwnTypes
<1>7. CASE Input
  <2>1. CASE InputTakesLeftover
    <3>0. request.leftover <= sent /\ request.leftover \in Nat
      BY <1>0 DEF CgiInv, InputKnown, OwnTypes, Request
    <3>1. CASE taken < request.leftover
      <4>1. taken + 1 \in Body /\ taken' \in 0 .. sent /\ carried' = <<taken + 1>>
        BY <1>0, <2>1, <3>0, <3>1 DEF InputTakesLeftover, OwnTypes, Body
      <4>2. carried' \in Seq(Body)
        BY <4>1
      <4> QED BY <1>0, <2>1, <3>1, <4>1, <4>2 DEF InputTakesLeftover, OwnTypes
    <3>2. CASE ~(taken < request.leftover)
      BY <1>0, <2>1, <3>2 DEF InputTakesLeftover, OwnTypes
    <3> QED BY <3>1, <3>2
  <2>2. CASE InputReads
    <3>1. taken + 1 \in Body /\ taken' \in 0 .. sent /\ carried' = <<taken + 1>>
      BY <1>0, <2>2 DEF InputReads, OwnTypes, Body
    <3>2. carried' \in Seq(Body)
      BY <3>1
    <3> QED BY <1>0, <2>2, <3>1, <3>2 DEF InputReads, OwnTypes
  <2>3. CASE InputWrites
    <3>1. Len(carried) <= 1 /\ in_pipe' = in_pipe \o carried /\ carried' = <<>>
      BY <2>3 DEF CgiInv, InputKnown, InputWrites
    <3>2. in_pipe' \in Seq(Body) /\ Len(in_pipe') <= PipeSize
      BY <1>0, <2>3, <3>1 DEF InputWrites, OwnTypes
    <3> QED BY <1>0, <2>3, <3>1, <3>2 DEF InputWrites, OwnTypes
  <2>4. CASE InputBreaks
    BY <1>0, <2>4, WithoutTyped DEF InputBreaks, InputEnds, OwnTypes, Holders
  <2>5. CASE InputDone
    <3>1. taken' \in 0 .. sent
      BY <1>0, <2>5 DEF InputDone, OwnTypes
    <3> QED
      BY <1>0, <2>5, <3>1, WithoutTyped DEF InputDone, InputEnds, OwnTypes, Holders
  <2> QED BY <1>7, <2>1, <2>2, <2>3, <2>4, <2>5 DEF Input
<1>8. CASE Output
  <2>1. CASE OutputCollects
    BY <1>0, <2>1 DEF OutputCollects, OwnTypes, Text
  <2>2. CASE OutputEndsEarly
    BY <1>0, <2>2, WithoutTyped DEF OutputEndsEarly, dataVars, OwnTypes, Holders
  <2>3. CASE OutputStatus
    <3>1. headers \in Seq(ErrorPage .. MaxOutput) /\ StatusLine \in ErrorPage .. MaxOutput
      BY <1>0, Wider DEF OwnTypes, Text, ErrorPage, StatusLine
    <3>2. wire' \in Seq(ErrorPage .. MaxOutput)
      BY <1>0, <2>3, <3>1 DEF OutputStatus, OwnTypes
    <3> QED BY <1>0, <2>3, <3>2 DEF OutputStatus, OwnTypes, Text
  <2>4. CASE OutputEchoes
    <3>1. Head(out_pipe) \in ErrorPage .. MaxOutput /\ out_pipe' \in Text
          /\ Len(out_pipe') <= PipeSize
      BY <1>0, <2>4 DEF OutputEchoes, OwnTypes, Text, ErrorPage
    <3>2. wire' \in Seq(ErrorPage .. MaxOutput)
      BY <1>0, <2>4, <3>1 DEF OutputEchoes, OwnTypes
    <3> QED BY <1>0, <2>4, <3>1, <3>2 DEF OutputEchoes, OwnTypes
  <2>5. CASE OutputDone
    BY <1>0, <2>5, WithoutTyped DEF OutputDone, dataVars, OwnTypes, Holders
  <2>6. CASE OutputBreaks
    <3>1. out_pipe' \in Text /\ Len(out_pipe') <= PipeSize
      BY <1>0, <2>6 DEF OutputBreaks, OwnTypes, Text
    <3> QED
      BY <1>0, <2>6, <3>1, WithoutTyped DEF OutputBreaks, OwnTypes, Holders
  <2> QED BY <1>8, <2>1, <2>2, <2>3, <2>4, <2>5, <2>6 DEF Output
<1>9. CASE ClientSends
  BY <1>0, <1>9 DEF ClientSends, OwnTypes, Request
<1> QED
  BY <1>1, <1>2, <1>3, <1>4, <1>5, <1>6, <1>7, <1>8, <1>9, StepCases

\* Every step keeps who has which end open.
LEMMA HoldersKept ==
  ASSUME CgiInv, OwnTypes', [Next]_vars
  PROVE  HoldersKnown'
<1>0. HoldersKnown /\ OwnTypes /\ SetupKnown
  BY DEF CgiInv, TypeOK, OwnTypes
<1>1. CASE UNCHANGED plumbing
  BY <1>0, <1>1 DEF plumbing, HoldersKnown
<1>2. ASSUME NEW p \in Pids, NEW r \in Requests, ForkCgi(p, r)
      PROVE  HoldersKnown'
  BY <1>0, <1>2 DEF ForkCgi, Nobody, HoldersKnown, OwnTypes
<1>3. CASE ChildLeaves
  BY <1>0, <1>3 DEF ChildLeaves, Without, HoldersKnown, OwnTypes
<1>4. CASE CgiChild
  <2>1. CASE SetUpStdin
    <3>1. /\ setup' = "stdout" /\ UNCHANGED <<request, output>>
          /\ setup = "stdin" /\ holders.out_w = {}
      BY <1>0, <2>1 DEF SetUpStdin, HoldersKnown, OwnTypes
    <3>2. CASE Interposed
      <4>1. /\ input' = "leftover"
            /\ holders' = [holders EXCEPT !.in_w = {"input"},
                                          !.in_r = {"child"}]
        BY <2>1, <3>2 DEF SetUpStdin
      <4>2. /\ holders'.in_r = {"child"}
            /\ holders'.out_w = holders.out_w /\ holders'.out_r = holders.out_r
        BY <1>0, <4>1 DEF OwnTypes
      <4> QED BY <1>0, <3>1, <4>1, <4>2 DEF HoldersKnown
    <3>3. CASE ~Interposed
      BY <1>0, <2>1, <3>1, <3>3 DEF SetUpStdin, HoldersKnown
    <3> QED BY <3>2, <3>3
  <2>2. CASE SetUpStdout
    BY <1>0, <2>2 DEF SetUpStdout, HoldersKnown, SetupKnown, OwnTypes
  <2>3. CASE Exec
    BY <1>0, <2>3 DEF Exec, HoldersKnown
  <2>4. CASE ChildFails
    BY <1>0, <2>4 DEF ChildFails, Without, HoldersKnown, OwnTypes
  <2> QED BY <1>4, <2>1, <2>2, <2>3, <2>4 DEF CgiChild
<1>5. CASE ProgramReads \/ ProgramWrites \/ ClientSends
  BY <1>0, <1>5 DEF ProgramReads, ProgramWrites, ClientSends, HoldersKnown
<1>6. CASE Input
  <2>1. CASE InputTakesLeftover \/ InputReads \/ InputWrites
    BY <1>0, <2>1 DEF InputTakesLeftover, InputReads, InputWrites, HoldersKnown
  <2>2. CASE InputBreaks \/ InputDone
    BY <1>0, <2>2 DEF InputBreaks, InputDone, InputEnds, Without, HoldersKnown,
                      OwnTypes
  <2> QED BY <1>6, <2>1, <2>2 DEF Input
<1>7. CASE Output
  <2>1. CASE OutputCollects \/ OutputStatus \/ OutputEchoes
    BY <1>0, <2>1 DEF OutputCollects, OutputStatus, OutputEchoes, HoldersKnown
  <2>2. CASE OutputEndsEarly \/ OutputDone \/ OutputBreaks
    BY <1>0, <2>2 DEF OutputEndsEarly, OutputDone, OutputBreaks, Without,
                      HoldersKnown, OwnTypes
  <2> QED BY <1>7, <2>1, <2>2 DEF Output
<1> QED
  BY <1>1, <1>2, <1>3, <1>4, <1>5, <1>6, <1>7, StepCases

\* Nothing is written to the connection before execve().
LEMMA SetupKept ==
  ASSUME CgiInv, [Next]_vars
  PROVE  SetupKnown'
<1>0. HoldersKnown /\ OwnTypes /\ SetupKnown /\ InputKnown /\ OutputKnown
  BY DEF CgiInv, TypeOK, OwnTypes
<1>1. CASE UNCHANGED plumbing
  BY <1>0, <1>1 DEF plumbing, dataVars, SetupKnown
<1>2. ASSUME NEW p \in Pids, NEW r \in Requests, ForkCgi(p, r)
      PROVE  SetupKnown'
  BY <1>2 DEF ForkCgi, Nobody, SetupKnown
<1>3. CASE ChildLeaves
  BY <1>3 DEF ChildLeaves, SetupKnown
<1>4. CASE CgiChild
  BY <1>0, <1>4 DEF CgiChild, SetUpStdin, SetUpStdout, Exec, ChildFails,
                    dataVars, SetupKnown
<1>5. CASE ProgramReads \/ ProgramWrites \/ ClientSends
  BY <1>0, <1>5 DEF ProgramReads, ProgramWrites, ClientSends, SetupKnown
<1>6. CASE Input
  <2>1. input # "none"
    BY <1>0, <1>6 DEF Input, InputTakesLeftover, InputReads, InputWrites,
                      InputBreaks, InputDone, InputKnown
  <2> QED
    BY <1>0, <1>6, <2>1 DEF Input, InputTakesLeftover, InputReads, InputWrites,
                      InputBreaks, InputDone, SetupKnown
<1>7. CASE Output
  <2>1. output # "none"
    BY <1>7 DEF Output, OutputCollects, OutputEndsEarly, OutputStatus,
                OutputEchoes, OutputDone, OutputBreaks
  <2>2. CASE setup \in {"none", "program"}
    <3>1. setup' = setup
      BY <1>7 DEF Output, OutputCollects, OutputEndsEarly, OutputStatus,
                  OutputEchoes, OutputDone, OutputBreaks
    <3> QED BY <2>2, <3>1 DEF SetupKnown
  <2>3. CASE setup = "exec"
    <3>1. output = "headers" /\ out_pipe = <<>> /\ request.mime
      BY <1>0, <2>1, <2>3 DEF SetupKnown, OutputKnown
    <3>2. ~Eof
      BY <1>0, <2>3, <3>1 DEF HoldersKnown, Eof
    <3> QED
      BY <1>7, <3>1, <3>2
         DEF Output, OutputCollects, OutputEndsEarly, OutputStatus,
             OutputEchoes, OutputDone, OutputBreaks
  <2> QED BY <1>0, <2>1, <2>2, <2>3 DEF OwnTypes, SetupKnown
<1> QED
  BY <1>1, <1>2, <1>3, <1>4, <1>5, <1>6, <1>7, StepCases

\* What is on the way in, and its types.
LEMMA WholeFacts ==
  ASSUME OwnTypes
  PROVE  /\ got \in Seq(Int) /\ in_pipe \in Seq(Int) /\ carried \in Seq(Int)
         /\ got \o in_pipe \in Seq(Int)
         /\ Whole \in Seq(Int) /\ Len(Whole) \in Nat
         /\ taken \in Nat /\ sent \in Nat /\ request.leftover \in Nat
         /\ request.length \in Int
<1>1. got \in Seq(Body) /\ in_pipe \in Seq(Body) /\ carried \in Seq(Body)
      /\ Body \subseteq Int
  BY DEF OwnTypes, Body
<1>2. got \in Seq(Int) /\ in_pipe \in Seq(Int) /\ carried \in Seq(Int)
  BY <1>1, Wider
<1>3. got \o in_pipe \in Seq(Int)
  BY <1>2
<1>4. Whole \in Seq(Int) /\ Len(Whole) \in Nat
  BY <1>2, <1>3 DEF Whole
<1>5. taken \in Nat /\ sent \in Nat /\ request.leftover \in Nat
      /\ request.length \in Int
  BY CgiAssumption DEF CgiAssumption, OwnTypes, Request
<1> QED BY <1>2, <1>3, <1>4, <1>5

\* Steps that have nothing to do with the input.
LEMMA InputElsewhere ==
  ASSUME InputKnown, OwnTypes, sent' \in Nat, sent' >= sent,
         UNCHANGED <<request, input, in_pipe, carried, got, taken>>
  PROVE  InputKnown'
<1>1. Whole' = Whole /\ Interposed' = Interposed
  BY DEF Whole, Interposed
<1>2. request.leftover <= sent'
  BY WholeFacts DEF InputKnown
<1> QED BY <1>1, <1>2 DEF InputKnown

\* The interposer takes the next unit of the body.
LEMMA UnitTaken ==
  ASSUME InputKnown, OwnTypes, carried = <<>>, input # "none",
         carried' = <<taken + 1>>, taken' = taken + 1,
         UNCHANGED <<request, input, in_pipe, got, sent>>,
         Short(taken) \/ taken < request.leftover
  PROVE  InputKnown'
<1>1. Interposed /\ Len(Whole) = taken /\ Whole = UpTo(taken)
  BY DEF InputKnown
<1>2. Whole = got \o in_pipe
  BY WholeFacts DEF Whole
<1>3. Whole' = Append(Whole, taken + 1)
  <2>1. Whole' = (got \o in_pipe) \o <<taken + 1>>
    BY DEF Whole
  <2>2. got \o in_pipe \in Seq(Int) /\ taken + 1 \in Int
    BY WholeFacts
  <2>3. (got \o in_pipe) \o <<taken + 1>> = Append(got \o in_pipe, taken + 1)
    BY <2>2
  <2> QED BY <2>1, <2>3, <1>2
<1>4. Whole' = UpTo(taken + 1) /\ Len(UpTo(taken + 1)) = taken + 1
  BY <1>1, <1>3, WholeFacts, UpToNext
<1>5. Len(Whole') = taken + 1 /\ Whole' = UpTo(Len(Whole'))
  BY <1>4
<1>6. request.length # -1 =>
        taken + 1 <= request.length \/ taken + 1 <= request.leftover
  BY WholeFacts DEF Short
<1>7. Interposed' /\ Len(carried') = 1
  BY <1>1 DEF Interposed
<1> QED BY <1>5, <1>6, <1>7 DEF InputKnown

\* Units move on or are lost at the end; what is left still counts.
LEMMA UnitsMove ==
  ASSUME InputKnown, OwnTypes,
         Whole' = Whole \/ (Whole' = got \o in_pipe /\ input' = "none"),
         UNCHANGED <<request, sent>>,
         input' = input \/ input' = "none",
         input' # "none" => taken' = taken,
         input' = "none" => carried' = <<>>,
         Interposed,
         Len(carried') <= 1
  PROVE  InputKnown'
<1>1. /\ Whole' = UpTo(Len(Whole')) /\ Len(Whole') \in Nat
      /\ Len(Whole') <= Len(Whole)
  <2>1. CASE Whole' = Whole
    BY <2>1, WholeFacts DEF InputKnown
  <2>2. CASE Whole' = got \o in_pipe
    <3>1. Whole = (got \o in_pipe) \o carried
      BY DEF Whole
    <3> DEFINE first == got \o in_pipe
    <3>2. first \in Seq(Int) /\ carried \in Seq(Int) /\ first \o carried = Whole
      BY <3>1, WholeFacts
    <3>3. Whole' = first
      BY <2>2
    <3> HIDE DEF first
    <3>4. Len(Whole) = Len(first) + Len(carried) /\ first = UpTo(Len(first))
      BY <3>2, Counting DEF InputKnown
    <3> QED BY <3>2, <3>3, <3>4
  <2> QED BY <2>1, <2>2
<1>2. Interposed'
  BY DEF Interposed
<1>3. input' # "none" => Len(Whole') = taken'
  BY DEF InputKnown
<1> QED BY <1>1, <1>2, <1>3, WholeFacts DEF InputKnown

\* Every step keeps the input whole and in order.
LEMMA InputKept ==
  ASSUME CgiInv, OwnTypes', [Next]_vars
  PROVE  InputKnown'
<1>0. OwnTypes /\ SetupKnown /\ InputKnown
  BY DEF CgiInv, TypeOK, OwnTypes
<1>1. CASE UNCHANGED plumbing
  BY <1>0, <1>1, InputElsewhere, WholeFacts DEF plumbing, dataVars
<1>2. ASSUME NEW p \in Pids, NEW r \in Requests, ForkCgi(p, r)
      PROVE  InputKnown'
  <2>1. /\ Whole' = <<>> /\ UpTo(0) = <<>> /\ input' = "none" /\ taken' = 0
        /\ in_pipe' = <<>> /\ carried' = <<>> /\ got' = <<>>
        /\ sent' = request'.leftover /\ request' \in Request
    BY <1>2, UpToFacts, CgiAssumption
       DEF CgiAssumption, ForkCgi, Nobody, Whole
  <2>2. request'.leftover \in Nat /\ request'.length \in Int
        /\ (request'.length # -1 => 0 <= request'.length)
    BY <2>1, CgiAssumption DEF CgiAssumption, Request
  <2>3. Len(<<>>) = 0
    OBVIOUS
  <2>4. Len(Whole') = 0 /\ Len(got') = 0 /\ Len(carried') = 0
    BY <2>1, <2>3
  <2> QED BY <2>1, <2>2, <2>4 DEF InputKnown
<1>3. CASE ChildLeaves
  BY <1>0, <1>3, InputElsewhere, WholeFacts DEF ChildLeaves, dataVars
<1>4. CASE CgiChild
  <2>1. CASE SetUpStdin
    <3>1. /\ got = <<>> /\ in_pipe = <<>> /\ carried = <<>> /\ taken = 0
          /\ UNCHANGED <<request, in_pipe, carried, got, taken, sent>>
          /\ input' = "none" \/ Interposed
      BY <1>0, <2>1 DEF SetUpStdin, SetupKnown, InputKnown, dataVars
    <3>2. Whole = <<>> /\ Whole' = <<>> /\ Len(<<>>) = 0 /\ Interposed' = Interposed
      BY <3>1 DEF Whole, Interposed
    <3> QED BY <1>0, <3>1, <3>2 DEF InputKnown
  <2>2. CASE SetUpStdout \/ Exec \/ ChildFails
    BY <1>0, <2>2, InputElsewhere, WholeFacts
       DEF SetUpStdout, Exec, ChildFails, dataVars
  <2> QED BY <1>4, <2>1, <2>2 DEF CgiChild
<1>5. CASE ProgramReads
  <2>1. CASE Interposed
    <3>1. /\ in_pipe # <<>> /\ got' = Append(got, Head(in_pipe))
          /\ in_pipe' = Tail(in_pipe)
          /\ UNCHANGED <<request, sent, input, carried, taken>>
      BY <1>5, <2>1 DEF ProgramReads
    <3>2. got' \o in_pipe' = got \o in_pipe
      BY <1>0, <3>1, WholeFacts, HeadMoves
    <3>3. Whole' = Whole
      BY <3>1, <3>2 DEF Whole
    <3> QED BY <1>0, <2>1, <3>1, <3>3, UnitsMove DEF InputKnown
  <2>2. CASE ~Interposed
    <3>1. /\ input = "none" /\ carried = <<>> /\ in_pipe = <<>>
          /\ Len(got) = taken /\ got' = Append(got, taken + 1)
          /\ taken' = taken + 1
          /\ UNCHANGED <<request, sent, input, in_pipe, carried>>
      BY <1>0, <1>5, <2>2 DEF ProgramReads, InputKnown
    <3>2. Whole = got /\ got \in Seq(Int) /\ taken \in Nat
      BY <1>0, <3>1, WholeFacts DEF Whole
    <3>3. Whole' = got'
      <4>1. got' \in Seq(Int)
        BY <3>1, <3>2
      <4> QED BY <3>1, <4>1 DEF Whole
    <3>4. got = UpTo(taken)
      BY <1>0, <3>1, <3>2 DEF InputKnown
    <3>5. Whole' = UpTo(taken + 1) /\ Len(UpTo(taken + 1)) = taken + 1
      BY <3>1, <3>2, <3>3, <3>4, UpToNext
    <3>6. ~Interposed'
      BY <2>2, <3>1 DEF Interposed
    <3> QED BY <1>0, <3>1, <3>3, <3>5, <3>6 DEF InputKnown
  <2> QED BY <2>1, <2>2
<1>6. CASE ProgramWrites \/ Output
  BY <1>0, <1>6, InputElsewhere, WholeFacts
     DEF ProgramWrites, Output, OutputCollects, OutputEndsEarly, OutputStatus,
         OutputEchoes, OutputDone, OutputBreaks, dataVars
<1>7. CASE Input
  <2>0. input # "none" /\ Interposed
    BY <1>0, <1>7 DEF Input, InputTakesLeftover, InputReads, InputWrites,
                      InputBreaks, InputDone, InputKnown
  <2>1. CASE InputTakesLeftover
    <3>1. CASE taken < request.leftover
      <4>1. UNCHANGED <<request, input, in_pipe, got, sent>>
            /\ carried = <<>> /\ carried' = <<taken + 1>> /\ taken' = taken + 1
        BY <2>1, <3>1 DEF InputTakesLeftover
      <4> QED BY <1>0, <2>0, <3>1, <4>1, UnitTaken
    <3>2. CASE ~(taken < request.leftover)
      BY <1>0, <2>0, <2>1, <3>2 DEF InputTakesLeftover, InputKnown, Whole, Interposed
    <3> QED BY <3>1, <3>2
  <2>2. CASE InputReads
    BY <1>0, <2>0, <2>2, UnitTaken DEF InputReads
  <2>3. CASE InputWrites
    <3>1. /\ in_pipe' = in_pipe \o carried /\ carried' = <<>>
          /\ UNCHANGED <<request, sent, input, got, taken>>
      BY <2>3 DEF InputWrites
    <3>2. Whole = got \o in_pipe'
      <4>1. got \in Seq(Int) /\ in_pipe \in Seq(Int) /\ carried \in Seq(Int)
        BY <1>0, WholeFacts
      <4>2. (got \o in_pipe) \o carried = got \o (in_pipe \o carried)
        BY <4>1
      <4> QED BY <3>1, <4>2 DEF Whole
    <3>3. Whole' = got \o in_pipe'
      <4>1. got \o in_pipe' \in Seq(Int)
        BY <1>0, <3>2, WholeFacts
      <4> QED BY <3>1, <4>1 DEF Whole
    <3> QED BY <1>0, <2>0, <3>1, <3>2, <3>3, UnitsMove
  <2>4. CASE InputBreaks
    <3>1. /\ carried' = <<>> /\ input' = "none"
          /\ UNCHANGED <<request, sent, in_pipe, got, taken>>
      BY <2>4 DEF InputBreaks, InputEnds
    <3>2. Whole' = got \o in_pipe
      <4>1. got \o in_pipe \in Seq(Int)
        BY <1>0, WholeFacts
      <4> QED BY <3>1, <4>1 DEF Whole
    <3> QED BY <1>0, <2>0, <3>1, <3>2, UnitsMove
  <2>5. CASE InputDone
    <3>1. /\ carried' = <<>> /\ input' = "none" /\ carried = <<>>
          /\ UNCHANGED <<request, sent, in_pipe, got>>
      BY <2>5 DEF InputDone, InputEnds
    <3>2. Whole' = Whole
      BY <3>1 DEF Whole
    <3> QED BY <1>0, <2>0, <3>1, <3>2, UnitsMove
  <2> QED BY <1>7, <2>1, <2>2, <2>3, <2>4, <2>5 DEF Input
<1>8. CASE ClientSends
  <2>1. sent' = sent + 1 /\ UNCHANGED <<request, input, in_pipe, carried, got, taken>>
    BY <1>8 DEF ClientSends
  <2> QED BY <1>0, <2>1, InputElsewhere, WholeFacts
<1> QED
  BY <1>1, <1>2, <1>3, <1>4, <1>5, <1>6, <1>7, <1>8, StepCases

\* Something follows a sequence that is not empty: its tail grows with it.
LEMMA TailJoins ==
  ASSUME NEW S, NEW w \in Seq(S), NEW s \in Seq(S), w # <<>>
  PROVE  /\ Tail(w \o s) = Tail(w) \o s /\ Tail(w) \in Seq(S)
         /\ (w \o s)[1] = w[1] /\ w \o s # <<>> /\ w \o s \in Seq(S)
<1> DEFINE t == Tail(w)
           n == (Len(w) - 1) + Len(s)
           j == w \o s
<1>1. /\ t \in Seq(S) /\ Len(t) = Len(w) - 1 /\ Len(w) \in Nat \ {0}
      /\ Len(s) \in Nat /\ n \in Nat
      /\ \A i \in 1 .. Len(w) - 1 : t[i] = w[i + 1]
  OBVIOUS
<1>2. /\ j \in Seq(S) /\ Len(j) = n + 1 /\ j[1] = w[1] /\ j # <<>>
      /\ \A i \in 1 .. Len(w) : j[i] = w[i]
      /\ \A i \in 1 .. Len(s) : j[Len(w) + i] = s[i]
  OBVIOUS
<1>3. Tail(j) \in Seq(S) /\ Len(Tail(j)) = n /\ \A i \in 1 .. n : Tail(j)[i] = j[i + 1]
  <2> HIDE DEF j, n
  <2> QED BY <1>1, <1>2
<1> HIDE DEF t
<1>4. t \o s \in Seq(S) /\ Len(t \o s) = n
  <2>1. t \in Seq(S)
    BY <1>1
  <2>2. t \o s \in Seq(S) /\ Len(t \o s) = Len(t) + Len(s)
    BY <2>1
  <2> QED BY <2>2, <1>1
<1>5. ASSUME NEW i \in 1 .. n PROVE Tail(j)[i] = (t \o s)[i]
  <2>0. i <= Len(w) - 1 \/ i > Len(w) - 1
    BY <1>1
  <2>t. t \in Seq(S) /\ Len(t) = Len(w) - 1
    BY <1>1
  <2>1. CASE i <= Len(w) - 1
    <3>1. (t \o s)[i] = t[i]
      BY <2>t, <2>1, <1>1
    <3>2. i + 1 \in 1 .. Len(w) /\ i \in 1 .. Len(w) - 1
      BY <2>1, <1>1
    <3> QED BY <3>1, <3>2, <1>1, <1>2, <1>3
  <2>2. CASE i > Len(w) - 1
    <3> DEFINE k == i - (Len(w) - 1)
    <3>1. (t \o s)[i] = s[k]
      BY <2>t, <2>2, <1>1
    <3>2. k \in 1 .. Len(s) /\ i + 1 = Len(w) + k
      BY <2>2, <1>1
    <3> HIDE DEF k
    <3> QED BY <3>1, <3>2, <1>2, <1>3
  <2> QED BY <2>0, <2>1, <2>2
<1> HIDE DEF n
<1>6. Tail(j) = t \o s
  BY <1>1, <1>3, <1>4, <1>5, SameSequence
<1> QED BY <1>1, <1>2, <1>6 DEF t, j

\* What follows on the wire leaves it as it was whether a page of the child
\* itself came first.
LEMMA RestJoins ==
  ASSUME NEW w \in Seq(Int), NEW s \in Seq(Int), w # <<>>
  PROVE  /\ FailedOn(w \o s) <=> FailedOn(w)
         /\ RestOf(w \o s) = RestOf(w) \o s
         /\ w \o s \in Seq(Int)
<1>1. /\ w \o s \in Seq(Int) /\ w \o s # <<>> /\ (w \o s)[1] = w[1]
      /\ Tail(w \o s) = Tail(w) \o s
  BY TailJoins
<1>2. FailedOn(w \o s) <=> FailedOn(w)
  BY <1>1, Zenon DEF FailedOn
<1>3. RestOf(w \o s) = RestOf(w) \o s
  BY <1>1, <1>2, Zenon DEF RestOf
<1> QED BY <1>1, <1>2, <1>3

\* So does a single unit, also as the first.
LEMMA RestAppends ==
  ASSUME NEW w \in Seq(Int), NEW x \in Int, x # ErrorPage
  PROVE  /\ FailedOn(Append(w, x)) <=> FailedOn(w)
         /\ RestOf(Append(w, x)) = Append(RestOf(w), x)
         /\ RestOf(w) \in Seq(Int)
         /\ Append(w, x) \in Seq(Int) /\ Append(w, x) # <<>>
<1>1. Append(w, x) \in Seq(Int) /\ Append(w, x) # <<>>
  OBVIOUS
<1>2. CASE w = <<>>
  <2>1. Append(w, x) = <<x>> /\ Append(w, x)[1] = x
    BY <1>2
  <2> QED BY <1>1, <1>2, <2>1 DEF FailedOn, RestOf
<1>3. CASE w # <<>>
  <2> DEFINE s == <<x>>
  <2>1. s \in Seq(Int) /\ Append(w, x) = w \o s
    OBVIOUS
  <2>2. /\ Tail(w) \in Seq(Int)
        /\ Append(Tail(w), x) = Tail(w) \o s
    BY <1>3
  <2> HIDE DEF s
  <2>3. /\ FailedOn(w \o s) <=> FailedOn(w)
        /\ RestOf(w \o s) = RestOf(w) \o s
    BY <1>3, <2>1, RestJoins
  <2>4. RestOf(w) \o s = Append(RestOf(w), x) /\ RestOf(w) \in Seq(Int)
    BY <2>1, <2>2 DEF RestOf
  <2> QED BY <1>1, <2>1, <2>3, <2>4
<1> QED BY <1>2, <1>3

\* What is on the way out, and its types; what the client is to see.
Shown == <<StatusLine>> \o UpTo(produced)

LEMMA OutFacts ==
  ASSUME OwnTypes
  PROVE  /\ wire \in Seq(Int) /\ headers \in Seq(Int) /\ out_pipe \in Seq(Int)
         /\ RestOf(wire) \in Seq(Int)
         /\ produced \in Nat /\ UpTo(produced) \in Seq(Int)
         /\ Shown \in Seq(Int)
         /\ StatusLine \in Int /\ StatusLine # ErrorPage
         /\ \A x \in 1 .. MaxOutput : x \in Int /\ x # ErrorPage
<1> USE CgiAssumption DEF CgiAssumption
<1>1. wire \in Seq(ErrorPage .. MaxOutput) /\ headers \in Seq(1 .. MaxOutput)
      /\ out_pipe \in Seq(1 .. MaxOutput)
  BY DEF OwnTypes, Text
<1>2. 1 .. MaxOutput \subseteq Int /\ ErrorPage .. MaxOutput \subseteq Int
  BY DEF ErrorPage
<1>3. wire \in Seq(Int) /\ headers \in Seq(Int) /\ out_pipe \in Seq(Int)
  BY <1>1, <1>2, Wider
<1>4. RestOf(wire) \in Seq(Int)
  BY <1>3 DEF RestOf, FailedOn
<1>5. produced \in Nat
  BY DEF OwnTypes
<1>6. UpTo(produced) \in Seq(Int)
  BY <1>5, UpToFacts
<1>7. Shown \in Seq(Int)
  BY <1>6 DEF Shown, StatusLine
<1>8. StatusLine \in Int /\ StatusLine # ErrorPage
      /\ \A x \in 1 .. MaxOutput : x \in Int /\ x # ErrorPage
  BY DEF StatusLine, ErrorPage
<1> QED BY <1>3, <1>4, <1>5, <1>6, <1>7, <1>8

\* Steps that have nothing to do with the output.
LEMMA OutputElsewhere ==
  ASSUME OutputKnown, OwnTypes, holders'.out_w \subseteq holders.out_w,
         setup = "none" => setup' = "none",
         UNCHANGED <<request, output, out_pipe, produced, headers, wire>>
  PROVE  OutputKnown'
<1>1. RestOf(wire)' = RestOf(wire) /\ FailedOn(wire)' = FailedOn(wire)
      /\ UpTo(produced)' = UpTo(produced)
  OBVIOUS
<1>2. Eof => Eof'
  BY DEF Eof
<1> QED BY <1>1, <1>2 DEF OutputKnown

\* When the interposer is gone the client has seen the first part of it.
LEMMA OutputOver ==
  ASSUME OutputKnown, OwnTypes, output' = "none", request.mime,
         UNCHANGED <<request, setup, produced, wire>>,
         RestOf(wire) = <<>> \/ RestOf(wire) \o out_pipe = Shown
  PROVE  OutputKnown'
<1>1. IsPrefixOf(RestOf(wire), Shown)
  <2>1. CASE RestOf(wire) = <<>>
    BY <2>1, OutFacts, FirstIsPrefix
  <2>2. CASE RestOf(wire) \o out_pipe = Shown
    <3>1. IsPrefixOf(RestOf(wire), RestOf(wire) \o out_pipe)
      BY OutFacts, FirstIsPrefix
    <3> QED BY <2>2, <3>1
  <2> QED BY <2>1, <2>2
<1> QED BY <1>1 DEF OutputKnown, Shown

\* A request starts, or its child gives up, with nothing on the wire yet.
LEMMA OutputNothing ==
  ASSUME OwnTypes',
         wire' = <<>> \/ (wire' = <<ErrorPage>> /\ setup' = "none"),
         produced' = 0, out_pipe' = <<>>, headers' = <<>>,
         output' \in {"none", "headers"},
         output' = "headers" => request'.mime
  PROVE  OutputKnown'
<1>1. UpTo(0) = <<>> /\ <<StatusLine>> \o <<>> = <<StatusLine>>
      /\ <<>> \o <<>> = <<>>
  BY UpToFacts DEF StatusLine
<1>2. RestOf(wire)' = <<>>
  <2>1. CASE wire' = <<>>
    BY <2>1 DEF RestOf, FailedOn
  <2>2. CASE wire' = <<ErrorPage>>
    BY <2>2 DEF RestOf, FailedOn, ErrorPage
  <2> QED BY <2>1, <2>2
<1>3. IsPrefixOf(<<>>, <<StatusLine>>)
  <2>1. <<StatusLine>> \in Seq(Int)
    BY DEF StatusLine
  <2> QED BY <2>1, FirstIsPrefix
<1>4. FailedOn(wire)' => setup' = "none"
  BY DEF FailedOn
<1> QED BY <1>1, <1>2, <1>3, <1>4 DEF OutputKnown

\* What the program writes goes on the wire, or into the pipe behind what the
\* interposer has not yet read.
LEMMA OutputWritten ==
  ASSUME OutputKnown, OwnTypes, HoldersKnown, ProgramWrites
  PROVE  OutputKnown'
<1>1. /\ setup = "program" /\ produced' = produced + 1
      /\ UNCHANGED <<request, setup, output, holders, headers>>
  BY DEF ProgramWrites
<1>2. ~FailedOn(wire) /\ produced \in Nat
  BY <1>1, OutFacts DEF OutputKnown
<1>3. UpTo(produced + 1) = Append(UpTo(produced), produced + 1)
      /\ produced + 1 \in Int /\ produced + 1 # ErrorPage
  <2>1. produced + 1 \in Int /\ produced + 1 # ErrorPage
    BY <1>2 DEF ErrorPage
  <2> QED BY <1>2, <2>1, UpToNext
<1>4. CASE request.mime
  <2>1. /\ out_pipe' = Append(out_pipe, produced + 1) /\ wire' = wire
        /\ output # "none"
    BY <1>4 DEF ProgramWrites, HoldersKnown, OwnTypes
  <2>2. RestOf(wire)' = RestOf(wire) /\ ~FailedOn(wire)'
    BY <1>2, <2>1
  <2>3. ASSUME output \in {"headers", "status"}
        PROVE  headers' \o out_pipe' = UpTo(produced')
    <3>1. headers \o Append(out_pipe, produced + 1)
            = Append(headers \o out_pipe, produced + 1)
      <4>1. headers \in Seq(Int) /\ out_pipe \in Seq(Int)
        BY OutFacts
      <4> QED BY <1>3, <4>1, AppendMoves
    <3> QED BY <1>1, <1>3, <2>1, <2>3, <3>1 DEF OutputKnown
  <2>4. ASSUME output = "echo"
        PROVE  RestOf(wire) \o out_pipe' = <<StatusLine>> \o UpTo(produced')
    <3>1. RestOf(wire) \o Append(out_pipe, produced + 1)
            = Append(RestOf(wire) \o out_pipe, produced + 1)
      <4>1. RestOf(wire) \in Seq(Int) /\ out_pipe \in Seq(Int)
        BY OutFacts
      <4> QED BY <1>3, <4>1, AppendMoves
    <3>2. <<StatusLine>> \o Append(UpTo(produced), produced + 1)
            = Append(<<StatusLine>> \o UpTo(produced), produced + 1)
      <4>1. <<StatusLine>> \in Seq(Int) /\ UpTo(produced) \in Seq(Int)
        BY OutFacts
      <4> QED BY <1>3, <4>1, AppendMoves
    <3> QED BY <1>1, <1>3, <2>1, <2>4, <3>1, <3>2 DEF OutputKnown
  <2>5. output = "status" => headers # <<>> /\ headers[Len(headers)] = request.blank
    <3>1. ~Eof
      BY <1>1, <1>4 DEF HoldersKnown, Eof
    <3> QED BY <3>1 DEF OutputKnown
  <2>6. output = "echo" => headers = <<>>
    BY DEF OutputKnown
  <2>7. output \in {"headers", "status"} => RestOf(wire) = <<>>
    BY DEF OutputKnown
  <2> QED BY <1>1, <1>4, <2>1, <2>2, <2>3, <2>4, <2>5, <2>6, <2>7 DEF OutputKnown
<1>5. CASE ~request.mime
  <2>1. /\ wire' = Append(wire, produced + 1) /\ out_pipe' = out_pipe
        /\ RestOf(wire) = UpTo(produced) /\ output = "none"
        /\ out_pipe = <<>> /\ headers = <<>>
    BY <1>5 DEF ProgramWrites, OutputKnown
  <2>2. /\ RestOf(Append(wire, produced + 1)) = Append(RestOf(wire), produced + 1)
        /\ ~FailedOn(Append(wire, produced + 1))
    <3> DEFINE x == produced + 1
    <3>1. x \in Int /\ x # ErrorPage /\ wire \in Seq(Int)
      BY <1>3, OutFacts
    <3> HIDE DEF x
    <3>2. /\ RestOf(Append(wire, x)) = Append(RestOf(wire), x)
          /\ ~FailedOn(Append(wire, x))
      BY <1>2, <3>1, RestAppends
    <3> QED BY <3>2 DEF x
  <2>3. RestOf(wire)' = UpTo(produced') /\ ~FailedOn(wire)'
    BY <1>1, <1>3, <2>1, <2>2
  <2> QED BY <1>1, <1>5, <2>1, <2>3 DEF OutputKnown
<1> QED BY <1>4, <1>5

\* The interposer sends the status and the headers, or the next unit.
LEMMA OutputSent ==
  ASSUME OutputKnown, OwnTypes, OutputStatus \/ OutputEchoes
  PROVE  OutputKnown'
<1>1. CASE OutputStatus
  <2>1. /\ output = "status" /\ output' = "echo" /\ headers' = <<>>
        /\ wire' = Append(wire, StatusLine) \o headers
        /\ UNCHANGED <<request, setup, out_pipe, produced>>
        /\ RestOf(wire) = <<>> /\ headers \o out_pipe = UpTo(produced)
    BY <1>1 DEF OutputStatus, OutputKnown
  <2> DEFINE begun == Append(wire, StatusLine)
  <2>2. /\ FailedOn(begun) <=> FailedOn(wire)
        /\ RestOf(begun) = Append(RestOf(wire), StatusLine)
        /\ begun \in Seq(Int) /\ begun # <<>>
    BY OutFacts, RestAppends
  <2>3. wire' = begun \o headers
    BY <2>1
  <2>4. headers \in Seq(Int) /\ out_pipe \in Seq(Int) /\ <<StatusLine>> \in Seq(Int)
    BY OutFacts
  <2>5. RestOf(begun) = <<StatusLine>>
    BY <2>1, <2>2
  <2> HIDE DEF begun
  <2>6. /\ FailedOn(wire)' <=> FailedOn(wire)
        /\ RestOf(wire)' = <<StatusLine>> \o headers
    BY <2>2, <2>3, <2>4, <2>5, RestJoins
  <2>7. (<<StatusLine>> \o headers) \o out_pipe
          = <<StatusLine>> \o (headers \o out_pipe)
    BY <2>4, Regrouped
  <2>8. RestOf(wire)' \o out_pipe' = <<StatusLine>> \o UpTo(produced')
    BY <2>1, <2>6, <2>7
  <2>9. request.mime
    BY <2>1 DEF OutputKnown
  <2> QED BY <2>1, <2>6, <2>8, <2>9 DEF OutputKnown
<1>2. CASE OutputEchoes
  <2>1. /\ output = "echo" /\ out_pipe # <<>>
        /\ wire' = Append(wire, Head(out_pipe)) /\ out_pipe' = Tail(out_pipe)
        /\ UNCHANGED <<request, setup, output, produced, headers>>
        /\ RestOf(wire) \o out_pipe = <<StatusLine>> \o UpTo(produced)
    BY <1>2 DEF OutputEchoes, OutputKnown
  <2>2. Append(RestOf(wire), Head(out_pipe)) \o Tail(out_pipe)
          = RestOf(wire) \o out_pipe
    BY <2>1, OutFacts, HeadMoves
  <2> DEFINE x == Head(out_pipe)
  <2>3. x \in Int /\ x # ErrorPage /\ wire \in Seq(Int)
    <3>1. x \in 1 .. MaxOutput
      <4>1. out_pipe \in Seq(1 .. MaxOutput)
        BY DEF OwnTypes, Text
      <4>2. out_pipe # <<>>
        BY <2>1
      <4> QED BY <4>1, <4>2, HeadMoves
    <3> QED BY <3>1, OutFacts
  <2>4. wire' = Append(wire, x) /\ RestOf(wire) \o out_pipe
          = Append(RestOf(wire), x) \o Tail(out_pipe)
    BY <2>1, <2>2
  <2> HIDE DEF x
  <2>5. /\ FailedOn(wire)' <=> FailedOn(wire)
        /\ RestOf(wire)' = Append(RestOf(wire), x)
    BY <2>3, <2>4, RestAppends
  <2>6. request.mime /\ headers = <<>>
    BY <2>1 DEF OutputKnown
  <2> QED BY <2>1, <2>4, <2>5, <2>6 DEF OutputKnown
<1> QED BY <1>1, <1>2

\* Every step keeps the output in order.
LEMMA OutputKept ==
  ASSUME CgiInv, OwnTypes', HoldersKnown', [Next]_vars
  PROVE  OutputKnown'
<1>0. OwnTypes /\ HoldersKnown /\ SetupKnown /\ OutputKnown
  BY DEF CgiInv, TypeOK, OwnTypes
<1>1. CASE UNCHANGED plumbing
  BY <1>0, <1>1, OutputElsewhere DEF plumbing, dataVars
<1>2. ASSUME NEW p \in Pids, NEW r \in Requests, ForkCgi(p, r)
      PROVE  OutputKnown'
  BY <1>2, OutputNothing DEF ForkCgi, Nobody
<1>3. CASE ChildLeaves
  BY <1>0, <1>3, OutputElsewhere DEF ChildLeaves, Without, dataVars
<1>4. CASE CgiChild
  <2>1. CASE SetUpStdin
    <3>1. holders'.out_w = holders.out_w
      BY <1>0, <2>1 DEF SetUpStdin, OwnTypes
    <3> QED BY <1>0, <2>1, <3>1, OutputElsewhere DEF SetUpStdin, dataVars
  <2>2. CASE SetUpStdout
    <3>1. wire = <<>> /\ produced = 0 /\ out_pipe = <<>> /\ headers = <<>>
          /\ output = "none"
      BY <1>0, <2>2 DEF SetUpStdout, SetupKnown
    <3> QED BY <2>2, <3>1, OutputNothing DEF SetUpStdout, dataVars
  <2>3. CASE Exec
    BY <1>0, <2>3, OutputElsewhere DEF Exec, dataVars
  <2>4. CASE ChildFails
    <3>1. /\ wire = <<>> /\ produced = 0 /\ out_pipe = <<>> /\ headers = <<>>
          /\ output \in {"none", "headers"}
          /\ output = "headers" => request.mime
      BY <1>0, <2>4 DEF ChildFails, SetupKnown, OutputKnown
    <3>2. /\ wire' = Append(wire, ErrorPage) /\ setup' = "none"
          /\ UNCHANGED <<request, output, out_pipe, produced, headers>>
      BY <2>4 DEF ChildFails
    <3>3. Append(<<>>, ErrorPage) = <<ErrorPage>>
      BY DEF ErrorPage
    <3>4. wire' = <<ErrorPage>>
      BY <3>1, <3>2, <3>3
    <3> QED BY <3>1, <3>2, <3>4, OutputNothing
  <2> QED BY <1>4, <2>1, <2>2, <2>3, <2>4 DEF CgiChild
<1>5. CASE ProgramReads \/ ClientSends
  BY <1>0, <1>5, OutputElsewhere DEF ProgramReads, ClientSends
<1>6. CASE ProgramWrites
  BY <1>0, <1>6, OutputWritten
<1>7. CASE Input
  BY <1>0, <1>7, OutputElsewhere
     DEF Input, InputTakesLeftover, InputReads, InputWrites, InputBreaks,
         InputDone, InputEnds, Without
<1>8. CASE Output
  <2>0. request.mime
    BY <1>0, <1>8 DEF Output, OutputCollects, OutputEndsEarly, OutputStatus,
                      OutputEchoes, OutputDone, OutputBreaks, OutputKnown
  <2>1. CASE OutputCollects
    <3>1. /\ output = "headers" /\ out_pipe # <<>>
          /\ headers' = Append(headers, Head(out_pipe))
          /\ out_pipe' = Tail(out_pipe)
          /\ UNCHANGED <<request, setup, produced, wire>>
          /\ output' \in {"headers", "status"}
          /\ output' = "status" => Head(out_pipe) = request.blank
          /\ RestOf(wire) = <<>> /\ headers \o out_pipe = UpTo(produced)
      BY <1>0, <2>1 DEF OutputCollects, OutputKnown
    <3>2. headers' \o out_pipe' = UpTo(produced')
      BY <1>0, <3>1, OutFacts, HeadMoves
    <3>3. headers' # <<>> /\ headers'[Len(headers')] = Head(out_pipe)
      <4>1. headers \in Seq(Int) /\ out_pipe \in Seq(Int)
        BY <1>0, OutFacts
      <4>2. Head(out_pipe) \in Int
        BY <3>1, <4>1
      <4> QED BY <3>1, <4>1, <4>2
    <3> QED BY <1>0, <2>0, <3>1, <3>2, <3>3 DEF OutputKnown
  <2>2. CASE OutputEndsEarly
    <3>1. CASE output' = "status" /\ UNCHANGED holders
      BY <1>0, <2>0, <2>2, <3>1 DEF OutputEndsEarly, dataVars, OutputKnown, Eof
    <3>2. CASE output' = "none"
      BY <1>0, <2>0, <2>2, <3>2, OutputOver DEF OutputEndsEarly, dataVars, OutputKnown
    <3> QED BY <2>2, <3>1, <3>2 DEF OutputEndsEarly
  <2>3. CASE OutputStatus \/ OutputEchoes
    BY <1>0, <2>3, OutputSent
  <2>4. CASE OutputDone \/ OutputBreaks
    <3>1. RestOf(wire) \o out_pipe = Shown
      BY <1>0, <2>4 DEF OutputDone, OutputBreaks, OutputKnown, Shown
    <3> QED BY <1>0, <2>0, <2>4, <3>1, OutputOver DEF OutputDone, OutputBreaks, dataVars
  <2> QED BY <1>8, <2>1, <2>2, <2>3, <2>4 DEF Output
<1> QED
  BY <1>1, <1>2, <1>3, <1>4, <1>5, <1>6, <1>7, <1>8, StepCases

\* Every step keeps the invariant.
LEMMA StepKnown ==
  ASSUME CgiInv, ChildHasPid, ChildrenTypeOK', [Next]_vars
  PROVE  CgiInv'
<1>1. OwnTypes'
  BY TypesKept
<1>2. HoldersKnown'
  BY <1>1, HoldersKept
<1>3. SetupKnown' /\ InputKnown' /\ OutputKnown'
  BY <1>1, <1>2, SetupKept, InputKept, OutputKept
<1>4. TypeOK'
  BY <1>1 DEF TypeOK, OwnTypes
<1> QED BY <1>2, <1>3, <1>4 DEF CgiInv

\* The invariant says what PipesInOrder does.
LEMMA KnownInOrder == CgiInv => PipesInOrder
<1> SUFFICES ASSUME CgiInv PROVE PipesInOrder
  OBVIOUS
<1>0. OwnTypes /\ HoldersKnown /\ SetupKnown /\ InputKnown /\ OutputKnown
  BY DEF CgiInv, TypeOK, OwnTypes
<1>1. InputIsBody
  <2>1. got \o in_pipe \o carried = Whole
    BY DEF Whole
  <2>2. input = "none" => holders.in_w = {}
    BY <1>0 DEF HoldersKnown
  <2> QED BY <1>0, <2>1, <2>2 DEF InputKnown, InputIsBody
<1>2. OutputAsWritten
  <2> DEFINE failed == wire # <<>> /\ wire[1] = ErrorPage
             rest == IF failed THEN Tail(wire) ELSE wire
  <2>1. (failed <=> FailedOn(wire)) /\ rest = RestOf(wire)
    BY DEF FailedOn, RestOf
  <2>2. rest \in Seq(Int) /\ headers \in Seq(Int) /\ out_pipe \in Seq(Int)
        /\ UpTo(produced) \in Seq(Int) /\ Shown \in Seq(Int)
    BY <1>0, <2>1, OutFacts
  <2> HIDE DEF failed, rest
  <2>3. failed => produced = 0
    BY <1>0, <2>1 DEF OutputKnown
  <2>4. ~request.mime => rest = UpTo(produced)
    BY <1>0, <2>1 DEF OutputKnown
  <2>5. ASSUME output \in {"headers", "status"}
        PROVE  /\ rest \o headers \o out_pipe = <<>> \o UpTo(produced)
               /\ IsPrefixOf(rest, Shown)
    <3>1. rest = <<>> /\ headers \o out_pipe = UpTo(produced)
      BY <1>0, <2>1, <2>5 DEF OutputKnown
    <3>2. <<>> \o headers = headers /\ <<>> \o UpTo(produced) = UpTo(produced)
      BY <2>2
    <3>3. IsPrefixOf(<<>>, Shown)
      BY <2>2, FirstIsPrefix
    <3> QED BY <3>1, <3>2, <3>3
  <2>6. ASSUME output = "echo"
        PROVE  /\ rest \o headers \o out_pipe = Shown
               /\ IsPrefixOf(rest, Shown)
    <3>1. headers = <<>> /\ rest \o out_pipe = Shown
      BY <1>0, <2>1, <2>6 DEF OutputKnown, Shown
    <3>2. rest \o <<>> = rest
      BY <2>2
    <3>3. IsPrefixOf(rest, rest \o out_pipe)
      BY <2>2, FirstIsPrefix
    <3> QED BY <3>1, <3>2, <3>3
  <2>7. output = "none" /\ request.mime => IsPrefixOf(rest, Shown)
    BY <1>0, <2>1 DEF OutputKnown, Shown
  <2>8. output = "status" =>
          Eof \/ (headers # <<>> /\ headers[Len(headers)] = request.blank)
    BY <1>0 DEF OutputKnown
  <2>9. output \in {"none", "headers", "status", "echo"}
    BY <1>0 DEF OwnTypes
  <2>10. IF request.mime
           THEN IsPrefixOf(rest, <<StatusLine>> \o UpTo(produced))
           ELSE rest = UpTo(produced)
    BY <2>4, <2>5, <2>6, <2>7, <2>9 DEF Shown
  <2>11. request.mime /\ output # "none" =>
           rest \o headers \o out_pipe =
             (IF output = "echo" THEN <<StatusLine>> ELSE <<>>) \o UpTo(produced)
    BY <2>5, <2>6, <2>9 DEF Shown
  <2> QED BY <2>3, <2>8, <2>10, <2>11 DEF OutputAsWritten, failed, rest
<1> QED BY <1>1, <1>2 DEF CgiInv, PipesInOrder

\* Whatever is read and written in whatever pieces, whoever dies and when, the
\* program finds the body as it was sent and the client the output as it was
\* written, after its status line.
THEOREM DataInOrder == Spec => []PipesInOrder
<1>1. CgiInit => CgiInv /\ ChildHasPid
  BY InitKnown DEF CgiInit, ChildHasPid
<1>2. Covered => ChildrenTypeOK
  BY DEF Covered
<1>3. CgiInv /\ ChildHasPid /\ ChildrenTypeOK' /\ [Next]_vars
        => CgiInv' /\ ChildHasPid'
  BY StepKnown, StepHasPid
<1> QED
  BY <1>1, <1>2, <1>3, KnownInOrder, AlwaysCovered, CgiImplementsChildren,
     PTL DEF Spec
================================================================================
