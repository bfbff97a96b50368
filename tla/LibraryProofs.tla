---------------------------- MODULE LibraryProofs ----------------------------
(***************************************************************************)
(* The two libraries under the main loop, and the pure algorithms.         *)
(*                                                                         *)
(* FdWatch: the arrays of fdwatch.c stay inverse to one another, for any   *)
(* number of descriptors, and implement the list that WatchList promises.  *)
(*                                                                         *)
(* Timers: the timers are sound whatever the callbacks do (ListsSound),    *)
(* for any number of connections, hash buckets, delays and any clock, and  *)
(* implement the alarms that Alarms promises.                              *)
(*                                                                         *)
(* Algorithms: match(), the dates, the types and the escapes give what     *)
(* their references say.                                                   *)
(***************************************************************************)
EXTENDS FdWatch, Timers, Algorithms, FiniteSetTheorems, SequenceTheorems,
        WellFoundedInduction, TLAPS

PollEntry == [fd : Fd \cup {NoFd}, events : {"NONE", "IN", "OUT"}, revents : Revents]

FdTypeOK ==
  /\ fd_rw \in [Fd -> {"NONE", "READ", "WRITE"}]
  /\ pollfds \in [Fd -> PollEntry]
  /\ poll_fdidx \in [Fd -> Fd \cup {-1}]

FdInv == FdTypeOK /\ ArraysInverse

(***************************************************************************)
(* The check of poll_add_fd never fails: were every entry in use, two of   *)
(* them would be for the same descriptor.                                  *)
(***************************************************************************)
LEMMA EntryForOneMore ==
  ASSUME FdInv, NEW fd \in Fd, fd_rw[fd] = "NONE"
  PROVE  npoll_fds < nfiles
<1> USE NfilesAssumption
<1> SUFFICES ASSUME npoll_fds = nfiles PROVE FALSE
  BY DEF FdInv, ArraysInverse
<1>1. Polled = Fd
  BY DEF Polled, Fd
<1>2. poll_fdidx[fd] = -1
  BY DEF FdInv, ArraysInverse, IsWatched
<1> DEFINE f == [i \in Fd |-> pollfds[i].fd]
<1>3. f \in [Fd -> Fd \ {fd}]
  <2> SUFFICES ASSUME NEW i \in Fd PROVE pollfds[i].fd \in Fd \ {fd}
    OBVIOUS
  <2>1. pollfds[i].fd \in Fd /\ poll_fdidx[pollfds[i].fd] = i
    BY <1>1 DEF FdInv, ArraysInverse
  <2> QED BY <2>1, <1>2 DEF Fd
<1>4. /\ IsFiniteSet(Fd) /\ IsFiniteSet(Fd \ {fd})
      /\ Cardinality(Fd \ {fd}) < Cardinality(Fd)
  <2>1. IsFiniteSet(Fd) /\ Cardinality(Fd) = nfiles
    BY FS_Interval DEF Fd
  <2>2. /\ IsFiniteSet(Fd \ {fd})
        /\ Cardinality(Fd \ {fd}) = Cardinality(Fd) - 1
    <3> HIDE DEF f
    <3> QED BY <2>1, FS_RemoveElement, Zenon
  <2> QED BY <2>1, <2>2
<1>5. PICK i, j \in Fd : i # j /\ f[i] = f[j]
  <2> HIDE DEF f
  <2> QED BY <1>3, <1>4, FS_PigeonHole
<1>6. poll_fdidx[pollfds[i].fd] = i /\ poll_fdidx[pollfds[j].fd] = j
  BY <1>1 DEF FdInv, ArraysInverse
<1> QED BY <1>5, <1>6

LEMMA FdInitEstablishes == FdInit => FdInv
<1> SUFFICES ASSUME FdInit PROVE FdInv
  OBVIOUS
<1> USE NfilesAssumption
<1>1. FdTypeOK
  BY DEF FdInit, FdTypeOK, PollEntry, Revents, NoFd
<1>2. ArraysInverse
  BY DEF FdInit, ArraysInverse, IsWatched, Polled, Fd
<1> QED BY <1>1, <1>2 DEF FdInv

\* Adding appends an entry.
LEMMA AddFdPreserves ==
  ASSUME FdInv, NEW fd \in Fd, AddFd(fd)
  PROVE  FdInv'
<1> USE NfilesAssumption
<1>1. npoll_fds \in Fd
  BY EntryForOneMore DEF AddFd, FdInv, ArraysInverse, Fd
<1>2. PICK rw \in {"READ", "WRITE"} :
        /\ pollfds' = [pollfds EXCEPT ![npoll_fds].fd = fd,
                                      ![npoll_fds].events = Event(rw)]
        /\ poll_fdidx' = [poll_fdidx EXCEPT ![fd] = npoll_fds]
        /\ npoll_fds' = npoll_fds + 1
        /\ fd_rw' = [fd_rw EXCEPT ![fd] = rw]
  <2>1. ~(npoll_fds >= nfiles)
    BY <1>1 DEF Fd
  <2> QED BY <2>1 DEF AddFd, PollAddFd
<1>3. fd_rw[fd] = "NONE"
  BY DEF AddFd
<1>4. Event(rw) \in {"IN", "OUT"}
  BY DEF Event
<1>5. FdTypeOK'
  BY <1>1, <1>2, <1>4 DEF FdInv, FdTypeOK, PollEntry
<1>6. /\ pollfds'[npoll_fds].fd = fd
      /\ pollfds'[npoll_fds].events = Event(rw)
      /\ \A i \in Polled : pollfds'[i] = pollfds[i]
      /\ Polled' = Polled \cup {npoll_fds}
      /\ Polled \subseteq Fd /\ npoll_fds \notin Polled
  BY <1>1, <1>2 DEF FdInv, FdTypeOK, PollEntry, Polled, Fd
<1>7. /\ poll_fdidx'[fd] = npoll_fds
      /\ \A g \in Fd \ {fd} : poll_fdidx'[g] = poll_fdidx[g]
      /\ fd_rw'[fd] = rw
      /\ \A g \in Fd \ {fd} : fd_rw'[g] = fd_rw[g]
  BY <1>2 DEF FdInv, FdTypeOK
<1>8. \A i \in Polled : pollfds[i].fd # fd
  BY <1>3, <1>6 DEF FdInv, ArraysInverse, IsWatched, Fd
<1>9. ArraysInverse'
  <2>1. npoll_fds' \in 0 .. nfiles
    BY <1>1, <1>2 DEF Fd
  <2>2. \A g \in Fd : IsWatched(g)' <=> poll_fdidx'[g] # -1
    BY <1>1, <1>7 DEF FdInv, ArraysInverse, IsWatched, Fd
  <2>3. ASSUME NEW g \in Fd, IsWatched(g)'
        PROVE  /\ poll_fdidx'[g] \in Polled'
               /\ pollfds'[poll_fdidx'[g]].fd = g
               /\ pollfds'[poll_fdidx'[g]].events = Event(fd_rw'[g])
    <3>1. CASE g = fd
      BY <3>1, <1>6, <1>7
    <3>2. CASE g # fd
      BY <3>2, <2>3, <1>6, <1>7 DEF FdInv, ArraysInverse, IsWatched
    <3> QED BY <3>1, <3>2
  <2>4. ASSUME NEW i \in Polled'
        PROVE  pollfds'[i].fd \in Fd /\ poll_fdidx'[pollfds'[i].fd] = i
    <3>1. CASE i = npoll_fds
      BY <3>1, <1>6, <1>7
    <3>2. CASE i \in Polled
      BY <3>2, <1>6, <1>7, <1>8 DEF FdInv, ArraysInverse
    <3> QED BY <2>4, <1>6, <3>1, <3>2
  <2>5. \A g \in Fd : Event(fd_rw[g])' = Event(fd_rw'[g])
    BY DEF Event
  <2> QED BY <2>1, <2>2, <2>3, <2>4, <2>5 DEF ArraysInverse
<1> QED BY <1>5, <1>9 DEF FdInv

\* Deleting moves the last entry into the hole, which may be its own.
LEMMA DelFdPreserves ==
  ASSUME FdInv, NEW fd \in Fd, DelFd(fd)
  PROVE  FdInv'
<1> USE NfilesAssumption
<1> DEFINE idx == poll_fdidx[fd]
           last == npoll_fds - 1
           moved == pollfds[last].fd
<1>1. fd_rw[fd] # "NONE"
  BY DEF DelFd
<1>2. /\ idx \in Polled /\ idx \in Fd
      /\ last \in Polled /\ last \in Fd
      /\ Polled \subseteq Fd
      /\ npoll_fds \in 1 .. nfiles
      /\ pollfds[idx].fd = fd
  <2>1. idx \in Polled /\ pollfds[idx].fd = fd
    BY <1>1 DEF FdInv, ArraysInverse, IsWatched
  <2>2. npoll_fds \in 0 .. nfiles
    BY DEF FdInv, ArraysInverse
  <2> QED BY <2>1, <2>2 DEF Polled, Fd
<1>3. moved \in Fd /\ poll_fdidx[moved] = last
  BY <1>2 DEF FdInv, ArraysInverse
<1>4. /\ npoll_fds' = last
      /\ pollfds' = [[pollfds EXCEPT ![idx] = pollfds[last]]
                       EXCEPT ![last].fd = NoFd]
      /\ poll_fdidx' = [[poll_fdidx EXCEPT ![moved] = idx] EXCEPT ![fd] = -1]
      /\ fd_rw' = [fd_rw EXCEPT ![fd] = "NONE"]
  BY <1>2 DEF DelFd, PollDelFd
<1>5. FdTypeOK'
  BY <1>2, <1>3, <1>4 DEF FdInv, FdTypeOK, PollEntry, NoFd
<1>6. Polled' = Polled \ {last}
  BY <1>2, <1>4 DEF Polled, Fd
<1>7. \A i \in Polled' : pollfds'[i] = IF i = idx THEN pollfds[last] ELSE pollfds[i]
  BY <1>2, <1>4, <1>6 DEF FdInv, FdTypeOK
<1>8. /\ poll_fdidx'[fd] = -1
      /\ fd_rw'[fd] = "NONE"
      /\ \A g \in Fd \ {fd} : fd_rw'[g] = fd_rw[g]
      /\ \A g \in Fd \ {fd} :
           poll_fdidx'[g] = IF g = moved THEN idx ELSE poll_fdidx[g]
  BY <1>3, <1>4 DEF FdInv, FdTypeOK
<1>9. moved = fd <=> idx = last
  BY <1>2, <1>3
<1>10. ArraysInverse'
  <2>1. npoll_fds' \in 0 .. nfiles
    BY <1>2, <1>4
  <2>2. \A g \in Fd : IsWatched(g)' <=> poll_fdidx'[g] # -1
    <3> SUFFICES ASSUME NEW g \in Fd
                 PROVE  fd_rw'[g] # "NONE" <=> poll_fdidx'[g] # -1
      BY DEF IsWatched
    <3>1. fd_rw[g] # "NONE" <=> poll_fdidx[g] # -1
      BY DEF FdInv, ArraysInverse, IsWatched
    <3>2. idx # -1 /\ last # -1
      BY <1>2 DEF Fd
    <3> QED BY <3>1, <3>2, <1>3, <1>8
  <2>3. ASSUME NEW g \in Fd, IsWatched(g)'
        PROVE  /\ poll_fdidx'[g] \in Polled'
               /\ pollfds'[poll_fdidx'[g]].fd = g
               /\ pollfds'[poll_fdidx'[g]].events = Event(fd_rw'[g])
    <3>1. g # fd
      BY <2>3, <1>8 DEF IsWatched
    <3>2. /\ poll_fdidx[g] \in Polled
          /\ pollfds[poll_fdidx[g]].fd = g
          /\ pollfds[poll_fdidx[g]].events = Event(fd_rw[g])
      BY <2>3, <3>1, <1>8 DEF FdInv, ArraysInverse, IsWatched
    <3>3. CASE g = moved
      <4>1. poll_fdidx'[g] = idx /\ idx \in Polled'
        BY <3>1, <3>3, <1>2, <1>6, <1>8, <1>9
      <4> QED BY <4>1, <3>1, <3>2, <3>3, <1>3, <1>7, <1>8
    <3>4. CASE g # moved
      <4>1. poll_fdidx'[g] = poll_fdidx[g] /\ poll_fdidx[g] # last
        BY <3>1, <3>2, <3>4, <1>8
      <4>2. poll_fdidx[g] # idx
        BY <3>1, <3>2, <1>2
      <4> QED BY <4>1, <4>2, <3>1, <3>2, <1>6, <1>7, <1>8
    <3> QED BY <3>3, <3>4
  <2>4. ASSUME NEW i \in Polled'
        PROVE  pollfds'[i].fd \in Fd /\ poll_fdidx'[pollfds'[i].fd] = i
    <3>1. i \in Polled /\ i # last
      BY <2>4, <1>6
    <3>2. pollfds[i].fd \in Fd /\ poll_fdidx[pollfds[i].fd] = i
      BY <3>1 DEF FdInv, ArraysInverse
    <3>3. CASE i = idx
      <4>1. pollfds'[i].fd = moved /\ moved # fd
        BY <2>4, <3>1, <3>3, <1>7, <1>9
      <4> QED BY <4>1, <3>3, <1>3, <1>8
    <3>4. CASE i # idx
      <4>1. pollfds'[i].fd = pollfds[i].fd
        BY <2>4, <3>4, <1>7
      <4>2. pollfds[i].fd # fd /\ pollfds[i].fd # moved
        BY <3>1, <3>2, <3>4, <1>3
      <4> QED BY <4>1, <4>2, <3>2, <1>8
    <3> QED BY <3>3, <3>4
  <2>5. \A g \in Fd : Event(fd_rw[g])' = Event(fd_rw'[g])
    BY DEF Event
  <2> QED BY <2>1, <2>2, <2>3, <2>4, <2>5 DEF ArraysInverse
<1> QED BY <1>5, <1>10 DEF FdInv

\* poll() changes results, and no more.
LEMMA WatchPreserves ==
  ASSUME FdInv, Watch
  PROVE  FdInv'
<1>1. PICK result \in [Polled -> Revents] :
        pollfds' = [i \in Fd |->
          IF i \in Polled THEN [pollfds[i] EXCEPT !.revents = result[i]]
          ELSE pollfds[i]]
  BY DEF Watch
<1>2. UNCHANGED <<fd_rw, npoll_fds, poll_fdidx>>
  BY DEF Watch
<1>3. \A i \in Fd : /\ pollfds'[i] \in PollEntry
                    /\ pollfds'[i].fd = pollfds[i].fd
                    /\ pollfds'[i].events = pollfds[i].events
  BY <1>1 DEF FdInv, FdTypeOK, PollEntry
<1>4. FdTypeOK'
  <2>1. pollfds' \in [Fd -> PollEntry]
    BY <1>1, <1>3
  <2> QED BY <2>1, <1>2 DEF FdInv, FdTypeOK, PollEntry
<1>5. Polled' = Polled /\ Polled \subseteq Fd
  BY <1>2, NfilesAssumption DEF Polled, FdInv, ArraysInverse, Fd
<1>6. ArraysInverse'
  BY <1>2, <1>3, <1>5 DEF FdInv, ArraysInverse, IsWatched, Event
<1> QED BY <1>4, <1>6 DEF FdInv

LEMMA FdNextPreserves == FdInv /\ [FdNext]_fvars => FdInv'
<1> SUFFICES ASSUME FdInv, [FdNext]_fvars PROVE FdInv'
  OBVIOUS
<1>1. ASSUME NEW fd \in Fd, AddFd(fd) PROVE FdInv'
  BY <1>1, AddFdPreserves
<1>2. ASSUME NEW fd \in Fd, DelFd(fd) PROVE FdInv'
  BY <1>2, DelFdPreserves
<1>3. CASE Watch
  BY <1>3, WatchPreserves
<1>4. CASE WatchFails \/ GetNextClientData \/ UNCHANGED fvars
  <2>1. UNCHANGED <<fd_rw, pollfds, npoll_fds, poll_fdidx>>
    BY <1>4 DEF WatchFails, GetNextClientData, fvars, pollVars
  <2> QED BY <2>1 DEF FdInv, FdTypeOK, ArraysInverse, IsWatched, Polled, Event, PollEntry
<1> QED BY <1>1, <1>2, <1>3, <1>4 DEF FdNext

(***************************************************************************)
(* Whatever descriptors are added and deleted, in whatever order and at    *)
(* whatever point of a service pass, poll() is asked about the watched     *)
(* ones, once each and for the right direction.                            *)
(***************************************************************************)
THEOREM ArraysAlwaysInverse == FdSpec => []ArraysInverse
<1>1. FdInv => ArraysInverse
  BY DEF FdInv
<1> QED BY FdInitEstablishes, FdNextPreserves, <1>1, PTL DEF FdSpec

-----------------------------------------------------------------------------
(***************************************************************************)
(* What the refinement needs beside FdInv: only watched descriptors have   *)
(* client data or an answer of poll(), and the list of ready ones names    *)
(* each once.                                                              *)
(***************************************************************************)
ReadyInv ==
  /\ \A fd \in Fd : ~IsWatched(fd) => fd_data[fd] = "NULL"
  /\ fd_data \in [Fd -> Client \cup {"NULL"}]
  /\ asked \subseteq {fd \in Fd : IsWatched(fd)}
  /\ poll_rfdidx \in Seq(Fd)
  /\ \A j, k \in DOMAIN poll_rfdidx : poll_rfdidx[j] = poll_rfdidx[k] => j = k

\* At the start nothing is watched, asked about or ready.
LEMMA InitReady == FdInit => ReadyInv
BY DEF FdInit, ReadyInv, IsWatched

\* An ascending enumeration of as many numbers as a set has names each once.
LEMMA Enumerates ==
  ASSUME NEW Found \in SUBSET Int, IsFiniteSet(Found), NEW n, n = Cardinality(Found),
         NEW found \in [1 .. n -> Found], Ascending(found)
  PROVE  /\ n \in Nat
         /\ \A j, k \in 1 .. n : found[j] = found[k] => j = k
         /\ \A i \in Found : \E k \in 1 .. n : found[k] = i
<1>1. n \in Nat
  BY FS_CardinalityType
<1>2. ASSUME NEW j \in 1 .. n, NEW k \in 1 .. n, found[j] = found[k]
      PROVE  j = k
  <2>1. found[j] \in Int
    OBVIOUS
  <2>2. ~(j < k) /\ ~(k < j)
    BY <1>1, <1>2, <2>1 DEF Ascending
  <2> QED BY <2>2, <1>1
<1>3. found \in Injection(1 .. n, Found)
  BY <1>2 DEF Injection, IsInjective
<1>4. IsFiniteSet(1 .. n) /\ Cardinality(1 .. n) = n
  BY <1>1, FS_Interval
<1>5. found \in Surjection(1 .. n, Found)
  BY <1>3, <1>4, FS_Injection
<1> QED BY <1>1, <1>2, <1>5 DEF Surjection

\* poll_watch enters each descriptor with a result once, in any number of them.
LEMMA FoundOnce ==
  ASSUME FdInv, NEW Found \in SUBSET Polled,
         NEW found \in [1 .. Cardinality(Found) -> Found], Ascending(found),
         NEW ridx \in [DOMAIN found -> Fd],
         \A k \in DOMAIN found : ridx[k] = pollfds[found[k]].fd
  PROVE  /\ ridx \in Seq(Fd)
         /\ \A j, k \in DOMAIN ridx : ridx[j] = ridx[k] => j = k
         /\ \A fd : (\E k \in DOMAIN ridx : ridx[k] = fd)
              <=> (\E i \in Found : pollfds[i].fd = fd)
<1>1. IsFiniteSet(Found) /\ Found \subseteq Int
  <2>1. npoll_fds \in Nat
    BY NfilesAssumption DEF FdInv, ArraysInverse
  <2>2. IsFiniteSet(Polled) /\ Polled \subseteq Int
    BY <2>1, FS_Interval DEF Polled
  <2> QED BY <2>2, FS_Subset
<1>2. PICK n : n = Cardinality(Found)
  OBVIOUS
<1>3. /\ n \in Nat
      /\ \A j, k \in 1 .. n : found[j] = found[k] => j = k
      /\ \A i \in Found : \E k \in 1 .. n : found[k] = i
  BY <1>1, <1>2, Enumerates
<1>4. \A i \in Found : pollfds[i].fd \in Fd /\ poll_fdidx[pollfds[i].fd] = i
  BY DEF FdInv, ArraysInverse
<1>5. found \in [1 .. n -> Found]
  BY <1>2
<1>6. /\ \A k \in 1 .. n : ridx[k] = pollfds[found[k]].fd
      /\ ridx \in [1 .. n -> Fd]
      /\ DOMAIN ridx = 1 .. n
  BY <1>5
<1>7. ridx \in Seq(Fd)
  BY ONLY <1>3, <1>6
<1>8. ASSUME NEW j \in 1 .. n, NEW k \in 1 .. n, ridx[j] = ridx[k]
      PROVE  j = k
  <2>1. found[j] \in Found /\ found[k] \in Found
    BY <1>5
  <2>2. pollfds[found[j]].fd = pollfds[found[k]].fd
    BY <1>6, <1>8
  <2>3. found[j] = found[k]
    BY <2>1, <2>2, <1>4
  <2> QED BY <2>3, <1>3
<1>9. \A fd : (\E k \in 1 .. n : ridx[k] = fd) <=> (\E i \in Found : pollfds[i].fd = fd)
  <2>1. \A k \in 1 .. n : found[k] \in Found /\ ridx[k] = pollfds[found[k]].fd
    BY <1>5, <1>6
  <2> QED BY <2>1, <1>3
<1>10. DOMAIN ridx = 1 .. n
  BY <1>6
<1> QED BY ONLY <1>7, <1>8, <1>9, <1>10

\* What poll_watch does, from its action.
LEMMA WatchFinds ==
  ASSUME FdInv, Watch
  PROVE  \E result \in [Polled -> Revents] :
           LET Found == {i \in Polled : result[i] # "NONE"}
           IN /\ \A i \in Polled : result[i] \in {pollfds[i].events, "ERR", "NONE"}
              /\ \A i \in Polled : pollfds'[i].revents = result[i]
              /\ poll_rfdidx' \in Seq(Fd)
              /\ \A j, k \in DOMAIN poll_rfdidx' :
                   poll_rfdidx'[j] = poll_rfdidx'[k] => j = k
              /\ \A fd : fd \in Pending' <=> \E i \in Found : pollfds[i].fd = fd
<1>1. PICK result \in [Polled -> Revents] :
        /\ \A i \in Polled : result[i] \in {pollfds[i].events, "ERR", "NONE"}
        /\ pollfds' = [i \in Fd |->
             IF i \in Polled THEN [pollfds[i] EXCEPT !.revents = result[i]]
             ELSE pollfds[i]]
        /\ LET Found == {i \in Polled : result[i] # "NONE"}
           IN \E found \in [1 .. Cardinality(Found) -> Found] :
                /\ Ascending(found)
                /\ poll_rfdidx' = [k \in DOMAIN found |-> pollfds[found[k]].fd]
  BY DEF Watch
<1> DEFINE Found == {i \in Polled : result[i] # "NONE"}
<1>2. PICK found \in [1 .. Cardinality(Found) -> Found] :
        /\ Ascending(found)
        /\ poll_rfdidx' = [k \in DOMAIN found |-> pollfds[found[k]].fd]
  BY <1>1
<1>3. Polled \subseteq Fd
  BY NfilesAssumption DEF FdInv, ArraysInverse, Polled, Fd
<1>4. \A i \in Polled : pollfds'[i].revents = result[i]
  BY <1>1, <1>3 DEF FdInv, FdTypeOK, PollEntry
<1>5. Found \in SUBSET Polled
  OBVIOUS
<1>6. /\ poll_rfdidx' \in Seq(Fd)
      /\ \A j, k \in DOMAIN poll_rfdidx' :
           poll_rfdidx'[j] = poll_rfdidx'[k] => j = k
      /\ \A fd : (\E k \in DOMAIN poll_rfdidx' : poll_rfdidx'[k] = fd)
              <=> (\E i \in Found : pollfds[i].fd = fd)
  <2>1. /\ poll_rfdidx' \in [DOMAIN found -> Fd]
        /\ \A k \in DOMAIN found : poll_rfdidx'[k] = pollfds[found[k]].fd
    BY <1>2, <1>5 DEF FdInv, ArraysInverse
  <2>2. found \in [1 .. Cardinality(Found) -> Found] /\ Ascending(found)
    BY <1>2
  <2> HIDE DEF Found
  <2>3. \A r \in [DOMAIN found -> Fd] :
          (\A k \in DOMAIN found : r[k] = pollfds[found[k]].fd)
          => /\ r \in Seq(Fd)
             /\ \A j, k \in DOMAIN r : r[j] = r[k] => j = k
             /\ \A fd : (\E k \in DOMAIN r : r[k] = fd)
                        <=> (\E i \in Found : pollfds[i].fd = fd)
    BY <1>5, <2>2, FoundOnce
  <2> QED BY <2>1, <2>3
<1>7. \A fd : fd \in Pending' <=> \E i \in Found : pollfds[i].fd = fd
  BY <1>6 DEF Pending
<1> QED BY <1>1, <1>4, <1>6, <1>7

\* Every step keeps ReadyInv.
LEMMA StepReady ==
  ASSUME FdInv, ReadyInv, [FdNext]_fvars
  PROVE  ReadyInv'
<1>1. ASSUME NEW fd \in Fd, AddFd(fd) PROVE ReadyInv'
  <2>1. PICK rw \in {"READ", "WRITE"}, data \in Client :
          /\ fd_rw' = [fd_rw EXCEPT ![fd] = rw]
          /\ fd_data' = [fd_data EXCEPT ![fd] = data]
    BY <1>1 DEF AddFd
  <2>2. UNCHANGED <<poll_rfdidx, asked>>
    BY <1>1 DEF AddFd
  <2> QED BY <2>1, <2>2 DEF ReadyInv, IsWatched, FdInv, FdTypeOK
<1>2. ASSUME NEW fd \in Fd, DelFd(fd) PROVE ReadyInv'
  BY <1>2 DEF DelFd, ReadyInv, IsWatched, FdInv, FdTypeOK
<1>3. CASE Watch
  <2>1. /\ poll_rfdidx' \in Seq(Fd)
        /\ \A j, k \in DOMAIN poll_rfdidx' :
             poll_rfdidx'[j] = poll_rfdidx'[k] => j = k
    BY <1>3, WatchFinds
  <2>2. /\ UNCHANGED <<fd_rw, fd_data>>
        /\ asked' = {fd \in Fd : fd_rw[fd] # "NONE"}
    BY <1>3 DEF Watch
  <2> QED BY <2>1, <2>2 DEF ReadyInv, IsWatched
<1>4. CASE WatchFails
  BY <1>4 DEF WatchFails, ReadyInv, IsWatched
<1>5. CASE GetNextClientData
  <2>1. /\ poll_rfdidx' = Tail(poll_rfdidx) /\ poll_rfdidx # <<>>
        /\ poll_rfdidx \in Seq(Fd)
    BY <1>5 DEF GetNextClientData, ReadyInv
  <2>2. /\ poll_rfdidx' \in Seq(Fd)
        /\ Len(poll_rfdidx) \in Nat \ {0}
        /\ DOMAIN poll_rfdidx = 1 .. Len(poll_rfdidx)
        /\ DOMAIN poll_rfdidx' = 1 .. Len(poll_rfdidx) - 1
        /\ \A k \in DOMAIN poll_rfdidx' : poll_rfdidx'[k] = poll_rfdidx[k + 1]
    BY <2>1
  <2>3. ASSUME NEW j \in DOMAIN poll_rfdidx', NEW k \in DOMAIN poll_rfdidx',
               poll_rfdidx'[j] = poll_rfdidx'[k]
        PROVE  j = k
    <3>1. j + 1 \in DOMAIN poll_rfdidx /\ k + 1 \in DOMAIN poll_rfdidx
      BY <2>2
    <3>2. j + 1 = k + 1
      BY <2>2, <2>3, <3>1 DEF ReadyInv
    <3> QED BY <2>2, <3>2
  <2> QED BY <1>5, <2>2, <2>3 DEF GetNextClientData, ReadyInv, IsWatched
<1>6. CASE UNCHANGED fvars
  BY <1>6 DEF fvars, ReadyInv, IsWatched
<1> QED BY <1>1, <1>2, <1>3, <1>4, <1>5, <1>6 DEF FdNext

-----------------------------------------------------------------------------
ListWatch == [fd \in Fd |-> [rw |-> fd_rw[fd], data |-> fd_data[fd]]]

\* The list of WatchList has the watched descriptors.
LEMMA SameWatched ==
  ASSUME FdInv, ReadyInv, NEW fd \in Fd
  PROVE  fd \in List!Watched <=> IsWatched(fd)
BY DEF List!Watched, List!Nothing, ReadyInv, IsWatched

LEMMA InitImplements == FdInit => List!Init
BY DEF FdInit, List!Init, List!Nothing, Pending, Said

\* A descriptor that poll() was asked about, and is not deleted, keeps what poll()
\* said of it wherever its entry goes.
LEMMA SaidStays ==
  ASSUME FdInv, ReadyInv, NEW fd \in Fd, AddFd(fd) \/ DelFd(fd),
         NEW g \in asked, g \in asked'
  PROVE  CheckFd(g)' = CheckFd(g)
<1> USE NfilesAssumption
<1>1. g \in Fd /\ fd_rw[g] # "NONE"
  BY DEF ReadyInv, IsWatched
<1>2. /\ poll_fdidx[g] \in Polled
      /\ pollfds[poll_fdidx[g]].fd = g
  BY <1>1 DEF FdInv, ArraysInverse, IsWatched
<1>3. Polled \subseteq Fd /\ npoll_fds \in 0 .. nfiles
  BY DEF FdInv, ArraysInverse, Polled, Fd
<1>4. CASE AddFd(fd)
  <2>1. g # fd /\ npoll_fds \in Fd
    BY <1>1, <1>4, EntryForOneMore DEF AddFd, Fd, FdInv, ArraysInverse
  <2>2. ~(npoll_fds >= nfiles)
    BY <2>1 DEF Fd
  <2>3. PICK rw \in {"READ", "WRITE"} :
          /\ pollfds' = [pollfds EXCEPT ![npoll_fds].fd = fd,
                                        ![npoll_fds].events = Event(rw)]
          /\ poll_fdidx' = [poll_fdidx EXCEPT ![fd] = npoll_fds]
          /\ fd_rw' = [fd_rw EXCEPT ![fd] = rw]
    BY <1>4, <2>2 DEF AddFd, PollAddFd
  <2>4. poll_fdidx[g] # npoll_fds
    BY <1>2, <1>3 DEF Polled
  <2>5. /\ poll_fdidx'[g] = poll_fdidx[g]
        /\ pollfds'[poll_fdidx[g]] = pollfds[poll_fdidx[g]]
        /\ fd_rw'[g] = fd_rw[g]
    BY <1>1, <1>2, <1>3, <2>1, <2>3, <2>4 DEF FdInv, FdTypeOK
  <2> QED BY <2>5 DEF CheckFd, Event
<1>5. CASE DelFd(fd)
  <2> DEFINE idx == poll_fdidx[fd]
             last == npoll_fds - 1
             moved == pollfds[last].fd
  <2>1. fd_rw[fd] # "NONE" /\ g # fd
    BY <1>5 DEF DelFd
  <2>2. idx \in Polled /\ pollfds[idx].fd = fd
    BY <2>1 DEF FdInv, ArraysInverse, IsWatched
  <2>3. last \in Polled /\ moved \in Fd /\ poll_fdidx[moved] = last
    BY <1>3, <2>2 DEF FdInv, ArraysInverse, Polled
  <2>4. /\ pollfds' = [[pollfds EXCEPT ![idx] = pollfds[last]]
                         EXCEPT ![last].fd = NoFd]
        /\ poll_fdidx' = [[poll_fdidx EXCEPT ![moved] = idx] EXCEPT ![fd] = -1]
        /\ fd_rw' = [fd_rw EXCEPT ![fd] = "NONE"]
    BY <1>3, <1>5, <2>2 DEF DelFd, PollDelFd
  <2>5. fd_rw'[g] = fd_rw[g]
    BY <1>1, <2>1, <2>4 DEF FdInv, FdTypeOK
  <2>6. CASE g = moved
    <3>1. idx # last
      BY <2>1, <2>2, <2>6
    <3>2. poll_fdidx'[g] = idx /\ pollfds'[idx] = pollfds[last]
      BY <1>1, <1>3, <2>1, <2>2, <2>3, <2>4, <2>6, <3>1 DEF FdInv, FdTypeOK
    <3>3. idx \in Fd /\ last \in Fd
      BY <1>3, <2>2, <2>3
    <3> QED BY <2>3, <2>5, <2>6, <3>2, <3>3 DEF CheckFd, Event
  <2>7. CASE g # moved
    <3>1. poll_fdidx[g] # idx /\ poll_fdidx[g] # last
      BY <1>2, <2>1, <2>2, <2>3, <2>7
    <3>2. /\ poll_fdidx'[g] = poll_fdidx[g]
          /\ pollfds'[poll_fdidx[g]] = pollfds[poll_fdidx[g]]
      BY <1>1, <1>2, <1>3, <2>1, <2>4, <2>7, <3>1 DEF FdInv, FdTypeOK
    <3> QED BY <2>5, <3>2 DEF CheckFd, Event
  <2> QED BY <2>6, <2>7
<1> QED BY <1>4, <1>5

\* fdwatch_add_fd is an Add, fdwatch_del_fd a Delete.
LEMMA AddImplements ==
  ASSUME FdInv, ReadyInv, NEW fd \in Fd, AddFd(fd)
  PROVE  List!Add(fd)
<1>1. PICK rw \in {"READ", "WRITE"}, data \in Client :
        /\ fd_rw' = [fd_rw EXCEPT ![fd] = rw]
        /\ fd_data' = [fd_data EXCEPT ![fd] = data]
  BY DEF AddFd
<1>2. fd \notin List!Watched
  BY SameWatched DEF AddFd, IsWatched
<1>3. ListWatch' = [ListWatch EXCEPT ![fd] = [rw |-> rw, data |-> data]]
  BY <1>1 DEF ListWatch, FdInv, FdTypeOK, ReadyInv
<1>4. Said' = Said
  <2>1. asked' = asked
    BY DEF AddFd
  <2>2. \A g \in asked : CheckFd(g)' = CheckFd(g)
    BY <2>1, SaidStays
  <2> QED BY <2>1, <2>2 DEF Said
<1>5. Pending' = Pending
  BY DEF AddFd, Pending
<1> QED BY <1>2, <1>3, <1>4, <1>5 DEF List!Add, ListWatch

LEMMA DeleteImplements ==
  ASSUME FdInv, ReadyInv, NEW fd \in Fd, DelFd(fd)
  PROVE  List!Delete(fd)
<1>1. fd \in List!Watched
  BY SameWatched DEF DelFd, IsWatched
<1>2. ListWatch' = [ListWatch EXCEPT ![fd] = List!Nothing]
  BY DEF DelFd, ListWatch, FdInv, FdTypeOK, ReadyInv, List!Nothing
<1>3. Said' = [Said EXCEPT ![fd] = "not asked"]
  <2>1. asked' = asked \ {fd}
    BY DEF DelFd
  <2>2. \A g \in asked' : CheckFd(g)' = CheckFd(g)
    BY <2>1, SaidStays
  <2> QED BY <2>1, <2>2 DEF Said
<1>4. Pending' = Pending
  BY DEF DelFd, Pending
<1> QED BY <1>1, <1>2, <1>3, <1>4 DEF List!Delete, ListWatch

\* fdwatch is a Poll: every watched descriptor, and no other, has an answer, and
\* those found ready are watched.
LEMMA PollImplements ==
  ASSUME FdInv, ReadyInv, Watch
  PROVE  List!Poll
<1> USE NfilesAssumption
<1>1. PICK result \in [Polled -> Revents] :
        /\ \A i \in Polled : result[i] \in {pollfds[i].events, "ERR", "NONE"}
        /\ \A i \in Polled : pollfds'[i].revents = result[i]
        /\ \A fd : fd \in Pending' <=>
             \E i \in {i \in Polled : result[i] # "NONE"} : pollfds[i].fd = fd
  BY WatchFinds
<1>2. /\ UNCHANGED <<fd_rw, fd_data, npoll_fds, poll_fdidx>>
      /\ asked' = {fd \in Fd : fd_rw[fd] # "NONE"}
  BY DEF Watch
<1>3. /\ Said' \in [Fd -> {"ready", "not ready", "not asked"}]
      /\ \A fd \in Fd : Said'[fd] = "not asked" <=> fd \notin List!Watched
  BY <1>2, SameWatched DEF Said, IsWatched
<1>4. Pending' \in SUBSET List!Watched
  <2> SUFFICES ASSUME NEW fd \in Pending' PROVE fd \in List!Watched
    OBVIOUS
  <2>1. PICK i \in Polled : pollfds[i].fd = fd
    BY <1>1
  <2>2. fd \in Fd /\ poll_fdidx[fd] = i /\ i # -1
    BY <2>1 DEF FdInv, ArraysInverse, Polled
  <2> QED BY <2>2, SameWatched DEF FdInv, ArraysInverse
<1>5. ASSUME NEW fd \in Fd, Said'[fd] = "ready" PROVE fd \in Pending'
  <2>1. fd_rw[fd] # "NONE" /\ CheckFd(fd)'
    BY <1>2, <1>5 DEF Said
  <2>2. poll_fdidx[fd] \in Polled /\ pollfds[poll_fdidx[fd]].fd = fd
    BY <2>1 DEF FdInv, ArraysInverse, IsWatched
  <2>3. result[poll_fdidx[fd]] = Event(fd_rw[fd])
    BY <1>1, <1>2, <2>1, <2>2 DEF CheckFd, Event
  <2> QED BY <1>1, <2>2, <2>3 DEF Event
<1>6. ListWatch' = ListWatch
  BY <1>2 DEF ListWatch
<1> QED BY <1>3, <1>4, <1>5, <1>6 DEF List!Poll, ListWatch

\* fdwatch_get_next_client_data is a HandOut: the list names a descriptor once.
LEMMA HandOutImplements ==
  ASSUME FdInv, ReadyInv, GetNextClientData
  PROVE  \E fd \in Fd : List!HandOut(fd)
<1>1. /\ poll_rfdidx' = Tail(poll_rfdidx) /\ poll_rfdidx # <<>>
      /\ poll_rfdidx \in Seq(Fd)
  BY DEF GetNextClientData, ReadyInv
<1>2. /\ Len(poll_rfdidx) \in Nat \ {0}
      /\ DOMAIN poll_rfdidx = 1 .. Len(poll_rfdidx)
      /\ DOMAIN poll_rfdidx' = 1 .. Len(poll_rfdidx) - 1
      /\ \A k \in DOMAIN poll_rfdidx' : poll_rfdidx'[k] = poll_rfdidx[k + 1]
      /\ poll_rfdidx[1] \in Fd
  BY <1>1
<1> DEFINE fd == poll_rfdidx[1]
<1>3. fd \in Pending
  BY <1>2 DEF Pending
<1>4. \A k \in DOMAIN poll_rfdidx : poll_rfdidx[k] = fd => k = 1
  BY <1>2 DEF ReadyInv
<1>5. Pending' = Pending \ {fd}
  <2>1. ASSUME NEW g \in Pending' PROVE g \in Pending \ {fd}
    <3>1. PICK k \in DOMAIN poll_rfdidx' : poll_rfdidx'[k] = g
      BY <2>1 DEF Pending
    <3>2. k + 1 \in DOMAIN poll_rfdidx /\ k + 1 # 1 /\ poll_rfdidx[k + 1] = g
      BY <1>2, <3>1
    <3> QED BY <3>2, <1>4 DEF Pending
  <2>2. ASSUME NEW g \in Pending \ {fd} PROVE g \in Pending'
    <3>1. PICK k \in DOMAIN poll_rfdidx : poll_rfdidx[k] = g
      BY <2>2 DEF Pending
    <3>2. k # 1
      BY <2>2, <3>1
    <3>3. k - 1 \in DOMAIN poll_rfdidx' /\ poll_rfdidx'[k - 1] = g
      BY <1>2, <3>1, <3>2
    <3> QED BY <3>3 DEF Pending
  <2> QED BY <2>1, <2>2
<1>6. ListWatch' = ListWatch /\ Said' = Said
  BY DEF GetNextClientData, ListWatch, Said, CheckFd, Event, pollVars
<1> QED BY <1>2, <1>3, <1>5, <1>6 DEF List!HandOut, ListWatch

\* Every step of the arrays is a step of the list or none.
LEMMA StepImplements ==
  ASSUME FdInv, ReadyInv, [FdNext]_fvars
  PROVE  [List!Next]_List!wvars
<1>1. ASSUME NEW fd \in Fd, AddFd(fd) PROVE List!Next
  BY <1>1, AddImplements DEF List!Next
<1>2. ASSUME NEW fd \in Fd, DelFd(fd) PROVE List!Next
  BY <1>2, DeleteImplements DEF List!Next
<1>3. CASE Watch
  BY <1>3, PollImplements DEF List!Next
<1>4. CASE WatchFails
  <2>1. Pending' = {}
    BY <1>4 DEF WatchFails, Pending
  <2>2. ListWatch' = ListWatch /\ Said' = Said
    BY <1>4 DEF WatchFails, ListWatch, Said, CheckFd, Event, pollVars
  <2> QED BY <2>1, <2>2 DEF List!PollFails, List!Next, ListWatch
<1>5. CASE GetNextClientData
  BY <1>5, HandOutImplements DEF List!Next
<1>6. CASE UNCHANGED fvars
  <2>1. Pending' = Pending
    BY <1>6 DEF fvars, Pending
  <2>2. ListWatch' = ListWatch /\ Said' = Said
    BY <1>6 DEF fvars, ListWatch, Said, CheckFd, Event, pollVars
  <2> QED BY <2>1, <2>2 DEF List!wvars, ListWatch
<1> QED BY <1>1, <1>2, <1>3, <1>4, <1>5, <1>6 DEF FdNext

(***************************************************************************)
(* The arrays implement the list: what poll() said of a descriptor stays   *)
(* with it when other descriptors are deleted and its entry moves, and     *)
(* each descriptor found ready is handed out once.                         *)
(***************************************************************************)
THEOREM WatchListImplemented == FdSpec => ImplementsWatchList
<1>1. FdInit => FdInv /\ ReadyInv /\ List!Init
  BY FdInitEstablishes, InitReady, InitImplements
<1>2. FdInv /\ ReadyInv /\ [FdNext]_fvars => (FdInv /\ ReadyInv)' /\ [List!Next]_List!wvars
  BY FdNextPreserves, StepReady, StepImplements
<1> QED BY <1>1, <1>2, PTL DEF FdSpec, ImplementsWatchList, List!Spec

-----------------------------------------------------------------------------
(***************************************************************************)
(* Sequences.                                                              *)
(***************************************************************************)
\* A set of naturals that is not empty has a least element.
LEMMA LeastExists ==
  ASSUME NEW T \in SUBSET Nat, T # {}
  PROVE  \E x \in T : \A y \in T : x <= y
<1> DEFINE R == OpToRel(<, Nat)
<1>1. IsWellFoundedOn(R, Nat)
  BY NatLessThanWellFounded
<1>2. \E x \in T : \A y \in T : <<y, x>> \notin R
  <2> HIDE DEF R
  <2> QED BY <1>1, WFMin
<1>3. PICK x \in T : \A y \in T : <<y, x>> \notin R
  BY <1>2
<1>4. ASSUME NEW y \in T PROVE x <= y
  <2>1. ~ (y < x)
    BY <1>3 DEF OpToRel
  <2> QED BY <2>1
<1> QED BY <1>4

\* What concatenation puts where.
LEMMA Concatenated ==
  ASSUME NEW S, NEW a \in Seq(S), NEW b \in Seq(S)
  PROVE  /\ a \o b \in Seq(S)
         /\ Len(a \o b) = Len(a) + Len(b)
         /\ \A k \in 1 .. Len(a) + Len(b) :
              (a \o b)[k] = IF k <= Len(a) THEN a[k] ELSE b[k - Len(a)]
OBVIOUS

\* What InsertAt puts where.
LEMMA Inserted ==
  ASSUME NEW S, NEW list \in Seq(S), NEW x \in S, NEW i \in 1 .. Len(list) + 1
  PROVE  /\ InsertAt(list, i, x) \in Seq(S)
         /\ Len(InsertAt(list, i, x)) = Len(list) + 1
         /\ \A k \in 1 .. Len(list) + 1 :
              InsertAt(list, i, x)[k] = IF k < i THEN list[k]
                                        ELSE IF k = i THEN x ELSE list[k - 1]
<1> DEFINE a == SubSeq(list, 1, i - 1)
           b == SubSeq(list, i, Len(list))
<1>1. /\ a \in Seq(S) /\ Len(a) = i - 1 /\ \A k \in 1 .. i - 1 : a[k] = list[k]
      /\ b \in Seq(S) /\ Len(b) = Len(list) - i + 1
      /\ \A k \in 1 .. Len(list) - i + 1 : b[k] = list[i + k - 1]
  OBVIOUS
<1>2. InsertAt(list, i, x) = a \o <<x>> \o b
  BY DEF InsertAt
<1> HIDE DEF a, b
<1>3. /\ a \o <<x>> \in Seq(S) /\ Len(a \o <<x>>) = i
      /\ \A k \in 1 .. i : (a \o <<x>>)[k] = IF k < i THEN list[k] ELSE x
  BY <1>1
<1> DEFINE c == a \o <<x>>
<1>4. /\ c \in Seq(S) /\ Len(c) = i
      /\ \A k \in 1 .. i : c[k] = IF k < i THEN list[k] ELSE x
  BY <1>3
<1>5. InsertAt(list, i, x) = c \o b
  BY <1>2
<1> HIDE DEF c
<1>0. Len(list) \in Nat /\ i \in Nat /\ i + (Len(list) - i + 1) = Len(list) + 1
  OBVIOUS
<1>6. /\ c \o b \in Seq(S) /\ Len(c \o b) = Len(list) + 1
      /\ \A k \in 1 .. Len(list) + 1 :
           (c \o b)[k] = IF k <= i THEN c[k] ELSE b[k - i]
  <2>1. /\ c \o b \in Seq(S) /\ Len(c \o b) = Len(c) + Len(b)
        /\ \A k \in 1 .. Len(c) + Len(b) :
             (c \o b)[k] = IF k <= Len(c) THEN c[k] ELSE b[k - Len(c)]
    BY <1>1, <1>4, Concatenated
  <2>2. Len(c) = i /\ Len(c) + Len(b) = Len(list) + 1
    BY <1>0, <1>1, <1>4
  <2> QED BY <2>1, <2>2
<1>7. ASSUME NEW k \in 1 .. Len(list) + 1
      PROVE  (c \o b)[k] = IF k < i THEN list[k] ELSE IF k = i THEN x ELSE list[k - 1]
  <2>1. CASE k <= i BY <2>1, <1>4, <1>6
  <2>2. CASE k > i
    <3>1. k - i \in 1 .. Len(list) - i + 1 /\ i + (k - i) - 1 = k - 1
      BY <2>2
    <3>2. b[k - i] = list[i + (k - i) - 1]
      BY <3>1, <1>1
    <3>3. (c \o b)[k] = b[k - i]
      BY <2>2, <1>6, <1>0
    <3> QED BY <2>2, <3>1, <3>2, <3>3, <1>0
  <2>3. k \in Int /\ (k <= i \/ k > i)
    BY <1>0
  <2> QED BY <2>1, <2>2, <2>3
<1> QED BY <1>5, <1>6, <1>7

\* What RemoveAt leaves where.
LEMMA Removed ==
  ASSUME NEW S, NEW list \in Seq(S), NEW i \in 1 .. Len(list)
  PROVE  /\ RemoveAt(list, i) \in Seq(S)
         /\ Len(RemoveAt(list, i)) = Len(list) - 1
         /\ \A k \in 1 .. Len(list) - 1 :
              RemoveAt(list, i)[k] = IF k < i THEN list[k] ELSE list[k + 1]
<1> DEFINE a == SubSeq(list, 1, i - 1)
           b == SubSeq(list, i + 1, Len(list))
<1>1. /\ a \in Seq(S) /\ Len(a) = i - 1 /\ \A k \in 1 .. i - 1 : a[k] = list[k]
      /\ b \in Seq(S) /\ Len(b) = Len(list) - i
      /\ \A k \in 1 .. Len(list) - i : b[k] = list[i + k]
  OBVIOUS
<1>2. RemoveAt(list, i) = a \o b
  BY DEF RemoveAt
<1> HIDE DEF a, b
<1>0. Len(list) \in Nat /\ i \in Nat /\ (i - 1) + (Len(list) - i) = Len(list) - 1
  OBVIOUS
<1>3. /\ a \o b \in Seq(S) /\ Len(a \o b) = Len(list) - 1
      /\ \A k \in 1 .. Len(list) - 1 :
           (a \o b)[k] = IF k <= i - 1 THEN a[k] ELSE b[k - (i - 1)]
  <2>1. /\ a \o b \in Seq(S) /\ Len(a \o b) = Len(a) + Len(b)
        /\ \A k \in 1 .. Len(a) + Len(b) :
             (a \o b)[k] = IF k <= Len(a) THEN a[k] ELSE b[k - Len(a)]
    BY <1>1, Concatenated
  <2>2. Len(a) = i - 1 /\ Len(a) + Len(b) = Len(list) - 1
    BY <1>0, <1>1
  <2> QED BY <2>1, <2>2
<1>4. ASSUME NEW k \in 1 .. Len(list) - 1
      PROVE  (a \o b)[k] = IF k < i THEN list[k] ELSE list[k + 1]
  <2>1. CASE k < i BY <2>1, <1>1, <1>3
  <2>2. CASE k >= i
    <3>1. k - (i - 1) \in 1 .. Len(list) - i /\ i + (k - (i - 1)) = k + 1
      BY <2>2
    <3> QED BY <2>2, <3>1, <1>1, <1>3
  <2>3. k \in Int /\ (k < i \/ k >= i)
    BY <1>0
  <2> QED BY <2>1, <2>2, <2>3
<1> QED BY <1>2, <1>3, <1>4

\* The members of a sequence with one more.
LEMMA InsertedMembers ==
  ASSUME NEW S, NEW list \in Seq(S), NEW x \in S, NEW i \in 1 .. Len(list) + 1
  PROVE  ToSet(InsertAt(list, i, x)) = ToSet(list) \cup {x}
<1> DEFINE new == InsertAt(list, i, x)
<1>1. /\ new \in Seq(S) /\ Len(new) = Len(list) + 1
      /\ \A k \in 1 .. Len(list) + 1 :
           new[k] = IF k < i THEN list[k] ELSE IF k = i THEN x ELSE list[k - 1]
  BY Inserted
<1> HIDE DEF new
<1>2. DOMAIN new = 1 .. Len(list) + 1 /\ DOMAIN list = 1 .. Len(list) /\ Len(list) \in Nat
  BY <1>1
<1>3. ASSUME NEW k \in DOMAIN list PROVE \E m \in DOMAIN new : new[m] = list[k]
  <2>1. CASE k < i BY <2>1, <1>1, <1>2
  <2>2. CASE ~ (k < i)
    <3>1. k + 1 \in DOMAIN new /\ new[k + 1] = list[k + 1 - 1]
      BY <2>2, <1>1, <1>2
    <3> QED BY <3>1, <1>2
  <2> QED BY <2>1, <2>2
<1>4. ASSUME NEW k \in DOMAIN new PROVE new[k] = x \/ \E m \in DOMAIN list : new[k] = list[m]
  <2>1. CASE k < i BY <2>1, <1>1, <1>2
  <2>2. CASE k > i
    <3>1. k - 1 \in DOMAIN list /\ new[k] = list[k - 1]
      BY <2>2, <1>1, <1>2
    <3> QED BY <3>1
  <2>3. CASE k = i BY <2>3, <1>1, <1>2
  <2> QED BY <2>1, <2>2, <2>3, <1>2
<1>5. i \in DOMAIN new /\ new[i] = x
  BY <1>1, <1>2
<1> QED BY <1>3, <1>4, <1>5 DEF ToSet, new

\* The members of a sequence without the one at a place, when it is only there.
LEMMA RemovedMembers ==
  ASSUME NEW S, NEW list \in Seq(S), NEW i \in 1 .. Len(list),
         \A j, k \in 1 .. Len(list) : j < k => list[j] # list[k]
  PROVE  ToSet(RemoveAt(list, i)) = ToSet(list) \ {list[i]}
<1> DEFINE new == RemoveAt(list, i)
<1>1. /\ new \in Seq(S) /\ Len(new) = Len(list) - 1
      /\ \A k \in 1 .. Len(list) - 1 :
           new[k] = IF k < i THEN list[k] ELSE list[k + 1]
  BY Removed
<1> HIDE DEF new
<1>2. DOMAIN new = 1 .. Len(list) - 1 /\ DOMAIN list = 1 .. Len(list) /\ Len(list) \in Nat
  BY <1>1
<1>3. ASSUME NEW k \in DOMAIN list, k # i PROVE \E m \in DOMAIN new : new[m] = list[k]
  <2>1. CASE k < i BY <2>1, <1>1, <1>2
  <2>2. CASE k > i
    <3>1. k - 1 \in DOMAIN new /\ new[k - 1] = list[k - 1 + 1]
      BY <2>2, <1>1, <1>2
    <3> QED BY <3>1, <1>2
  <2> QED BY <2>1, <2>2, <1>2, <1>3
<1>4. ASSUME NEW k \in DOMAIN new PROVE \E m \in DOMAIN list : m # i /\ new[k] = list[m]
  <2>1. CASE k < i BY <2>1, <1>1, <1>2
  <2>2. CASE k >= i
    <3>1. k + 1 \in DOMAIN list /\ new[k] = list[k + 1] /\ k + 1 # i
      BY <2>2, <1>1, <1>2
    <3> QED BY <3>1
  <2> QED BY <2>1, <2>2, <1>2
<1>5. \A m \in DOMAIN list : m # i => list[m] # list[i]
  BY <1>2
<1> QED BY <1>3, <1>4, <1>5 DEF ToSet, new

-----------------------------------------------------------------------------
(***************************************************************************)
(* The lists of a package.                                                 *)
(***************************************************************************)
\* Every time hashes to one of the lists, of which there is a first.
LEMMA BucketFacts ==
  /\ \A time \in Nat : Hash(time) \in Bucket
  /\ 0 \in Bucket /\ Bucket \subseteq Nat
BY TimersAssumption DEF Hash, Bucket

\* A scheduled timer is in the list its hash names.
LEMMA InItsList ==
  ASSUME NEW p \in Package, Sorted(p), NEW tm
  PROVE  /\ tm \in ListedIn(p) <=>
              \E b \in Bucket : \E i \in DOMAIN p.timers[b] : p.timers[b][i] = tm
         /\ tm \in ListedIn(p) =>
              /\ tm \in Timer /\ p.struct[tm].hash \in Bucket
              /\ tm \in ToSet(p.timers[p.struct[tm].hash])
<1>1. \A b \in Bucket : p.timers[b] \in Seq(Timer)
  BY DEF Package
<1>2. tm \in ListedIn(p) <=>
        \E b \in Bucket : \E i \in DOMAIN p.timers[b] : p.timers[b][i] = tm
  BY DEF ListedIn, ToSet
<1>3. ASSUME NEW b \in Bucket, NEW i \in DOMAIN p.timers[b], p.timers[b][i] = tm
      PROVE  /\ tm \in Timer /\ p.struct[tm].hash = b
             /\ tm \in ToSet(p.timers[b])
  <2>1. tm \in Timer
    BY <1>1, <1>3
  <2>2. p.struct[tm].hash = b
    BY <1>3 DEF Sorted
  <2> QED BY <1>3, <2>1, <2>2 DEF ToSet
<1> QED BY <1>2, <1>3

\* The place of a scheduled timer in its list.
LEMMA PlaceRight ==
  ASSUME NEW p \in Package, Sorted(p), NEW tm \in ListedIn(p)
  PROVE  LET list == p.timers[p.struct[tm].hash]
         IN  Place(p, tm) \in 1 .. Len(list) /\ list[Place(p, tm)] = tm
<1> DEFINE list == p.timers[p.struct[tm].hash]
<1>1. p.struct[tm].hash \in Bucket /\ tm \in ToSet(list)
  BY InItsList
<1>2. list \in Seq(Timer)
  BY <1>1 DEF Package
<1>3. \E i \in DOMAIN list : list[i] = tm
  BY <1>1 DEF ToSet
<1>4. Place(p, tm) \in DOMAIN list /\ list[Place(p, tm)] = tm
  BY <1>3 DEF Place
<1> QED BY <1>2, <1>4

\* No list holds a timer twice.
LEMMA OncePerList ==
  ASSUME NEW p \in Package, Sorted(p), NEW b \in Bucket
  PROVE  /\ p.timers[b] \in Seq(Timer)
         /\ \A j, k \in 1 .. Len(p.timers[b]) :
              j < k => p.timers[b][j] # p.timers[b][k]
<1>1. p.timers[b] \in Seq(Timer)
  BY DEF Package
<1>2. DOMAIN p.timers[b] = 1 .. Len(p.timers[b])
  BY <1>1
<1> QED BY <1>1, <1>2 DEF Sorted

\* l_remove takes one timer out of its list and leaves the lists sorted.
LEMMA LRemoveKeeps ==
  ASSUME NEW p \in Package, Sorted(p), NEW tm \in ListedIn(p)
  PROVE  /\ LRemove(p, tm).timers \in [Bucket -> Seq(Timer)]
         /\ LRemove(p, tm) = [p EXCEPT !.timers = LRemove(p, tm).timers]
         /\ Sorted(LRemove(p, tm))
         /\ ListedIn(LRemove(p, tm)) = ListedIn(p) \ {tm}
<1> DEFINE q == LRemove(p, tm)
           b == p.struct[tm].hash
           list == p.timers[b]
           new == RemoveAt(list, Place(p, tm))
<1>1. b \in Bucket /\ tm \in ToSet(list)
  BY InItsList
<1>2. /\ list \in Seq(Timer)
      /\ \A j, k \in 1 .. Len(list) : j < k => list[j] # list[k]
  BY <1>1, OncePerList
<1>3. Place(p, tm) \in 1 .. Len(list) /\ list[Place(p, tm)] = tm
  BY PlaceRight
<1>4. /\ new \in Seq(Timer) /\ Len(new) = Len(list) - 1
      /\ \A k \in 1 .. Len(list) - 1 :
           new[k] = IF k < Place(p, tm) THEN list[k] ELSE list[k + 1]
  BY <1>2, <1>3, Removed
<1>5. ToSet(new) = ToSet(list) \ {tm}
  BY <1>2, <1>3, RemovedMembers
<1>6. /\ q.timers = [p.timers EXCEPT ![b] = new]
      /\ q = [p EXCEPT !.timers = q.timers]
      /\ q.struct = p.struct
  BY DEF LRemove, Package
<1>7. q.timers \in [Bucket -> Seq(Timer)]
  BY <1>4, <1>6 DEF Package
<1> HIDE DEF q, new
<1>8. \A c \in Bucket : q.timers[c] = IF c = b THEN new ELSE p.timers[c]
  BY <1>6 DEF Package
<1>9. Sorted(q)
  <2> SUFFICES ASSUME NEW c \in Bucket
      PROVE  /\ \A i \in DOMAIN q.timers[c] : /\ q.struct[q.timers[c][i]].hash = c
                                               /\ Hash(q.struct[q.timers[c][i]].time) = c
             /\ \A i, j \in DOMAIN q.timers[c] :
                  i < j => /\ q.timers[c][i] # q.timers[c][j]
                           /\ q.struct[q.timers[c][i]].time <= q.struct[q.timers[c][j]].time
    BY DEF Sorted
  <2>1. CASE c # b
    BY <2>1, <1>6, <1>8 DEF Sorted
  <2>2. CASE c = b
    <3> DEFINE At(k) == IF k < Place(p, tm) THEN k ELSE k + 1
    <3>1. q.timers[c] = new /\ DOMAIN new = 1 .. Len(list) - 1 /\ DOMAIN list = 1 .. Len(list)
      BY <2>2, <1>2, <1>4, <1>8
    <3>2. \A k \in DOMAIN new : At(k) \in DOMAIN list /\ new[k] = list[At(k)]
      BY <3>1, <1>2, <1>3, <1>4
    <3>3. \A j, k \in DOMAIN new : j < k => At(j) < At(k)
      BY <3>1, <1>2, <1>3
    <3>4. /\ \A i \in DOMAIN list : /\ p.struct[list[i]].hash = b
                                     /\ Hash(p.struct[list[i]].time) = b
          /\ \A i, j \in DOMAIN list :
               i < j => /\ list[i] # list[j]
                        /\ p.struct[list[i]].time <= p.struct[list[j]].time
      BY <1>1 DEF Sorted
    <3> HIDE DEF At, list
    <3> QED BY <3>1, <3>2, <3>3, <3>4, <2>2, <1>6
  <2> QED BY <2>1, <2>2
<1>10. ListedIn(q) = ListedIn(p) \ {tm}
  <2>1. \A c \in Bucket : c # b => tm \notin ToSet(p.timers[c])
    BY DEF Sorted, ToSet
  <2>2. \A c \in Bucket : ToSet(q.timers[c]) = ToSet(p.timers[c]) \ {tm}
    BY <2>1, <1>5, <1>8
  <2> QED BY <2>2 DEF ListedIn
<1> QED BY <1>6, <1>7, <1>9, <1>10 DEF q

\* Where l_add puts a timer: after the earlier ones, before the others.
LEMMA InsertionPoint ==
  ASSUME NEW n \in Nat, NEW later \in SUBSET (1 .. n)
  PROVE  LET at == Min(later \cup {n + 1})
         IN  /\ at \in 1 .. n + 1
             /\ \A i \in 1 .. n : i < at => i \notin later
             /\ at # n + 1 => at \in later
<1> DEFINE S == later \cup {n + 1}
<1>1. S \in SUBSET Nat /\ S # {}
  OBVIOUS
<1>2. \E x \in S : \A y \in S : x <= y
  BY <1>1, LeastExists
<1>3. Min(S) \in S /\ \A y \in S : Min(S) <= y
  BY <1>2 DEF Min
<1> DEFINE at == Min(S)
<1>4. at \in 1 .. n + 1
  <2>1. \A x \in S : x \in 1 .. n + 1
    OBVIOUS
  <2>2. at \in S
    BY <1>3
  <2> HIDE DEF S, at
  <2> QED BY <2>1, <2>2
<1>5. \A y \in later : at <= y
  BY <1>3
<1>6. at # n + 1 => at \in later
  BY <1>3
<1> HIDE DEF at
<1>7. \A i \in 1 .. n : i < at => i \notin later
  BY <1>4, <1>5
<1> QED BY <1>4, <1>6, <1>7 DEF at

\* l_add puts one timer into the list its hash names and leaves the lists sorted.
LEMMA LAddKeeps ==
  ASSUME NEW p \in Package, Sorted(p), NEW tm \in Timer, tm \notin ListedIn(p),
         p.struct[tm].hash = Hash(p.struct[tm].time)
  PROVE  /\ LAdd(p, tm).timers \in [Bucket -> Seq(Timer)]
         /\ LAdd(p, tm) = [p EXCEPT !.timers = LAdd(p, tm).timers]
         /\ Sorted(LAdd(p, tm))
         /\ ListedIn(LAdd(p, tm)) = ListedIn(p) \cup {tm}
<1> DEFINE q == LAdd(p, tm)
           b == p.struct[tm].hash
           list == p.timers[b]
           later == {i \in DOMAIN list : p.struct[tm].time <= p.struct[list[i]].time}
           at == Min(later \cup {Len(list) + 1})
           new == InsertAt(list, at, tm)
<1>1. b \in Bucket /\ p.struct[tm].time \in Nat
  BY DEF Package, Struct
<1>2. /\ list \in Seq(Timer) /\ DOMAIN list = 1 .. Len(list) /\ Len(list) \in Nat
      /\ \A i \in DOMAIN list : list[i] \in Timer /\ p.struct[list[i]].time \in Nat
  <2>1. list \in Seq(Timer)
    BY <1>1, OncePerList
  <2> HIDE DEF list
  <2> QED BY <2>1 DEF Package, Struct
<1>3. /\ at \in 1 .. Len(list) + 1
      /\ \A i \in DOMAIN list :
           i < at => ~ (p.struct[tm].time <= p.struct[list[i]].time)
      /\ at # Len(list) + 1 =>
           /\ at \in DOMAIN list
           /\ p.struct[tm].time <= p.struct[list[at]].time
  <2>1. later \in SUBSET (1 .. Len(list))
    BY <1>2
  <2>2. /\ at \in 1 .. Len(list) + 1
        /\ \A i \in 1 .. Len(list) : i < at => i \notin later
        /\ at # Len(list) + 1 => at \in later
    <3> HIDE DEF later, list
    <3> QED BY <2>1, <1>2, InsertionPoint
  <2> HIDE DEF at
  <2> QED BY <2>2, <1>2
<1>4. /\ new \in Seq(Timer) /\ Len(new) = Len(list) + 1
      /\ \A k \in 1 .. Len(list) + 1 :
           new[k] = IF k < at THEN list[k] ELSE IF k = at THEN tm ELSE list[k - 1]
  <2> HIDE DEF list, at
  <2> QED BY <1>2, <1>3, Inserted
<1>5. ToSet(new) = ToSet(list) \cup {tm}
  <2> HIDE DEF list, at
  <2> QED BY <1>2, <1>3, InsertedMembers
<1>6. /\ q.timers = [p.timers EXCEPT ![b] = new]
      /\ q = [p EXCEPT !.timers = q.timers]
      /\ q.struct = p.struct
  BY DEF LAdd, Package
<1> HIDE DEF at, later, new
<1>7. q.timers \in [Bucket -> Seq(Timer)]
  BY <1>4, <1>6 DEF Package
<1> HIDE DEF q
<1>8. \A c \in Bucket : q.timers[c] = IF c = b THEN new ELSE p.timers[c]
  BY <1>6 DEF Package
<1>9. Sorted(q)
  <2> SUFFICES ASSUME NEW c \in Bucket
      PROVE  /\ \A i \in DOMAIN q.timers[c] : /\ q.struct[q.timers[c][i]].hash = c
                                               /\ Hash(q.struct[q.timers[c][i]].time) = c
             /\ \A i, j \in DOMAIN q.timers[c] :
                  i < j => /\ q.timers[c][i] # q.timers[c][j]
                           /\ q.struct[q.timers[c][i]].time <= q.struct[q.timers[c][j]].time
    BY DEF Sorted
  <2>1. CASE c # b
    BY <2>1, <1>6, <1>8 DEF Sorted
  <2>2. CASE c = b
    <3> DEFINE At(k) == IF k < at THEN k ELSE k - 1
    <3> HIDE DEF list
    <3>1. q.timers[c] = new /\ DOMAIN new = 1 .. Len(list) + 1
      BY <2>2, <1>4, <1>8
    <3>2. \A k \in DOMAIN new : k # at => At(k) \in DOMAIN list /\ new[k] = list[At(k)]
      BY <3>1, <1>2, <1>3, <1>4
    <3>3. \A j, k \in DOMAIN new : j < k /\ j # at /\ k # at => At(j) < At(k)
      BY <3>1, <1>2, <1>3
    <3>4. \A k \in DOMAIN new : k # at =>
            /\ k < at => At(k) < at
            /\ k > at => at \in DOMAIN list /\ at <= At(k)
      <4> SUFFICES ASSUME NEW k \in DOMAIN new, k # at
          PROVE  /\ k < at => At(k) < at
                 /\ k > at => at \in DOMAIN list /\ at <= At(k)
        OBVIOUS
      <4>1. k \in Int /\ at \in Int /\ k <= Len(list) + 1 /\ 1 <= at
        BY <3>1, <1>2, <1>3
      <4> QED BY <4>1, <1>2
    <3>5. /\ \A i \in DOMAIN list : /\ p.struct[list[i]].hash = b
                                     /\ Hash(p.struct[list[i]].time) = b
          /\ \A i, j \in DOMAIN list :
               i < j => /\ list[i] # list[j]
                        /\ p.struct[list[i]].time <= p.struct[list[j]].time
      BY <1>1 DEF Sorted, list
    <3>6. \A i \in DOMAIN list : list[i] # tm
      BY <1>1 DEF ListedIn, ToSet, list
    <3>7. new[at] = tm
      BY <1>2, <1>3, <1>4
    <3>8. \A i \in DOMAIN list : i >= at => p.struct[tm].time <= p.struct[list[i]].time
      <4> SUFFICES ASSUME NEW i \in DOMAIN list, i >= at
          PROVE  p.struct[tm].time <= p.struct[list[i]].time
        OBVIOUS
      <4>1. at \in DOMAIN list /\ p.struct[tm].time <= p.struct[list[at]].time
        BY <1>2, <1>3
      <4>2. at = i \/ at < i
        BY <4>1, <1>2
      <4>3. p.struct[list[at]].time <= p.struct[list[i]].time
        <5>1. CASE at = i BY <5>1, <1>2
        <5>2. CASE at < i BY <5>2, <4>1, <3>5
        <5> QED BY <4>2, <5>1, <5>2
      <4> QED BY <4>1, <4>3, <1>1, <1>2
    <3>9. \A i \in DOMAIN list : i < at => p.struct[list[i]].time <= p.struct[tm].time
      BY <1>1, <1>2, <1>3
    <3> HIDE DEF At
    <3>10. ASSUME NEW i \in DOMAIN new
           PROVE  q.struct[new[i]].hash = c /\ Hash(q.struct[new[i]].time) = c
      <4>1. CASE i = at BY <4>1, <3>7, <2>2, <1>6
      <4>2. CASE i # at BY <4>2, <3>2, <3>5, <2>2, <1>6
      <4> QED BY <4>1, <4>2
    <3>11. ASSUME NEW i \in DOMAIN new, NEW j \in DOMAIN new, i < j
           PROVE  /\ new[i] # new[j]
                  /\ q.struct[new[i]].time <= q.struct[new[j]].time
      <4>1. CASE i = at
        <5>1. j # at /\ j > at
          BY <4>1, <3>11, <3>1, <1>2
        <5> QED BY <4>1, <5>1, <3>2, <3>4, <3>6, <3>7, <3>8, <1>6
      <4>2. CASE j = at
        <5>1. i # at /\ i < at
          BY <4>2, <3>11, <3>1, <1>2
        <5> QED BY <4>2, <5>1, <3>2, <3>4, <3>6, <3>7, <3>9, <1>6
      <4>3. CASE i # at /\ j # at
        BY <4>3, <3>11, <3>2, <3>3, <3>5, <1>6
      <4> QED BY <4>1, <4>2, <4>3
    <3> QED BY <3>1, <3>10, <3>11
  <2> QED BY <2>1, <2>2
<1>10. ListedIn(q) = ListedIn(p) \cup {tm}
  <2>1. \A c \in Bucket : ToSet(q.timers[c]) = IF c = b THEN ToSet(p.timers[c]) \cup {tm}
                                                 ELSE ToSet(p.timers[c])
    BY <1>5, <1>8
  <2> QED BY <2>1, <1>1 DEF ListedIn
<1> QED BY <1>6, <1>7, <1>9, <1>10 DEF q

-----------------------------------------------------------------------------
(***************************************************************************)
(* What each call keeps: the package is of its type, in order, and every   *)
(* timer that the call is not about stays as it is.                        *)
(***************************************************************************)
InOrder(p) == p \in Package /\ Sorted(p) /\ Accounted(p)

\* The timers are finitely many.
LEMMA TimersFinite ==
  /\ IsFiniteSet(Timer) /\ Cardinality(Timer) = 2 * MaxConnects + 2
  /\ \A T \in SUBSET Timer : IsFiniteSet(T) /\ Cardinality(T) \in Nat
<1>1. MaxConnects \in Nat
  BY TimersAssumption
<1>2. IsFiniteSet(Timer) /\ Cardinality(Timer) = 2 * MaxConnects + 2
  BY <1>1, FS_Interval DEF Timer
<1> QED BY <1>2, FS_Subset, FS_CardinalityType

\* A scheduled timer is one of the timers, and has a struct.
LEMMA ListedFacts ==
  ASSUME NEW p \in Package, Sorted(p)
  PROVE  /\ ListedIn(p) \in SUBSET Timer
         /\ \A tm \in ListedIn(p) : p.struct[tm] \in Struct
BY InItsList DEF Package

\* The lists are as sorted as before when neither they nor the structs change.
LEMMA SameLists ==
  ASSUME NEW p, NEW q, q.timers = p.timers, q.struct = p.struct
  PROVE  /\ Sorted(p) => Sorted(q)
         /\ ListedIn(q) = ListedIn(p)
BY DEF Sorted, ListedIn

\* tmr_cancel: the timer is not scheduled any more, nothing else changes.
LEMMA CancelKeeps ==
  ASSUME NEW p, InOrder(p), NEW tm \in ListedIn(p)
  PROVE  /\ InOrder(TmrCancel(p, tm))
         /\ ListedIn(TmrCancel(p, tm)) = ListedIn(p) \ {tm}
         /\ TmrCancel(p, tm).struct = p.struct
<1> DEFINE q == LRemove(p, tm)
           r == TmrCancel(p, tm)
<1>0. p \in Package /\ Sorted(p) /\ Accounted(p) /\ tm \in Timer
  BY InItsList DEF InOrder
<1>1. /\ q.timers \in [Bucket -> Seq(Timer)]
      /\ q = [p EXCEPT !.timers = q.timers]
      /\ Sorted(q)
      /\ ListedIn(q) = ListedIn(p) \ {tm}
  BY <1>0, LRemoveKeeps
<1>2. r = [q EXCEPT !.free_timers = <<tm>> \o @,
                    !.active_count = @ - 1,
                    !.free_count = @ + 1]
  BY DEF TmrCancel
<1> HIDE DEF q, r
<1>3. /\ r.timers = q.timers /\ r.struct = p.struct
      /\ r.free_timers = <<tm>> \o p.free_timers
      /\ r.allocated = p.allocated
      /\ r.active_count = p.active_count - 1
      /\ r.free_count = p.free_count + 1
      /\ r.alloc_count = p.alloc_count
      /\ r = [timers |-> r.timers, free_timers |-> r.free_timers,
              allocated |-> r.allocated, struct |-> r.struct,
              active_count |-> r.active_count, free_count |-> r.free_count,
              alloc_count |-> r.alloc_count]
  BY <1>0, <1>1, <1>2 DEF Package
<1>4. ListedIn(r) = ListedIn(p) \ {tm}
  BY <1>1, <1>3 DEF ListedIn
<1>5. Sorted(r)
  <2>1. q.struct = p.struct
    BY <1>0, <1>1 DEF Package
  <2> QED BY <1>1, <1>3, <2>1, SameLists
<1>6. /\ p.free_timers \in Seq(Timer) /\ tm \notin ToSet(p.free_timers)
      /\ IsInjective(p.free_timers)
  BY <1>0 DEF Package, Accounted
<1>7. /\ r.free_timers \in Seq(Timer) /\ Len(r.free_timers) = Len(p.free_timers) + 1
      /\ ToSet(r.free_timers) = ToSet(p.free_timers) \cup {tm}
      /\ IsInjective(r.free_timers)
  <2> DEFINE f == p.free_timers
             g == r.free_timers
  <2>1. /\ g \in Seq(Timer) /\ Len(g) = Len(f) + 1 /\ g[1] = tm
        /\ \A k \in 1 .. Len(f) : g[k + 1] = f[k]
    BY <1>0, <1>3, <1>6
  <2>2. /\ DOMAIN f = 1 .. Len(f) /\ DOMAIN g = 1 .. Len(f) + 1 /\ Len(f) \in Nat
        /\ \A k \in DOMAIN g : k # 1 => k - 1 \in DOMAIN f /\ g[k] = f[k - 1]
    <3>1. DOMAIN f = 1 .. Len(f) /\ DOMAIN g = 1 .. Len(f) + 1 /\ Len(f) \in Nat
      BY <1>6, <2>1
    <3> HIDE DEF f, g
    <3> QED BY <2>1, <3>1
  <2>3. \A k \in DOMAIN f : f[k] # tm
    BY <1>6 DEF ToSet
  <2>4. \A j, k \in DOMAIN f : f[j] = f[k] => j = k
    BY <1>6 DEF IsInjective
  <2> HIDE DEF f, g
  <2>5. ASSUME NEW j \in DOMAIN g, NEW k \in DOMAIN g, g[j] = g[k] PROVE j = k
    <3>1. CASE j = 1 BY <3>1, <2>1, <2>2, <2>3, <2>5
    <3>2. CASE k = 1 BY <3>2, <2>1, <2>2, <2>3, <2>5
    <3>3. CASE j # 1 /\ k # 1
      <4>1. f[j - 1] = f[k - 1] /\ j - 1 \in DOMAIN f /\ k - 1 \in DOMAIN f
        BY <3>3, <2>2, <2>5
      <4> QED BY <4>1, <2>2, <2>4
    <3> QED BY <3>1, <3>2, <3>3
  <2>6. \A x : (\E k \in DOMAIN g : g[k] = x) <=> (x = tm \/ \E k \in DOMAIN f : f[k] = x)
    <3>1. ASSUME NEW k \in DOMAIN g PROVE g[k] = tm \/ \E m \in DOMAIN f : f[m] = g[k]
      BY <2>1, <2>2
    <3>2. ASSUME NEW k \in DOMAIN f PROVE \E m \in DOMAIN g : g[m] = f[k]
      BY <2>1, <2>2
    <3>3. 1 \in DOMAIN g
      BY <2>2
    <3> QED BY <3>1, <3>2, <3>3, <2>1
  <2>7. ToSet(g) = ToSet(f) \cup {tm}
    BY <2>6 DEF ToSet
  <2> QED BY <2>1, <2>5, <2>7 DEF f, g, IsInjective
<1>8. /\ Cardinality(ListedIn(r)) = Cardinality(ListedIn(p)) - 1
      /\ Cardinality(ListedIn(r)) \in Nat
  <2>1. IsFiniteSet(ListedIn(p)) /\ ListedIn(r) \in SUBSET Timer
    BY <1>0, <1>4, ListedFacts, TimersFinite
  <2> QED BY <1>4, <2>1, FS_RemoveElement, TimersFinite
<1>9. Accounted(r)
  BY <1>0, <1>3, <1>4, <1>6, <1>7, <1>8 DEF Accounted, Package
<1>10. r \in Package
  <2>1. r.active_count \in Nat /\ r.free_count \in Nat /\ r.alloc_count \in Nat
    BY <1>0, <1>3, <1>8, <1>9 DEF Accounted, Package
  <2> QED BY <1>0, <1>1, <1>3, <1>7, <2>1 DEF Package
<1> QED BY <1>3, <1>4, <1>5, <1>9, <1>10 DEF r, InOrder

\* There is a timer to take: a free one, or one malloc can return.
Room(p) == p.free_timers # <<>> \/ p.allocated # Timer

\* tmr_create takes a timer that is not scheduled, and no other free one.
LEMMA NextTimerFree ==
  ASSUME NEW p, InOrder(p), Room(p)
  PROVE  /\ NextTimer(p) \in Timer
         /\ NextTimer(p) \notin ListedIn(p)
         /\ p.free_timers # <<>> =>
              /\ NextTimer(p) \in p.allocated
              /\ Tail(p.free_timers) \in Seq(Timer)
              /\ Len(Tail(p.free_timers)) = Len(p.free_timers) - 1
              /\ Len(p.free_timers) - 1 \in Nat
              /\ IsInjective(Tail(p.free_timers))
              /\ ToSet(Tail(p.free_timers)) = ToSet(p.free_timers) \ {NextTimer(p)}
              /\ NextTimer(p) \in ToSet(p.free_timers)
         /\ p.free_timers = <<>> =>
              /\ NextTimer(p) \notin p.allocated
              /\ NextTimer(p) \notin ToSet(p.free_timers)
<1> DEFINE f == p.free_timers
           g == Tail(f)
<1>1. /\ f \in Seq(Timer) /\ p.allocated \in SUBSET Timer
      /\ ListedIn(p) \cap ToSet(f) = {}
      /\ p.allocated = ListedIn(p) \cup ToSet(f)
      /\ \A j, k \in DOMAIN f : f[j] = f[k] => j = k
  BY DEF InOrder, Package, Accounted, IsInjective
<1>2. CASE f # <<>>
  <2>1. NextTimer(p) = Head(f)
    BY <1>2 DEF NextTimer
  <2> HIDE DEF f
  <2>2. /\ g \in Seq(Timer) /\ Len(g) = Len(f) - 1 /\ Len(f) - 1 \in Nat
        /\ Head(f) = f[1]
        /\ \A k \in 1 .. Len(f) - 1 : g[k] = f[k + 1]
    BY <1>1, <1>2
  <2>3. DOMAIN f = 1 .. Len(f) /\ DOMAIN g = 1 .. Len(f) - 1 /\ Len(f) \in Nat
    BY <1>1, <2>2
  <2> HIDE DEF g
  <2>4. ASSUME NEW j \in DOMAIN g, NEW k \in DOMAIN g, g[j] = g[k] PROVE j = k
    <3>1. /\ j + 1 \in DOMAIN f /\ k + 1 \in DOMAIN f
          /\ f[j + 1] = f[k + 1]
      BY <2>2, <2>3, <2>4
    <3> QED BY <3>1, <1>1, <2>3
  <2>5. \A x : (\E k \in DOMAIN g : g[k] = x) <=> (x # f[1] /\ \E k \in DOMAIN f : f[k] = x)
    <3>1. ASSUME NEW k \in DOMAIN g PROVE g[k] # f[1] /\ \E m \in DOMAIN f : f[m] = g[k]
      <4>1. k + 1 \in DOMAIN f /\ g[k] = f[k + 1] /\ 1 \in DOMAIN f /\ k + 1 # 1
        BY <2>2, <2>3
      <4> QED BY <4>1, <1>1
    <3>2. ASSUME NEW k \in DOMAIN f, f[k] # f[1] PROVE \E m \in DOMAIN g : g[m] = f[k]
      <4>1. k - 1 \in DOMAIN g /\ g[k - 1] = f[k - 1 + 1]
        BY <2>2, <2>3, <3>2
      <4> QED BY <4>1, <2>3
    <3> QED BY <3>1, <3>2
  <2>6. ToSet(g) = ToSet(f) \ {f[1]}
    BY <2>5 DEF ToSet
  <2>7. f[1] \in ToSet(f) /\ f[1] \in Timer
    BY <1>1, <2>2, <2>3 DEF ToSet
  <2> QED BY <1>1, <1>2, <2>1, <2>2, <2>4, <2>6, <2>7 DEF f, g, IsInjective
<1>3. CASE f = <<>>
  <2>1. NextTimer(p) \in Timer \ p.allocated
    BY <1>1, <1>3 DEF NextTimer, Room
  <2> QED BY <2>1, <1>1, <1>3
<1> QED BY <1>2, <1>3

\* tmr_create: one more timer is scheduled, with what the caller asked for.
LEMMA CreateKeeps ==
  ASSUME NEW p, InOrder(p), Room(p), now \in Nat,
         NEW proc \in {"occasional", "idle", "wakeup", "linger"}, NEW data \in Conn,
         NEW msecs \in Nat, NEW periodic \in BOOLEAN
  PROVE  LET q  == TmrCreate(p, proc, data, msecs, periodic)
             tm == NextTimer(p)
         IN  /\ InOrder(q)
             /\ tm \in Timer /\ tm \notin ListedIn(p)
             /\ ListedIn(q) = ListedIn(p) \cup {tm}
             /\ q.struct[tm].proc = proc
             /\ q.struct[tm].data = data
             /\ q.struct[tm].periodic = periodic
             /\ \A u \in Timer : u # tm => q.struct[u] = p.struct[u]
<1> DEFINE tm == NextTimer(p)
           taken == IF p.free_timers # <<>>
                      THEN [p EXCEPT !.free_timers = Tail(@), !.free_count = @ - 1]
                      ELSE [p EXCEPT !.allocated = @ \cup {tm}, !.alloc_count = @ + 1]
           new == [proc |-> proc, data |-> data, msecs |-> msecs,
                   periodic |-> periodic, time |-> now + msecs,
                   hash |-> Hash(now + msecs)]
           filled == [taken EXCEPT !.struct[tm] = new]
           added == LAdd(filled, tm)
           q == [added EXCEPT !.active_count = @ + 1]
<1>1. TmrCreate(p, proc, data, msecs, periodic) = q
  BY DEF TmrCreate
<1>2. p \in Package /\ Sorted(p) /\ Accounted(p)
  BY DEF InOrder
<1>3. tm \in Timer /\ tm \notin ListedIn(p)
  BY NextTimerFree
<1>4. /\ taken \in Package
      /\ taken.timers = p.timers /\ taken.struct = p.struct
      /\ taken.active_count = p.active_count
      /\ IsInjective(taken.free_timers)
      /\ tm \notin ToSet(taken.free_timers)
      /\ taken.allocated = ListedIn(p) \cup {tm} \cup ToSet(taken.free_timers)
      /\ ListedIn(p) \cap ToSet(taken.free_timers) = {}
      /\ taken.free_count = Len(taken.free_timers)
      /\ taken.alloc_count = Cardinality(taken.allocated)
  <2>1. CASE p.free_timers # <<>>
    <3>1. taken = [p EXCEPT !.free_timers = Tail(@), !.free_count = @ - 1]
      BY <2>1
    <3>2. /\ tm \in p.allocated
          /\ Tail(p.free_timers) \in Seq(Timer)
          /\ Len(Tail(p.free_timers)) = Len(p.free_timers) - 1
          /\ Len(p.free_timers) - 1 \in Nat
          /\ IsInjective(Tail(p.free_timers))
          /\ ToSet(Tail(p.free_timers)) = ToSet(p.free_timers) \ {tm}
          /\ tm \in ToSet(p.free_timers)
      BY <2>1, NextTimerFree
    <3> HIDE DEF taken, tm
    <3>3. /\ taken.timers = p.timers /\ taken.struct = p.struct
          /\ taken.active_count = p.active_count
          /\ taken.free_timers = Tail(p.free_timers)
          /\ taken.free_count = p.free_count - 1
          /\ taken.allocated = p.allocated
          /\ taken.alloc_count = p.alloc_count
      BY <3>1, <1>2 DEF Package
    <3>4. taken \in Package
      BY <3>1, <3>2, <1>2 DEF Package, Accounted
    <3> QED BY <3>2, <3>3, <3>4, <1>2 DEF Accounted
  <2>2. CASE p.free_timers = <<>>
    <3>1. taken = [p EXCEPT !.allocated = @ \cup {tm}, !.alloc_count = @ + 1]
      BY <2>2
    <3>2. tm \notin p.allocated /\ tm \notin ToSet(p.free_timers)
      BY <2>2, NextTimerFree
    <3> HIDE DEF taken, tm
    <3>3. /\ taken.timers = p.timers /\ taken.struct = p.struct
          /\ taken.active_count = p.active_count
          /\ taken.free_timers = p.free_timers
          /\ taken.free_count = p.free_count
          /\ taken.allocated = p.allocated \cup {tm}
          /\ taken.alloc_count = p.alloc_count + 1
      BY <3>1, <1>2 DEF Package
    <3>4. taken \in Package
      <4>1. p.allocated \cup {tm} \in SUBSET Timer /\ p.alloc_count + 1 \in Nat
        BY <1>2, <1>3 DEF Package
      <4> QED BY <3>1, <4>1, <1>2 DEF Package
    <3>5. Cardinality(p.allocated \cup {tm}) = Cardinality(p.allocated) + 1
      BY <3>2, <1>2, TimersFinite, FS_AddElement DEF Package
    <3> QED BY <3>2, <3>3, <3>4, <3>5, <1>2 DEF Accounted
  <2> QED BY <2>1, <2>2
<1> HIDE DEF taken, tm
<1>5. new \in Struct
  BY BucketFacts DEF Struct
<1>6. /\ new.proc = proc /\ new.data = data /\ new.periodic = periodic
      /\ new.hash = Hash(new.time)
  OBVIOUS
<1> HIDE DEF new
<1>7. /\ filled \in Package
      /\ filled.struct = [p.struct EXCEPT ![tm] = new]
      /\ filled.timers = p.timers
      /\ filled = [taken EXCEPT !.struct = filled.struct]
  BY <1>3, <1>4, <1>5 DEF Package
<1> HIDE DEF filled
<1>8. /\ filled.struct[tm] = new
      /\ \A u \in Timer : u # tm => filled.struct[u] = p.struct[u]
  BY <1>2, <1>3, <1>7 DEF Package
<1>9. ListedIn(filled) = ListedIn(p)
  BY <1>7 DEF ListedIn
<1>10. Sorted(filled)
  <2>1. \A b \in Bucket : /\ p.timers[b] \in Seq(Timer)
                          /\ \A i \in DOMAIN p.timers[b] : p.timers[b][i] \in ListedIn(p)
    BY <1>2 DEF Package, ListedIn, ToSet
  <2>2. \A b \in Bucket : \A i \in DOMAIN p.timers[b] :
          filled.struct[p.timers[b][i]] = p.struct[p.timers[b][i]]
    BY <2>1, <1>2, <1>3, <1>8, ListedFacts
  <2> QED BY <2>2, <1>2, <1>7 DEF Sorted
<1>11. /\ added.timers \in [Bucket -> Seq(Timer)]
       /\ added = [filled EXCEPT !.timers = added.timers]
       /\ Sorted(added)
       /\ ListedIn(added) = ListedIn(p) \cup {tm}
  <2>1. filled.struct[tm].hash = Hash(filled.struct[tm].time)
    BY <1>6, <1>8
  <2> QED BY <2>1, <1>3, <1>7, <1>9, <1>10, LAddKeeps
<1> HIDE DEF added
<1>12. /\ q.timers = added.timers /\ q.struct = filled.struct
       /\ q.active_count = p.active_count + 1
       /\ q.free_timers = taken.free_timers /\ q.allocated = taken.allocated
       /\ q.free_count = taken.free_count /\ q.alloc_count = taken.alloc_count
       /\ added.struct = filled.struct
       /\ q \in Package
  <2>1. /\ filled.active_count = p.active_count
        /\ filled.free_timers = taken.free_timers /\ filled.allocated = taken.allocated
        /\ filled.free_count = taken.free_count /\ filled.alloc_count = taken.alloc_count
    BY <1>4, <1>7 DEF Package
  <2>2. /\ added \in Package /\ added.struct = filled.struct
        /\ added.active_count = filled.active_count
        /\ added.free_timers = filled.free_timers /\ added.allocated = filled.allocated
        /\ added.free_count = filled.free_count /\ added.alloc_count = filled.alloc_count
    BY <1>7, <1>11 DEF Package
  <2>3. /\ q.timers = added.timers /\ q.struct = added.struct
        /\ q.active_count = added.active_count + 1
        /\ q.free_timers = added.free_timers /\ q.allocated = added.allocated
        /\ q.free_count = added.free_count /\ q.alloc_count = added.alloc_count
        /\ q \in Package
    <3>1. added.active_count + 1 \in Nat
      BY <2>2 DEF Package
    <3> QED BY <2>2, <3>1 DEF Package
  <2> QED BY <2>1, <2>2, <2>3
<1> HIDE DEF q
<1>13. Sorted(q) /\ ListedIn(q) = ListedIn(p) \cup {tm}
  BY <1>11, <1>12, SameLists
<1>14. Cardinality(ListedIn(q)) = Cardinality(ListedIn(p)) + 1
  BY <1>2, <1>3, <1>13, ListedFacts, TimersFinite, FS_AddElement
<1>15. Accounted(q)
  BY <1>2, <1>4, <1>12, <1>13, <1>14 DEF Accounted
<1> QED BY <1>1, <1>3, <1>6, <1>8, <1>12, <1>13, <1>15 DEF InOrder, tm

\* tmr_run reschedules a periodic timer: it stays scheduled, for the same callback.
LEMMA RescheduleKeeps ==
  ASSUME NEW p, InOrder(p), NEW tm \in ListedIn(p)
  PROVE  LET q == Reschedule(p, tm)
         IN  /\ InOrder(q)
             /\ ListedIn(q) = ListedIn(p)
             /\ \A u \in Timer : /\ q.struct[u].proc = p.struct[u].proc
                                 /\ q.struct[u].data = p.struct[u].data
                                 /\ q.struct[u].periodic = p.struct[u].periodic
<1> DEFINE time == p.struct[tm].time + p.struct[tm].msecs
           out == LRemove(p, tm)
           reset == [out EXCEPT !.struct[tm].time = time, !.struct[tm].hash = Hash(time)]
           q == LAdd(reset, tm)
<1>1. Reschedule(p, tm) = q
  BY DEF Reschedule
<1>2. p \in Package /\ Sorted(p) /\ Accounted(p) /\ tm \in Timer
  BY InItsList DEF InOrder
<1>3. /\ out.timers \in [Bucket -> Seq(Timer)]
      /\ out = [p EXCEPT !.timers = out.timers]
      /\ Sorted(out)
      /\ ListedIn(out) = ListedIn(p) \ {tm}
  BY <1>2, LRemoveKeeps
<1>4. time \in Nat /\ Hash(time) \in Bucket
  BY <1>2, BucketFacts DEF Package, Struct
<1> HIDE DEF out, time
<1>5. out \in Package /\ out.struct = p.struct
  BY <1>2, <1>3 DEF Package
<1> DEFINE new == [p.struct[tm] EXCEPT !.time = time, !.hash = Hash(time)]
<1>6. new \in Struct
  BY <1>2, <1>4 DEF Package, Struct
<1>7. /\ new.time = time /\ new.hash = Hash(time)
      /\ new.proc = p.struct[tm].proc /\ new.data = p.struct[tm].data
      /\ new.periodic = p.struct[tm].periodic
  BY <1>2 DEF Package, Struct
<1>8. reset = [out EXCEPT !.struct = [p.struct EXCEPT ![tm] = new]]
  BY <1>2, <1>5 DEF Package
<1> HIDE DEF reset, new
<1>9. /\ reset \in Package
      /\ reset.struct = [p.struct EXCEPT ![tm] = new]
      /\ reset.timers = out.timers
  BY <1>2, <1>5, <1>6, <1>8 DEF Package
<1>10. /\ reset.struct[tm] = new
       /\ \A u \in Timer : u # tm => reset.struct[u] = p.struct[u]
  BY <1>2, <1>9 DEF Package
<1>11. ListedIn(reset) = ListedIn(p) \ {tm}
  BY <1>3, <1>9 DEF ListedIn
<1>12. Sorted(reset)
  <2>1. \A b \in Bucket : \A i \in DOMAIN out.timers[b] : out.timers[b][i] \in ListedIn(out)
    BY DEF ListedIn, ToSet
  <2>2. \A b \in Bucket : \A i \in DOMAIN out.timers[b] :
          reset.struct[out.timers[b][i]] = out.struct[out.timers[b][i]]
    BY <2>1, <1>2, <1>3, <1>5, <1>10, ListedFacts
  <2> QED BY <2>2, <1>3, <1>9 DEF Sorted
<1>13. /\ q.timers \in [Bucket -> Seq(Timer)]
       /\ q = [reset EXCEPT !.timers = q.timers]
       /\ Sorted(q)
       /\ ListedIn(q) = ListedIn(p)
  <2>1. reset.struct[tm].hash = Hash(reset.struct[tm].time)
    BY <1>7, <1>10
  <2>2. /\ q.timers \in [Bucket -> Seq(Timer)]
        /\ q = [reset EXCEPT !.timers = q.timers]
        /\ Sorted(q)
        /\ ListedIn(q) = ListedIn(reset) \cup {tm}
    BY <2>1, <1>2, <1>9, <1>11, <1>12, LAddKeeps
  <2> QED BY <2>2, <1>11
<1> HIDE DEF q
<1>14. /\ q \in Package /\ q.struct = reset.struct
       /\ q.free_timers = reset.free_timers /\ q.allocated = reset.allocated
       /\ q.active_count = reset.active_count
       /\ q.free_count = reset.free_count /\ q.alloc_count = reset.alloc_count
  BY <1>9, <1>13 DEF Package
<1>15. /\ reset.free_timers = p.free_timers /\ reset.allocated = p.allocated
       /\ reset.active_count = p.active_count
       /\ reset.free_count = p.free_count /\ reset.alloc_count = p.alloc_count
  <2>1. /\ out.free_timers = p.free_timers /\ out.allocated = p.allocated
        /\ out.active_count = p.active_count
        /\ out.free_count = p.free_count /\ out.alloc_count = p.alloc_count
    BY <1>2, <1>3 DEF Package
  <2> QED BY <2>1, <1>5, <1>8 DEF Package
<1>16. Accounted(q)
  BY <1>2, <1>13, <1>14, <1>15 DEF Accounted
<1>17. \A u \in Timer : /\ q.struct[u].proc = p.struct[u].proc
                        /\ q.struct[u].data = p.struct[u].data
                        /\ q.struct[u].periodic = p.struct[u].periodic
  BY <1>7, <1>10, <1>14
<1> QED BY <1>1, <1>13, <1>14, <1>16, <1>17 DEF InOrder

\* tmr_cleanup frees the structs on the free list and nothing else.
LEMMA CleanupKeeps ==
  ASSUME NEW p, InOrder(p)
  PROVE  /\ InOrder(TmrCleanup(p))
         /\ ListedIn(TmrCleanup(p)) = ListedIn(p)
         /\ TmrCleanup(p).struct = p.struct
<1> DEFINE q == TmrCleanup(p)
           freed == ToSet(p.free_timers)
<1>1. p \in Package /\ Sorted(p) /\ Accounted(p)
  BY DEF InOrder
<1>2. /\ q.timers = p.timers /\ q.struct = p.struct
      /\ q.free_timers = <<>> /\ q.free_count = 0
      /\ q.allocated = p.allocated \ freed
      /\ q.active_count = p.active_count
      /\ q.alloc_count = p.alloc_count - Len(p.free_timers)
      /\ q = [timers |-> q.timers, free_timers |-> q.free_timers,
              allocated |-> q.allocated, struct |-> q.struct,
              active_count |-> q.active_count, free_count |-> q.free_count,
              alloc_count |-> q.alloc_count]
  <2>1. q = [p EXCEPT !.allocated = p.allocated \ freed,
                      !.alloc_count = p.alloc_count - Len(p.free_timers),
                      !.free_count = 0, !.free_timers = <<>>]
    BY <1>1 DEF TmrCleanup, Package
  <2> HIDE DEF q, freed
  <2> QED BY <2>1, <1>1 DEF Package
<1> HIDE DEF q
<1>3. Sorted(q) /\ ListedIn(q) = ListedIn(p)
  BY <1>1, <1>2, SameLists
<1>4. /\ p.allocated \in SUBSET Timer /\ p.free_timers \in Seq(Timer)
      /\ IsInjective(p.free_timers)
      /\ p.allocated = ListedIn(p) \cup freed /\ ListedIn(p) \cap freed = {}
      /\ p.alloc_count = Cardinality(p.allocated)
  BY <1>1 DEF Package, Accounted
<1>5. Cardinality(freed) = Len(p.free_timers) /\ IsFiniteSet(freed)
  <2> DEFINE f == p.free_timers
  <2>1. f \in [1 .. Len(f) -> freed] /\ DOMAIN f = 1 .. Len(f) /\ Len(f) \in Nat
    BY <1>4 DEF ToSet
  <2>2. /\ \A j, k \in 1 .. Len(f) : f[j] = f[k] => j = k
        /\ \A x \in freed : \E k \in 1 .. Len(f) : f[k] = x
    BY <1>4, <2>1 DEF IsInjective, ToSet
  <2> HIDE DEF f, freed
  <2>3. f \in Bijection(1 .. Len(f), freed)
    BY <2>1, <2>2 DEF Bijection, Injection, Surjection, IsInjective
  <2>4. IsFiniteSet(1 .. Len(f)) /\ Cardinality(1 .. Len(f)) = Len(f)
    <3>1. /\ IsFiniteSet(1 .. Len(f))
          /\ Cardinality(1 .. Len(f)) = IF 1 > Len(f) THEN 0 ELSE Len(f) - 1 + 1
      BY <2>1, FS_Interval
    <3> QED BY <3>1, <2>1
  <2>5. IsFiniteSet(freed)
    BY <1>4, TimersFinite, FS_Subset
  <2>6. Cardinality(freed) = Cardinality(1 .. Len(f))
    <3>1. ExistsBijection(1 .. Len(f), freed)
      BY <2>3 DEF ExistsBijection
    <3> QED BY <3>1, <2>4, FS_Bijection
  <2> QED BY <2>4, <2>5, <2>6 DEF f
<1>6. /\ IsFiniteSet(ListedIn(p)) /\ Cardinality(ListedIn(p)) \in Nat
      /\ Cardinality(p.allocated) = Cardinality(ListedIn(p)) + Cardinality(freed)
      /\ q.allocated = ListedIn(p)
  <2>1. IsFiniteSet(ListedIn(p)) /\ Cardinality(ListedIn(p)) \in Nat
    BY <1>1, ListedFacts, TimersFinite
  <2>2. q.allocated = ListedIn(p)
    BY <1>2, <1>4
  <2> HIDE DEF freed
  <2>3. Cardinality(ListedIn(p) \cup freed)
          = Cardinality(ListedIn(p)) + Cardinality(freed) - Cardinality(ListedIn(p) \cap freed)
    BY <2>1, <1>5, FS_Union
  <2>4. Cardinality(ListedIn(p) \cap freed) = 0 /\ Cardinality(freed) \in Nat
    BY <1>4, <1>5, FS_EmptySet, FS_CardinalityType
  <2>5. Cardinality(p.allocated) = Cardinality(ListedIn(p)) + Cardinality(freed)
    BY <2>1, <2>3, <2>4, <1>4
  <2> QED BY <2>1, <2>2, <2>5
<1>7. Cardinality(p.allocated) - Len(p.free_timers) = Cardinality(ListedIn(p))
  <2>1. Len(p.free_timers) \in Nat
    BY <1>4
  <2> QED BY <2>1, <1>5, <1>6
<1>8. ToSet(<<>>) = {} /\ IsInjective(<<>>) /\ <<>> \in Seq(Timer) /\ Len(<<>>) = 0
  BY DEF ToSet, IsInjective
<1>9. Accounted(q)
  BY <1>1, <1>2, <1>3, <1>4, <1>6, <1>7, <1>8 DEF Accounted
<1>10. q \in Package
  <2>1. q.alloc_count \in Nat /\ q.allocated \in SUBSET Timer
    BY <1>2, <1>4, <1>6, <1>7
  <2>2. /\ q.timers \in [Bucket -> Seq(Timer)] /\ q.struct \in [Timer -> Struct]
        /\ q.active_count \in Nat /\ q.free_count \in Nat /\ q.free_timers \in Seq(Timer)
    BY <1>1, <1>2, <1>8 DEF Package
  <2> QED BY <1>2, <2>1, <2>2 DEF Package
<1> QED BY <1>2, <1>3, <1>9, <1>10 DEF q, InOrder

-----------------------------------------------------------------------------
(***************************************************************************)
(* The pointers of the connections.                                        *)
(***************************************************************************)
Once == {"occasional", "idle"}         \* the callbacks with one timer each

\* A scheduled timer calls back, again and again when it is one of main()'s,
\* and no two call the same routine for the same connection.
Kinds(p) ==
  /\ \A tm \in ListedIn(p) :
       /\ p.struct[tm].proc # "none"
       /\ p.struct[tm].periodic <=> p.struct[tm].proc \in Once
       /\ p.struct[tm].proc \in Once => p.struct[tm].data = Null
  /\ \A tm, u \in ListedIn(p) :
       /\ p.struct[tm].proc = p.struct[u].proc
       /\ p.struct[tm].data = p.struct[u].data
       => tm = u

Consistent(p, w, l) ==
  /\ InOrder(p) /\ Kinds(p)
  /\ w \in [Conn -> Timer \cup {Null}] /\ l \in [Conn -> Timer \cup {Null}]
  /\ Owned(p, "wakeup", w) /\ Owned(p, "linger", l)

(***************************************************************************)
(* There is a timer left for a callback that has none: there are as many   *)
(* timers as callbacks.                                                    *)
(***************************************************************************)
LEMMA RoomForOneMore ==
  ASSUME NEW p, InOrder(p), Kinds(p),
         NEW proc \in {"occasional", "idle", "wakeup", "linger"}, NEW data \in Conn,
         proc \in Once => data = Null,
         \A tm \in ListedIn(p) : ~ (p.struct[tm].proc = proc /\ p.struct[tm].data = data)
  PROVE  Room(p)
<1> SUFFICES ASSUME p.free_timers = <<>>, p.allocated = Timer PROVE FALSE
  BY DEF Room
<1>1. p \in Package /\ Sorted(p) /\ ListedIn(p) = Timer
  <2>1. ToSet(<<>>) = {}
    BY DEF ToSet
  <2> QED BY <2>1 DEF InOrder, Accounted
<1> DEFINE Procs == {"occasional", "idle", "wakeup", "linger"}
           Key(pr, d) == IF pr = "occasional" THEN 0
                         ELSE IF pr = "idle" THEN 1
                         ELSE IF pr = "wakeup" THEN 2 + d
                         ELSE 2 + MaxConnects + d
           K == 0 .. 2 * MaxConnects + 1
           f == [tm \in Timer |-> Key(p.struct[tm].proc, p.struct[tm].data)]
           missing == Key(proc, data)
<1>2. MaxConnects \in Nat /\ Conn = 0 .. MaxConnects - 1
  BY TimersAssumption DEF Conn
<1>3. \A pr \in Procs, d \in Conn : Key(pr, d) \in K
  BY <1>2
<1>4. \A pr, pr2 \in Procs, d, d2 \in Conn :
        /\ Key(pr, d) = Key(pr2, d2)
        /\ pr \in Once => d = Null
        /\ pr2 \in Once => d2 = Null
        => pr = pr2 /\ d = d2
  BY <1>2 DEF Once
<1>5. \A tm \in Timer :
        /\ p.struct[tm].proc \in Procs /\ p.struct[tm].data \in Conn
        /\ p.struct[tm].proc \in Once => p.struct[tm].data = Null
        /\ ~ (p.struct[tm].proc = proc /\ p.struct[tm].data = data)
  BY <1>1 DEF Kinds, Package, Struct
<1> HIDE DEF Key, K
<1>6. f \in [Timer -> K \ {missing}]
  BY <1>3, <1>4, <1>5
<1>7. /\ IsFiniteSet(K \ {missing})
      /\ Cardinality(K \ {missing}) < Cardinality(Timer)
  <2>1. IsFiniteSet(K) /\ Cardinality(K) = 2 * MaxConnects + 2
    <3> DEFINE top == 2 * MaxConnects + 1
    <3>1. 0 \in Int /\ top \in Int /\ ~(0 > top) /\ top - 0 + 1 = 2 * MaxConnects + 2
      BY <1>2
    <3>2. K = 0 .. top
      BY DEF K
    <3> HIDE DEF top
    <3>3. IsFiniteSet(0 .. top) /\ Cardinality(0 .. top) = top - 0 + 1
      BY <3>1, FS_Interval
    <3> QED BY <3>1, <3>2, <3>3
  <2>2. missing \in K
    BY <1>3
  <2>3. Cardinality(K \ {missing}) = Cardinality(K) - 1 /\ IsFiniteSet(K \ {missing})
    <3> HIDE DEF missing
    <3> QED BY <2>1, <2>2, FS_RemoveElement, Zenon
  <2> QED BY <1>2, <2>1, <2>3, TimersFinite
<1> HIDE DEF missing, f
<1>8. PICK tm \in Timer, u \in Timer : tm # u /\ f[tm] = f[u]
  BY <1>6, <1>7, TimersFinite, FS_PigeonHole
<1>9. p.struct[tm].proc = p.struct[u].proc /\ p.struct[tm].data = p.struct[u].data
  BY <1>4, <1>5, <1>8 DEF f
<1> QED BY <1>1, <1>8, <1>9 DEF Kinds

\* How a connection sets a timer.
SetOnce(p, proc, c, msecs) == TmrCreate(p, proc, c, msecs, FALSE)

\* It stays different from the timers of the others.
LEMMA SetKeeps ==
  ASSUME NEW p, InOrder(p), Kinds(p), now \in Nat,
         NEW proc \in {"wakeup", "linger"}, NEW c \in Conn, NEW msecs \in Nat,
         \A u \in ListedIn(p) : ~ (p.struct[u].proc = proc /\ p.struct[u].data = c)
  PROVE  LET q == SetOnce(p, proc, c, msecs)
             tm == NextTimer(p)
         IN  /\ InOrder(q) /\ Kinds(q)
             /\ tm \in Timer /\ tm \notin ListedIn(p)
             /\ ListedIn(q) = ListedIn(p) \cup {tm}
             /\ q.struct[tm].proc = proc /\ q.struct[tm].data = c
             /\ \A u \in ListedIn(p) : u \in Timer /\ q.struct[u] = p.struct[u]
<1> DEFINE q == SetOnce(p, proc, c, msecs)
           tm == NextTimer(p)
<1>1. ListedIn(p) \in SUBSET Timer
  BY ListedFacts DEF InOrder
<1>2. Room(p)
  BY RoomForOneMore DEF Once
<1>3. /\ InOrder(q)
      /\ tm \in Timer /\ tm \notin ListedIn(p)
      /\ ListedIn(q) = ListedIn(p) \cup {tm}
      /\ q.struct[tm].proc = proc
      /\ q.struct[tm].data = c
      /\ q.struct[tm].periodic = FALSE
      /\ \A u \in Timer : u # tm => q.struct[u] = p.struct[u]
  <2>1. proc \in {"occasional", "idle", "wakeup", "linger"}
    OBVIOUS
  <2>2. \A periodic \in BOOLEAN :
          LET r == TmrCreate(p, proc, c, msecs, periodic)
          IN  /\ InOrder(r)
              /\ NextTimer(p) \in Timer /\ NextTimer(p) \notin ListedIn(p)
              /\ ListedIn(r) = ListedIn(p) \cup {NextTimer(p)}
              /\ r.struct[NextTimer(p)].proc = proc
              /\ r.struct[NextTimer(p)].data = c
              /\ r.struct[NextTimer(p)].periodic = periodic
              /\ \A u \in Timer : u # NextTimer(p) => r.struct[u] = p.struct[u]
    BY <2>1, <1>2, CreateKeeps
  <2> QED BY <2>2 DEF SetOnce
<1> HIDE DEF q, tm
<1>4. \A u \in ListedIn(p) : u \in Timer /\ q.struct[u] = p.struct[u]
  BY <1>1, <1>3
<1>5. Kinds(q)
  BY <1>1, <1>3, <1>4 DEF Kinds, Once
<1> QED BY <1>3, <1>4, <1>5 DEF q, tm

\* A call keeps idle's own timer scheduled.
IdleStays(p, q) ==
  \A tm \in ListedIn(p) : p.struct[tm].proc = "idle" =>
    tm \in ListedIn(q) /\ q.struct[tm].proc = "idle"

\* No timer is a null pointer.
LEMMA TimerNotNull == \A u \in Timer : u # Null
BY TimersAssumption DEF Timer, Null

\* handle_send pauses a connection that does not pause yet.
LEMMA WakeupSet ==
  ASSUME NEW p, NEW w, NEW l, Consistent(p, w, l), now \in Nat,
         NEW c \in Conn, NEW msecs \in Nat, w[c] = Null
  PROVE  Consistent(SetOnce(p, "wakeup", c, msecs), [w EXCEPT ![c] = NextTimer(p)], l)
<1> DEFINE q == SetOnce(p, "wakeup", c, msecs)
           tm == NextTimer(p)
<1>1. /\ InOrder(p) /\ Kinds(p) /\ Owned(p, "wakeup", w) /\ Owned(p, "linger", l)
      /\ w \in [Conn -> Timer \cup {Null}] /\ l \in [Conn -> Timer \cup {Null}]
      /\ ListedIn(p) \in SUBSET Timer
  BY ListedFacts DEF Consistent, InOrder
<1>2. \A u \in ListedIn(p) : ~ (p.struct[u].proc = "wakeup" /\ p.struct[u].data = c)
  BY <1>1, TimerNotNull DEF Owned
<1>3. /\ InOrder(q) /\ Kinds(q)
      /\ tm \in Timer /\ tm \notin ListedIn(p)
      /\ ListedIn(q) = ListedIn(p) \cup {tm}
      /\ q.struct[tm].proc = "wakeup" /\ q.struct[tm].data = c
      /\ \A u \in ListedIn(p) : u \in Timer /\ q.struct[u] = p.struct[u]
  BY <1>1, <1>2, SetKeeps
<1> HIDE DEF q, tm
<1>4. Owned(q, "wakeup", [w EXCEPT ![c] = tm])
  BY <1>1, <1>2, <1>3 DEF Owned
<1>5. Owned(q, "linger", l)
  BY <1>1, <1>3 DEF Owned
<1> QED BY <1>1, <1>3, <1>4, <1>5 DEF Consistent, q, tm

\* clear_connection makes a connection linger which does not linger yet.
LEMMA LingerSet ==
  ASSUME NEW p, NEW w, NEW l, Consistent(p, w, l), now \in Nat,
         NEW c \in Conn, NEW msecs \in Nat, l[c] = Null
  PROVE  LET q == SetOnce(p, "linger", c, msecs)
         IN  Consistent(q, w, [l EXCEPT ![c] = NextTimer(p)]) /\ IdleStays(p, q)
<1> DEFINE q == SetOnce(p, "linger", c, msecs)
           tm == NextTimer(p)
<1>1. /\ InOrder(p) /\ Kinds(p) /\ Owned(p, "wakeup", w) /\ Owned(p, "linger", l)
      /\ w \in [Conn -> Timer \cup {Null}] /\ l \in [Conn -> Timer \cup {Null}]
      /\ ListedIn(p) \in SUBSET Timer
  BY ListedFacts DEF Consistent, InOrder
<1>2. \A u \in ListedIn(p) : ~ (p.struct[u].proc = "linger" /\ p.struct[u].data = c)
  BY <1>1, TimerNotNull DEF Owned
<1>3. /\ InOrder(q) /\ Kinds(q)
      /\ tm \in Timer /\ tm \notin ListedIn(p)
      /\ ListedIn(q) = ListedIn(p) \cup {tm}
      /\ q.struct[tm].proc = "linger" /\ q.struct[tm].data = c
      /\ \A u \in ListedIn(p) : u \in Timer /\ q.struct[u] = p.struct[u]
  BY <1>1, <1>2, SetKeeps
<1> HIDE DEF q, tm
<1>4. Owned(q, "linger", [l EXCEPT ![c] = tm])
  BY <1>1, <1>2, <1>3 DEF Owned
<1>5. Owned(q, "wakeup", w)
  BY <1>1, <1>3 DEF Owned
<1>6. IdleStays(p, q)
  BY <1>3 DEF IdleStays
<1> QED BY <1>1, <1>3, <1>4, <1>5, <1>6 DEF Consistent, q, tm

\* The timer a connection's pointer names is cancelled and the pointer cleared,
\* by clear_connection, or when the timer has run.
LEMMA WakeupCleared ==
  ASSUME NEW p, NEW w, NEW l, Consistent(p, w, l), NEW c \in Conn, w[c] # Null
  PROVE  LET q == TmrCancel(p, w[c])
         IN  Consistent(q, [w EXCEPT ![c] = Null], l) /\ IdleStays(p, q)
<1> DEFINE tm == w[c]
           q == TmrCancel(p, tm)
<1>1. /\ InOrder(p) /\ Kinds(p) /\ Owned(p, "wakeup", w) /\ Owned(p, "linger", l)
      /\ w \in [Conn -> Timer \cup {Null}] /\ l \in [Conn -> Timer \cup {Null}]
  BY DEF Consistent
<1>2. /\ tm \in Timer /\ tm \in ListedIn(p)
      /\ p.struct[tm].proc = "wakeup" /\ p.struct[tm].data = c
  BY <1>1 DEF Owned
<1>3. InOrder(q) /\ ListedIn(q) = ListedIn(p) \ {tm} /\ q.struct = p.struct
  BY <1>1, <1>2, CancelKeeps
<1> HIDE DEF q
<1>4. Kinds(q)
  BY <1>1, <1>3 DEF Kinds
<1>5. Owned(q, "wakeup", [w EXCEPT ![c] = Null])
  BY <1>1, <1>2, <1>3, TimerNotNull DEF Owned
<1>6. Owned(q, "linger", l)
  BY <1>1, <1>2, <1>3 DEF Owned
<1>7. IdleStays(p, q)
  BY <1>2, <1>3 DEF IdleStays
<1> QED BY <1>1, <1>3, <1>4, <1>5, <1>6, <1>7 DEF Consistent, q

\* really_clear_connection, or the linger timer itself, ends a linger.
LEMMA LingerCleared ==
  ASSUME NEW p, NEW w, NEW l, Consistent(p, w, l), NEW c \in Conn, l[c] # Null
  PROVE  Consistent(TmrCancel(p, l[c]), w, [l EXCEPT ![c] = Null])
<1> DEFINE tm == l[c]
           q == TmrCancel(p, tm)
<1>1. /\ InOrder(p) /\ Kinds(p) /\ Owned(p, "wakeup", w) /\ Owned(p, "linger", l)
      /\ w \in [Conn -> Timer \cup {Null}] /\ l \in [Conn -> Timer \cup {Null}]
  BY DEF Consistent
<1>2. /\ tm \in Timer /\ tm \in ListedIn(p)
      /\ p.struct[tm].proc = "linger" /\ p.struct[tm].data = c
  BY <1>1 DEF Owned
<1>3. InOrder(q) /\ ListedIn(q) = ListedIn(p) \ {tm} /\ q.struct = p.struct
  BY <1>1, <1>2, CancelKeeps
<1> HIDE DEF q
<1>4. Kinds(q)
  BY <1>1, <1>3 DEF Kinds
<1>5. Owned(q, "linger", [l EXCEPT ![c] = Null])
  BY <1>1, <1>2, <1>3, TimerNotNull DEF Owned
<1>6. Owned(q, "wakeup", w)
  BY <1>1, <1>2, <1>3 DEF Owned
<1> QED BY <1>1, <1>3, <1>4, <1>5, <1>6 DEF Consistent, q

\* A call that leaves the scheduled timers and their callbacks alone.
LEMMA SameTimers ==
  ASSUME NEW p, NEW w, NEW l, Consistent(p, w, l), NEW q, InOrder(q),
         ListedIn(q) = ListedIn(p),
         \A u \in Timer : /\ q.struct[u].proc = p.struct[u].proc
                          /\ q.struct[u].data = p.struct[u].data
                          /\ q.struct[u].periodic = p.struct[u].periodic
  PROVE  Consistent(q, w, l)
<1>1. ListedIn(p) \in SUBSET Timer
  BY ListedFacts DEF Consistent, InOrder
<1>2. Kinds(q)
  BY <1>1 DEF Consistent, Kinds
<1>3. Owned(q, "wakeup", w) /\ Owned(q, "linger", l)
  BY <1>1 DEF Consistent, Owned
<1> QED BY <1>2, <1>3 DEF Consistent

-----------------------------------------------------------------------------
(***************************************************************************)
(* The inductive invariant.  It adds to ListsSound that the scheduled      *)
(* timers are for different callbacks (Kinds), without which tmr_create    *)
(* might have none left to take and a pointer might name two, and that     *)
(* idle's own timer stays scheduled while idle clears connections.         *)
(***************************************************************************)
InIdle == cnum # NotIdle => running /\ t \in Listed /\ pkg.struct[t].proc = "idle"

TimersInv == TypeOK /\ Consistent(pkg, wakeup_timer, linger_timer) /\ InIdle

\* tmr_init leaves no timers.
LEMMA EmptyLists == InOrder(TmrInit) /\ ListedIn(TmrInit) = {}
<1>0. Null \in Conn
  BY TimersAssumption DEF Null, Conn
<1>1. ListedIn(TmrInit) = {}
  BY DEF ListedIn, ToSet, TmrInit
<1>2. TmrInit \in Package
  BY <1>0, BucketFacts DEF TmrInit, Package, Junk, Struct, Null
<1>3. Sorted(TmrInit)
  BY DEF Sorted, TmrInit
<1>4. ToSet(<<>>) = {} /\ IsInjective(<<>>) /\ Len(<<>>) = 0
  BY DEF ToSet, IsInjective
<1>5. Accounted(TmrInit)
  BY <1>1, <1>4, FS_EmptySet DEF Accounted, TmrInit
<1> QED BY <1>1, <1>2, <1>3, <1>5 DEF InOrder

\* main() sets the two periodic timers before anything else.
LEMMA InitEstablishes == Init => TimersInv
<1> SUFFICES ASSUME Init PROVE TimersInv
  OBVIOUS
<1> DEFINE one == TmrCreate(TmrInit, "occasional", Null, OCCASIONAL_TIME, TRUE)
           two == TmrCreate(one, "idle", Null, IDLE_TIME, TRUE)
<1>0. /\ now = 0 /\ now \in Nat /\ Null \in Conn /\ TRUE \in BOOLEAN
      /\ OCCASIONAL_TIME \in Nat /\ IDLE_TIME \in Nat
  BY TimersAssumption DEF Init, Null, Conn
<1>1. InOrder(TmrInit) /\ ListedIn(TmrInit) = {}
  BY EmptyLists
<1>2. \E first \in Timer :
        /\ InOrder(one)
        /\ ListedIn(one) = {first}
        /\ one.struct[first].proc = "occasional"
        /\ one.struct[first].data = Null
        /\ one.struct[first].periodic = TRUE
  <2>1. Kinds(TmrInit)
    BY <1>1 DEF Kinds
  <2>2. Room(TmrInit)
    BY <1>0, <1>1, <2>1, RoomForOneMore DEF Once
  <2> HIDE DEF one
  <2>3. \A per \in BOOLEAN :
          LET r == TmrCreate(TmrInit, "occasional", Null, OCCASIONAL_TIME, per)
              tm == NextTimer(TmrInit)
          IN  /\ InOrder(r)
              /\ tm \in Timer
              /\ ListedIn(r) = ListedIn(TmrInit) \cup {tm}
              /\ r.struct[tm].proc = "occasional"
              /\ r.struct[tm].data = Null
              /\ r.struct[tm].periodic = per
    BY <1>0, <1>1, <2>2, CreateKeeps
  <2> QED BY <2>3, <1>0, <1>1 DEF one
<1>3. PICK first \in Timer :
        /\ InOrder(one)
        /\ ListedIn(one) = {first}
        /\ one.struct[first].proc = "occasional"
        /\ one.struct[first].data = Null
        /\ one.struct[first].periodic = TRUE
  BY <1>2
<1> HIDE DEF one
<1>4. \E second \in Timer :
        /\ InOrder(two)
        /\ second # first /\ ListedIn(two) = {first, second}
        /\ two.struct[first] = one.struct[first]
        /\ two.struct[second].proc = "idle"
        /\ two.struct[second].data = Null
        /\ two.struct[second].periodic = TRUE
  <2>1. Kinds(one)
    BY <1>3 DEF Kinds, Once
  <2>2. Room(one)
    BY <1>0, <1>3, <2>1, RoomForOneMore DEF Once
  <2> HIDE DEF two
  <2>3. \A per \in BOOLEAN :
          LET r == TmrCreate(one, "idle", Null, IDLE_TIME, per)
              tm == NextTimer(one)
          IN  /\ InOrder(r)
              /\ tm \in Timer /\ tm \notin ListedIn(one)
              /\ ListedIn(r) = ListedIn(one) \cup {tm}
              /\ r.struct[tm].proc = "idle"
              /\ r.struct[tm].data = Null
              /\ r.struct[tm].periodic = per
              /\ \A u \in Timer : u # tm => r.struct[u] = one.struct[u]
    BY <1>0, <1>3, <2>2, CreateKeeps
  <2> QED BY <2>3, <1>0, <1>3 DEF two
<1>5. PICK second \in Timer :
        /\ InOrder(two)
        /\ second # first /\ ListedIn(two) = {first, second}
        /\ two.struct[first] = one.struct[first]
        /\ two.struct[second].proc = "idle"
        /\ two.struct[second].data = Null
        /\ two.struct[second].periodic = TRUE
  BY <1>4
<1>6. pkg = two
  BY DEF Init, two, one
<1> HIDE DEF two
<1>7. Kinds(pkg)
  BY <1>3, <1>5, <1>6 DEF Kinds, Once
<1>8. \A u \in Timer : u # Null
  BY TimersAssumption DEF Timer, Null
<1>9. Owned(pkg, "wakeup", wakeup_timer) /\ Owned(pkg, "linger", linger_timer)
  BY <1>3, <1>5, <1>6, <1>8 DEF Owned, Init
<1>10. TypeOK
  <2>1. now \in 0 .. MaxTime /\ pkg \in Package /\ h \in Bucket
    <3>1. now \in 0 .. MaxTime
      BY <1>0, TimersAssumption
    <3>2. pkg \in Package
      BY <1>5, <1>6 DEF InOrder
    <3>3. h \in Bucket
      BY BucketFacts DEF Init
    <3> QED BY <3>1, <3>2, <3>3
  <2>2. /\ wakeup_timer \in [Conn -> Timer \cup {Null}]
        /\ linger_timer \in [Conn -> Timer \cup {Null}]
        /\ running \in BOOLEAN /\ t \in Timer \cup {Null} /\ next \in Timer \cup {Null}
        /\ cnum \in Conn \cup {MaxConnects, NotIdle}
    BY DEF Init
  <2> QED BY <2>1, <2>2 DEF TypeOK
<1> QED BY <1>5, <1>6, <1>7, <1>9, <1>10 DEF TimersInv, Consistent, InIdle, Init, TypeOK

\* clear_connection keeps the timers and pointers consistent and idle's timer set.
LEMMA ClearKeeps ==
  ASSUME TimersInv, NEW c \in Conn, NEW linger \in BOOLEAN, linger_timer[c] = Null
  PROVE  LET s == ClearConnection(Before, c, linger)
         IN  /\ Consistent(s.pkg, s.wakeup_timer, s.linger_timer)
             /\ IdleStays(pkg, s.pkg)
<1> DEFINE cancelled ==
             IF Before.wakeup_timer[c] # Null
               THEN [Before EXCEPT !.pkg = TmrCancel(Before.pkg, Before.wakeup_timer[c]),
                                   !.wakeup_timer[c] = Null]
               ELSE Before
           s == ClearConnection(Before, c, linger)
<1>0. /\ now \in Nat /\ LINGER_TIME \in Nat
      /\ Consistent(pkg, wakeup_timer, linger_timer)
  BY TimersAssumption DEF TimersInv, TypeOK
<1>1. PICK p, w :
        /\ Consistent(p, w, linger_timer) /\ IdleStays(pkg, p)
        /\ cancelled = [pkg |-> p, wakeup_timer |-> w, linger_timer |-> linger_timer]
  <2>1. CASE wakeup_timer[c] # Null
    <3>1. cancelled = [pkg |-> TmrCancel(pkg, wakeup_timer[c]),
                       wakeup_timer |-> [wakeup_timer EXCEPT ![c] = Null],
                       linger_timer |-> linger_timer]
      BY <2>1 DEF Before
    <3> HIDE DEF cancelled
    <3> QED BY <3>1, <2>1, <1>0, WakeupCleared
  <2>2. CASE wakeup_timer[c] = Null
    <3>1. cancelled = [pkg |-> pkg, wakeup_timer |-> wakeup_timer,
                       linger_timer |-> linger_timer]
      BY <2>2 DEF Before
    <3>2. IdleStays(pkg, pkg)
      BY DEF IdleStays
    <3> HIDE DEF cancelled
    <3> QED BY <3>1, <3>2, <1>0
  <2> QED BY <2>1, <2>2
<1>2. CASE ~ linger
  <2>1. s = cancelled
    BY <1>2 DEF ClearConnection
  <2> HIDE DEF cancelled, s
  <2> QED BY <2>1, <1>1 DEF s
<1>3. CASE linger
  <2>1. s = [cancelled EXCEPT !.pkg = SetOnce(cancelled.pkg, "linger", c, LINGER_TIME),
                              !.linger_timer[c] = NextTimer(cancelled.pkg)]
    BY <1>3 DEF ClearConnection, SetOnce
  <2> HIDE DEF cancelled, s
  <2>2. /\ s.pkg = SetOnce(p, "linger", c, LINGER_TIME)
        /\ s.wakeup_timer = w
        /\ s.linger_timer = [linger_timer EXCEPT ![c] = NextTimer(p)]
    BY <1>1, <2>1
  <2>3. /\ Consistent(s.pkg, s.wakeup_timer, s.linger_timer)
        /\ IdleStays(p, s.pkg)
    BY <2>2, <1>0, <1>1, LingerSet
  <2>4. IdleStays(pkg, s.pkg)
    BY <2>3, <1>1 DEF IdleStays
  <2> QED BY <2>3, <2>4 DEF s
<1> QED BY <1>2, <1>3

\* The walk goes on with a timer or at the end of a list.
LEMMA WalksTimers ==
  ASSUME TimersInv
  PROVE  /\ \A b \in Bucket : First(b) \in Timer \cup {Null}
         /\ \A tm \in Listed : NextOf(tm) \in Timer \cup {Null}
<1>1. pkg \in Package /\ Sorted(pkg)
  BY DEF TimersInv, Consistent, InOrder
<1>2. ASSUME NEW b \in Bucket PROVE First(b) \in Timer \cup {Null}
  <2>1. pkg.timers[b] \in Seq(Timer)
    BY <1>1 DEF Package
  <2> QED BY <2>1 DEF First
<1>3. ASSUME NEW tm \in Listed PROVE NextOf(tm) \in Timer \cup {Null}
  <2> DEFINE list == pkg.timers[pkg.struct[tm].hash]
             i == Place(pkg, tm)
  <2>1. tm \in ListedIn(pkg)
    BY <1>3 DEF Listed
  <2>2. list \in Seq(Timer)
    BY <1>1, <2>1, InItsList, OncePerList
  <2>3. i \in 1 .. Len(list)
    BY <1>1, <2>1, PlaceRight
  <2>4. NextOf(tm) = IF i = Len(list) THEN Null ELSE list[i + 1]
    BY DEF NextOf
  <2> HIDE DEF list, i
  <2>5. CASE i = Len(list) BY <2>4, <2>5
  <2>6. CASE i # Len(list)
    <3>1. i + 1 \in 1 .. Len(list)
      BY <2>2, <2>3, <2>6
    <3> QED BY <2>2, <2>4, <2>6, <3>1
  <2> QED BY <2>5, <2>6
<1> QED BY <1>2, <1>3

\* While tmr_run does not run, idle does not either.
LEMMA HandlerFacts ==
  ASSUME TimersInv
  PROVE  ~ running => cnum = NotIdle
BY DEF TimersInv, InIdle

\* What a step leaves alone keeps its type; the rest is about the timers.
LEMMA StepTypes ==
  ASSUME TimersInv, Consistent(pkg, wakeup_timer, linger_timer)',
         now' \in 0 .. MaxTime, running' \in BOOLEAN, h' \in Bucket,
         t' \in Timer \cup {Null}, next' \in Timer \cup {Null},
         cnum' \in Conn \cup {MaxConnects, NotIdle}, InIdle'
  PROVE  TimersInv'
BY DEF TimersInv, TypeOK, Consistent, InOrder

\* Every step keeps the invariant.
LEMMA StepKeeps ==
  ASSUME TimersInv, [Next]_tvars
  PROVE  TimersInv'
<1>0. /\ Consistent(pkg, wakeup_timer, linger_timer)
      /\ now \in 0 .. MaxTime /\ now \in Nat
      /\ running \in BOOLEAN /\ h \in Bucket
      /\ t \in Timer \cup {Null} /\ next \in Timer \cup {Null}
      /\ cnum \in Conn \cup {MaxConnects, NotIdle}
      /\ wakeup_timer \in [Conn -> Timer \cup {Null}]
      /\ linger_timer \in [Conn -> Timer \cup {Null}]
      /\ pkg \in Package /\ Sorted(pkg) /\ Kinds(pkg) /\ InOrder(pkg)
  BY TimersAssumption DEF TimersInv, TypeOK, Consistent, InOrder
<1>1. ASSUME NEW c \in Conn, Pause(c) PROVE TimersInv'
  <2>1. PICK delay \in Delays : pkg' = TmrCreate(pkg, "wakeup", c, delay, FALSE)
    BY <1>1 DEF Pause
  <2>2. /\ pkg' = SetOnce(pkg, "wakeup", c, delay) /\ delay \in Nat
        /\ wakeup_timer' = [wakeup_timer EXCEPT ![c] = NextTimer(pkg)]
        /\ linger_timer' = linger_timer /\ wakeup_timer[c] = Null
    BY <1>1, <2>1, TimersAssumption DEF Pause, SetOnce
  <2>3. Consistent(pkg, wakeup_timer, linger_timer)'
    BY <1>0, <2>2, WakeupSet
  <2>4. UNCHANGED <<now, walkVars>> /\ cnum = NotIdle
    BY <1>1, HandlerFacts DEF Pause, Handler
  <2> QED BY <1>0, <2>3, <2>4, StepTypes DEF walkVars, InIdle
<1>2. ASSUME NEW c \in Conn, Clear(c) PROVE TimersInv'
  <2>1. PICK linger \in BOOLEAN : Cleared(c, linger)
    BY <1>2 DEF Clear
  <2>2. linger_timer[c] = Null /\ UNCHANGED <<now, walkVars>> /\ cnum = NotIdle
    BY <1>2, HandlerFacts DEF Clear, Handler
  <2>3. Consistent(pkg, wakeup_timer, linger_timer)'
    BY <2>1, <2>2, ClearKeeps DEF Cleared
  <2> QED BY <1>0, <2>2, <2>3, StepTypes DEF walkVars, InIdle
<1>3. ASSUME NEW c \in Conn, EndLinger(c) PROVE TimersInv'
  <2>1. /\ pkg' = TmrCancel(pkg, linger_timer[c])
        /\ linger_timer' = [linger_timer EXCEPT ![c] = Null]
        /\ wakeup_timer' = wakeup_timer /\ linger_timer[c] # Null
    BY <1>3 DEF EndLinger
  <2>2. Consistent(pkg, wakeup_timer, linger_timer)'
    BY <1>0, <2>1, LingerCleared
  <2>3. UNCHANGED <<now, walkVars>> /\ cnum = NotIdle
    BY <1>3, HandlerFacts DEF EndLinger, Handler
  <2> QED BY <1>0, <2>2, <2>3, StepTypes DEF walkVars, InIdle
<1>4. ASSUME Tick PROVE TimersInv'
  <2>1. /\ now' \in 0 .. MaxTime /\ cnum = NotIdle
        /\ UNCHANGED <<pkg, wakeup_timer, linger_timer, walkVars>>
    BY <1>0, <1>4, TimersAssumption, HandlerFacts DEF Tick
  <2> QED BY <1>0, <2>1, StepTypes DEF walkVars, InIdle
<1>5. ASSUME Run PROVE TimersInv'
  <2>1. /\ running' = TRUE /\ h' = 0 /\ t' = First(0) /\ cnum = NotIdle
        /\ UNCHANGED <<now, pkg, wakeup_timer, linger_timer, next, cnum>>
    BY <1>5, HandlerFacts DEF Run
  <2>2. First(0) \in Timer \cup {Null} /\ 0 \in Bucket
    BY WalksTimers, BucketFacts
  <2> QED BY <1>0, <2>1, <2>2, StepTypes DEF InIdle
<1>6. ASSUME NextList PROVE TimersInv'
  <2>1. /\ cnum = NotIdle /\ UNCHANGED <<now, pkg, wakeup_timer, linger_timer, cnum>>
        /\ \/ h + 1 \in Bucket /\ h' = h + 1 /\ t' = First(h + 1) /\ UNCHANGED <<running, next>>
           \/ h' = 0 /\ t' = Null /\ next' = Null /\ running' = FALSE
    BY <1>6 DEF NextList
  <2>2. /\ running' \in BOOLEAN /\ h' \in Bucket
        /\ t' \in Timer \cup {Null} /\ next' \in Timer \cup {Null}
    <3>1. \A b \in Bucket : First(b) \in Timer \cup {Null}
      BY WalksTimers
    <3>2. 0 \in Bucket /\ Null \in Timer \cup {Null}
      BY BucketFacts
    <3> QED BY ONLY <1>0, <2>1, <3>1, <3>2
  <2> QED BY <1>0, <2>1, <2>2, StepTypes DEF InIdle
<1>7. ASSUME NEW proc, Called(proc)
      PROVE  /\ t \in ListedIn(pkg) /\ t \in Timer /\ pkg.struct[t].proc = proc
             /\ Consistent(pkg, wakeup_timer, linger_timer)' => TimersInv'
  <2>1. /\ t \in Listed /\ pkg.struct[t].proc = proc
        /\ cnum = NotIdle /\ UNCHANGED <<now, running, h, next, cnum>>
        /\ t' = NextOf(t)
    BY <1>7 DEF Called, Calls
  <2>2. t' \in Timer \cup {Null}
    BY <2>1, WalksTimers
  <2>3. t \in ListedIn(pkg) /\ t \in Timer
    BY <1>0, <2>1, ListedFacts DEF Listed
  <2> QED BY <1>0, <2>1, <2>2, <2>3, StepTypes DEF InIdle
<1>8. ASSUME CallWakeup PROVE TimersInv'
  <2> DEFINE c == pkg.struct[t].data
  <2>1. /\ Called("wakeup") /\ pkg' = AfterCallback(pkg, t)
        /\ wakeup_timer' = [wakeup_timer EXCEPT ![c] = Null] /\ linger_timer' = linger_timer
    BY <1>8 DEF CallWakeup
  <2>2. t \in ListedIn(pkg) /\ t \in Timer /\ pkg.struct[t].proc = "wakeup"
    BY <1>7, <2>1
  <2>3. c \in Conn /\ ~ pkg.struct[t].periodic
    BY <1>0, <2>2 DEF Kinds, Once, Package, Struct
  <2>4. wakeup_timer[c] = t
    BY <1>0, <2>2, <2>3 DEF Consistent, Owned
  <2>5. pkg' = TmrCancel(pkg, wakeup_timer[c]) /\ wakeup_timer[c] # Null
    BY <2>1, <2>2, <2>3, <2>4, TimerNotNull DEF AfterCallback
  <2> HIDE DEF c
  <2>6. Consistent(pkg, wakeup_timer, linger_timer)'
    BY <1>0, <2>1, <2>3, <2>5, WakeupCleared
  <2> QED BY <1>7, <2>1, <2>6
<1>9. ASSUME CallLinger PROVE TimersInv'
  <2> DEFINE c == pkg.struct[t].data
  <2>1. /\ Called("linger") /\ pkg' = AfterCallback(pkg, t)
        /\ linger_timer' = [linger_timer EXCEPT ![c] = Null] /\ wakeup_timer' = wakeup_timer
    BY <1>9 DEF CallLinger
  <2>2. t \in ListedIn(pkg) /\ t \in Timer /\ pkg.struct[t].proc = "linger"
    BY <1>7, <2>1
  <2>3. c \in Conn /\ ~ pkg.struct[t].periodic
    BY <1>0, <2>2 DEF Kinds, Once, Package, Struct
  <2>4. linger_timer[c] = t
    BY <1>0, <2>2, <2>3 DEF Consistent, Owned
  <2>5. pkg' = TmrCancel(pkg, linger_timer[c]) /\ linger_timer[c] # Null
    BY <2>1, <2>2, <2>3, <2>4, TimerNotNull DEF AfterCallback
  <2> HIDE DEF c
  <2>6. Consistent(pkg, wakeup_timer, linger_timer)'
    <3>1. \A d \in Conn : linger_timer[d] # Null =>
            Consistent(TmrCancel(pkg, linger_timer[d]), wakeup_timer,
                       [linger_timer EXCEPT ![d] = Null])
      BY <1>0, LingerCleared
    <3> QED BY <3>1, <2>1, <2>3, <2>5
  <2> QED BY <1>7, <2>1, <2>6
<1>10. ASSUME CallOccasional PROVE TimersInv'
  <2> DEFINE p == TmrCleanup(pkg)
  <2>1. /\ Called("occasional") /\ pkg' = AfterCallback(p, t)
        /\ linger_timer' = linger_timer /\ wakeup_timer' = wakeup_timer
    BY <1>10 DEF CallOccasional
  <2>2. t \in ListedIn(pkg) /\ t \in Timer /\ pkg.struct[t].proc = "occasional"
    BY <1>7, <2>1
  <2>3. InOrder(p) /\ ListedIn(p) = ListedIn(pkg) /\ p.struct = pkg.struct
    BY <1>0, CleanupKeeps
  <2>4. p.struct[t].periodic
    BY <1>0, <2>2, <2>3 DEF Kinds, Once
  <2>5. pkg' = Reschedule(p, t)
    BY <2>1, <2>4 DEF AfterCallback
  <2> HIDE DEF p
  <2>6. /\ InOrder(pkg') /\ ListedIn(pkg') = ListedIn(pkg)
        /\ \A u \in Timer : /\ pkg'.struct[u].proc = pkg.struct[u].proc
                            /\ pkg'.struct[u].data = pkg.struct[u].data
                            /\ pkg'.struct[u].periodic = pkg.struct[u].periodic
    BY <2>2, <2>3, <2>5, RescheduleKeeps
  <2>7. Consistent(pkg, wakeup_timer, linger_timer)'
    BY <1>0, <2>1, <2>6, SameTimers
  <2> QED BY <1>7, <2>1, <2>7
<1>11. ASSUME CallIdle PROVE TimersInv'
  <2>1. /\ running /\ t \in Listed /\ pkg.struct[t].proc = "idle"
        /\ next' = NextOf(t) /\ cnum' = 0
        /\ UNCHANGED <<now, running, h, t, pkg, wakeup_timer, linger_timer>>
    BY <1>11 DEF CallIdle, Calls
  <2>2. next' \in Timer \cup {Null} /\ 0 \in Conn
    BY <2>1, WalksTimers, TimersAssumption DEF Conn
  <2> QED BY <1>0, <2>1, <2>2, StepTypes DEF InIdle, Listed
<1>12. ASSUME IdleSlot PROVE TimersInv'
  <2>1. /\ cnum \in Conn /\ cnum' = cnum + 1
        /\ UNCHANGED <<now, running, h, t, next>>
    BY <1>12 DEF IdleSlot
  <2>2. cnum + 1 \in Conn \cup {MaxConnects} /\ cnum # NotIdle
    BY <2>1, TimersAssumption DEF Conn, NotIdle
  <2>3. running /\ t \in ListedIn(pkg) /\ pkg.struct[t].proc = "idle"
    BY <2>2 DEF TimersInv, InIdle, Listed
  <2>4. Consistent(pkg, wakeup_timer, linger_timer)' /\ IdleStays(pkg, pkg')
    <3>1. CASE UNCHANGED <<pkg, wakeup_timer, linger_timer>>
      BY <3>1, <1>0 DEF IdleStays
    <3>2. CASE linger_timer[cnum] = Null /\ \E linger \in ShouldLinger : Cleared(cnum, linger)
      <4>1. PICK linger \in BOOLEAN : Cleared(cnum, linger)
        BY <3>2, TimersAssumption
      <4> QED BY <2>1, <3>2, <4>1, ClearKeeps DEF Cleared
    <3> QED BY <1>12, <3>1, <3>2 DEF IdleSlot
  <2>5. InIdle'
    BY <2>1, <2>3, <2>4 DEF InIdle, IdleStays, Listed
  <2> QED BY <1>0, <2>1, <2>2, <2>4, <2>5, StepTypes
<1>13. ASSUME IdleReturns PROVE TimersInv'
  <2>1. /\ cnum = MaxConnects /\ pkg' = AfterCallback(pkg, t)
        /\ t' = next /\ next' = Null /\ cnum' = NotIdle
        /\ UNCHANGED <<now, wakeup_timer, linger_timer, running, h>>
    BY <1>13 DEF IdleReturns
  <2>2. t \in ListedIn(pkg) /\ pkg.struct[t].proc = "idle"
    BY <2>1, TimersAssumption DEF TimersInv, InIdle, Listed, NotIdle
  <2>3. pkg.struct[t].periodic
    BY <1>0, <2>2 DEF Kinds, Once
  <2>4. pkg' = Reschedule(pkg, t)
    BY <2>1, <2>3 DEF AfterCallback
  <2>5. /\ InOrder(pkg') /\ ListedIn(pkg') = ListedIn(pkg)
        /\ \A u \in Timer : /\ pkg'.struct[u].proc = pkg.struct[u].proc
                            /\ pkg'.struct[u].data = pkg.struct[u].data
                            /\ pkg'.struct[u].periodic = pkg.struct[u].periodic
    BY <1>0, <2>2, <2>4, RescheduleKeeps
  <2>6. Consistent(pkg, wakeup_timer, linger_timer)'
    BY <1>0, <2>1, <2>5, SameTimers
  <2> QED BY <1>0, <2>1, <2>6, StepTypes DEF InIdle
<1>14. ASSUME UNCHANGED tvars PROVE TimersInv'
  <2>1. UNCHANGED <<now, pkg, wakeup_timer, linger_timer, running, h, t, next, cnum>>
    BY <1>14 DEF tvars, walkVars
  <2> QED BY <1>0, <2>1, StepTypes DEF InIdle, Listed, TimersInv
<1> QED BY <1>1, <1>2, <1>3, <1>4, <1>5, <1>6, <1>8, <1>9, <1>10, <1>11, <1>12, <1>13, <1>14
        DEF Next, Walk

-----------------------------------------------------------------------------
(***************************************************************************)
(* tmr_mstimeout looks at the first timers only, which is enough because   *)
(* the lists are sorted.                                                   *)
(***************************************************************************)
LEMMA FirstsEnough ==
  ASSUME TimersInv
  PROVE  PollWakesForFirst
<1>0. now \in Nat /\ pkg \in Package /\ Sorted(pkg)
  BY TimersAssumption DEF TimersInv, TypeOK, Consistent, InOrder
<1> DEFINE Some == {b \in Bucket : First(b) # Null}
           first == {pkg.struct[First(b)].time : b \in Some}
           least == CHOOSE time \in first : \A u \in first : time <= u
<1>1. \A b \in Some : First(b) \in Timer /\ pkg.struct[First(b)].time \in Nat
  BY <1>0, WalksTimers DEF Package, Struct
<1> SUFFICES ASSUME NEW tm \in Listed
    PROVE  TmrMstimeout <= AtLeastZero(pkg.struct[tm].time - now)
  BY DEF PollWakesForFirst
<1>2. PICK b \in Bucket : \E i \in DOMAIN pkg.timers[b] : pkg.timers[b][i] = tm
  BY <1>0, InItsList DEF Listed
<1>3. PICK i \in DOMAIN pkg.timers[b] : pkg.timers[b][i] = tm
  BY <1>2
<1>4. /\ First(b) = pkg.timers[b][1] /\ First(b) \in Timer
      /\ tm \in Timer /\ pkg.struct[tm].time \in Nat
      /\ 1 \in DOMAIN pkg.timers[b] /\ i \in Nat /\ 1 <= i
  <2> DEFINE list == pkg.timers[b]
  <2>1. list \in Seq(Timer) /\ First(b) = IF list = <<>> THEN Null ELSE Head(list)
    BY <1>0 DEF Package, First
  <2>2. i \in 1 .. Len(list) /\ list[i] = tm
    BY <1>3, <2>1
  <2> HIDE DEF list
  <2>3. /\ list # <<>> /\ Head(list) = list[1] /\ list[1] \in Timer /\ tm \in Timer
        /\ 1 \in DOMAIN list /\ i \in Nat /\ 1 <= i
    BY <2>1, <2>2
  <2> QED BY <2>1, <2>3, <1>0 DEF list, Package, Struct
<1>5. pkg.struct[First(b)].time <= pkg.struct[tm].time
  <2>1. CASE i = 1 BY <2>1, <1>3, <1>4
  <2>2. CASE 1 < i
    BY <2>2, <1>0, <1>3, <1>4 DEF Sorted
  <2> QED BY <2>1, <2>2, <1>4
<1>6. b \in Some
  BY <1>4, TimerNotNull
<1>7. least \in Nat /\ least <= pkg.struct[First(b)].time
  <2>1. first \in SUBSET Nat /\ pkg.struct[First(b)].time \in first
    BY <1>1, <1>6
  <2> HIDE DEF first
  <2>2. \E time \in first : \A u \in first : time <= u
    BY <2>1, LeastExists
  <2>3. least \in first /\ \A u \in first : least <= u
    BY <2>2
  <2> QED BY <2>1, <2>3
<1>8. TmrMstimeout = AtLeastZero(least - now)
  BY DEF TmrMstimeout
<1> HIDE DEF least
<1>9. pkg.struct[First(b)].time \in Nat
  BY <1>1, <1>6
<1> QED BY <1>0, <1>4, <1>5, <1>7, <1>8, <1>9 DEF AtLeastZero

(***************************************************************************)
(* Whatever the callbacks cancel and create, and in the middle of tmr_run  *)
(* (timers.c:249), the lists are sorted, no timer is lost or in two        *)
(* places, the counts are right, the connections' pointers name their own  *)
(* timers, and poll() wakes for the first timer due: for any number of     *)
(* connections and buckets, any delays and any clock.                      *)
(***************************************************************************)
THEOREM ListsAlwaysSound == Spec => []ListsSound
<1>1. TimersInv /\ [Next]_tvars => TimersInv'
  BY StepKeeps
<1>2. TimersInv => ListsSound
  BY FirstsEnough DEF TimersInv, ListsSound, ListsInOrder, Consistent, InOrder,
                      PointersNameTheirTimers
<1> QED BY InitEstablishes, <1>1, <1>2, PTL DEF Spec

(***************************************************************************)
(* idle clears connections only from within its own callback, and its own  *)
(* timer stays scheduled meanwhile (tweb.c:2157): tmr_run then reschedules *)
(* a timer that is in its list.                                            *)
(***************************************************************************)
THEOREM IdleKeepsItsTimer == Spec => []InIdle
<1>1. TimersInv /\ [Next]_tvars => TimersInv'
  BY StepKeeps
<1>2. TimersInv => InIdle
  BY DEF TimersInv
<1> QED BY InitEstablishes, <1>1, <1>2, PTL DEF Spec

-----------------------------------------------------------------------------
(***************************************************************************)
(* Timers implements Alarms.  Besides TimersInv it takes that the two      *)
(* periodic timers have the periods main() gave them.                      *)
(***************************************************************************)
AlarmOf(p, tm) == <<p.struct[tm].proc, p.struct[tm].data>>

Periods(p) ==
  \A tm \in ListedIn(p) :
    /\ p.struct[tm].proc = "occasional" => p.struct[tm].msecs = OCCASIONAL_TIME
    /\ p.struct[tm].proc = "idle" => p.struct[tm].msecs = IDLE_TIME

\* A scheduled timer is the only one of its alarm, so its time is when that is due.
LEMMA DueOfTimer ==
  ASSUME NEW p, InOrder(p), Kinds(p), NEW tm \in ListedIn(p)
  PROVE  /\ AlarmOf(p, tm) \in Callback
         /\ DueTime(p, AlarmOf(p, tm)) = p.struct[tm].time
         /\ DueTimes(p)[AlarmOf(p, tm)] = p.struct[tm].time
         /\ p.struct[tm].time \in Nat /\ p.struct[tm].msecs \in Nat
         /\ p.struct[tm].data \in Conn
<1> DEFINE a == AlarmOf(p, tm)
<1>1. p \in Package /\ p.struct[tm] \in Struct /\ p.struct[tm].proc # "none"
  BY ListedFacts DEF InOrder, Kinds
<1>2. a \in Callback
  BY <1>1 DEF AlarmOf, Callback, Kinds, Struct, Once
<1>3. TimersOf(p, a) = {tm}
  BY DEF TimersOf, AlarmOf, Kinds
<1>4. DueTime(p, a) = p.struct[tm].time
  BY <1>3 DEF DueTime
<1> QED BY <1>1, <1>2, <1>4 DEF DueTimes, Struct

LEMMA DueUnset ==
  ASSUME NEW p, InOrder(p), NEW a
  PROVE  DueTime(p, a) = -1 <=> TimersOf(p, a) = {}
<1>1. CASE TimersOf(p, a) # {}
  <2>1. PICK tm \in TimersOf(p, a) : DueTime(p, a) = p.struct[tm].time
    BY <1>1 DEF DueTime
  <2>2. p.struct[tm] \in Struct
    BY <2>1, ListedFacts DEF TimersOf, InOrder
  <2> QED BY <1>1, <2>1, <2>2 DEF Struct
<1> QED BY <1>1 DEF DueTime

\* A pointer is null when there is no such alarm.
LEMMA PointerUnset ==
  ASSUME NEW p, NEW w, NEW l, Consistent(p, w, l), NEW c \in Conn
  PROVE  /\ <<"wakeup", c>> \in Callback /\ <<"linger", c>> \in Callback
         /\ w[c] = Null <=> DueTimes(p)[<<"wakeup", c>>] = -1
         /\ l[c] = Null <=> DueTimes(p)[<<"linger", c>>] = -1
<1>1. <<"wakeup", c>> \in Callback /\ <<"linger", c>> \in Callback
  BY DEF Callback
<1>2. InOrder(p) /\ ListedIn(p) \in SUBSET Timer
  BY ListedFacts DEF Consistent, InOrder
<1>3. TimersOf(p, <<"wakeup", c>>) = {} <=> w[c] = Null
  BY <1>2, TimerNotNull DEF TimersOf, Consistent, Owned
<1>4. TimersOf(p, <<"linger", c>>) = {} <=> l[c] = Null
  BY <1>2, TimerNotNull DEF TimersOf, Consistent, Owned
<1> QED BY <1>1, <1>2, <1>3, <1>4, DueUnset DEF DueTimes

\* An alarm whose timers are the same, with the same times, is due at the same time.
LEMMA SameDue ==
  ASSUME NEW p, NEW q, NEW a, TimersOf(q, a) = TimersOf(p, a),
         \A tm \in TimersOf(p, a) : q.struct[tm].time = p.struct[tm].time
  PROVE  DueTime(q, a) = DueTime(p, a)
<1>1. CASE TimersOf(p, a) = {}
  BY <1>1 DEF DueTime
<1>2. CASE TimersOf(p, a) # {}
  <2>1. (CHOOSE tm \in TimersOf(p, a) : TRUE) \in TimersOf(p, a)
    BY <1>2
  <2> QED BY <1>2, <2>1 DEF DueTime
<1> QED BY <1>1, <1>2

LEMMA CancelDue ==
  ASSUME NEW p, InOrder(p), Kinds(p), Periods(p), NEW tm \in ListedIn(p)
  PROVE  /\ DueTimes(TmrCancel(p, tm)) = [DueTimes(p) EXCEPT ![AlarmOf(p, tm)] = -1]
         /\ Periods(TmrCancel(p, tm))
<1> DEFINE q == TmrCancel(p, tm)
           b == AlarmOf(p, tm)
<1>1. ListedIn(q) = ListedIn(p) \ {tm} /\ q.struct = p.struct
  BY CancelKeeps
<1> HIDE DEF q
<1>2. ASSUME NEW a, a = b PROVE DueTime(q, a) = -1
  <2>1. TimersOf(q, a) = {}
    BY <1>1, <1>2 DEF TimersOf, AlarmOf, Kinds
  <2> QED BY <2>1 DEF DueTime
<1>3. ASSUME NEW a \in Callback, a # b PROVE DueTime(q, a) = DueTime(p, a)
  <2>1. a = <<a[1], a[2]>>
    BY DEF Callback
  <2>2. tm \notin TimersOf(p, a)
    BY <1>3, <2>1 DEF TimersOf, AlarmOf
  <2>3. TimersOf(q, a) = TimersOf(p, a)
    BY <1>1, <2>2 DEF TimersOf
  <2> QED BY <1>1, <2>3, SameDue
<1>4. DueTimes(q) = [DueTimes(p) EXCEPT ![b] = -1]
  BY <1>2, <1>3 DEF DueTimes
<1>5. Periods(q)
  BY <1>1 DEF Periods
<1> QED BY <1>4, <1>5 DEF q

LEMMA CreatedTime ==
  ASSUME NEW p \in Package, NextTimer(p) \in Timer, NEW proc, NEW data,
         NEW msecs, NEW periodic
  PROVE  LET q == TmrCreate(p, proc, data, msecs, periodic)
         IN  /\ q.struct[NextTimer(p)].time = now + msecs
             /\ q.struct[NextTimer(p)].msecs = msecs
<1> DEFINE tm == NextTimer(p)
           taken == IF p.free_timers # <<>>
                      THEN [p EXCEPT !.free_timers = Tail(@), !.free_count = @ - 1]
                      ELSE [p EXCEPT !.allocated = @ \cup {tm}, !.alloc_count = @ + 1]
           new == [proc |-> proc, data |-> data, msecs |-> msecs,
                   periodic |-> periodic, time |-> now + msecs,
                   hash |-> Hash(now + msecs)]
           filled == [taken EXCEPT !.struct[tm] = new]
           added == LAdd(filled, tm)
           q == [added EXCEPT !.active_count = @ + 1]
<1>1. TmrCreate(p, proc, data, msecs, periodic) = q
  BY DEF TmrCreate
<1>2. /\ taken.struct = p.struct
      /\ DOMAIN taken = DOMAIN p /\ taken = [f \in DOMAIN p |-> taken[f]]
      /\ {"struct", "timers", "active_count"} \subseteq DOMAIN p
      /\ tm \in DOMAIN p.struct
  BY DEF Package
<1> HIDE DEF taken, tm
<1>3. new.time = now + msecs /\ new.msecs = msecs
  OBVIOUS
<1> HIDE DEF new
<1>4. /\ filled.struct[tm] = new /\ DOMAIN filled = DOMAIN p
  BY <1>2
<1> HIDE DEF filled
<1>5. /\ added.struct = filled.struct /\ DOMAIN added = DOMAIN p
  BY <1>2, <1>4 DEF LAdd
<1> HIDE DEF added
<1>6. q.struct = added.struct
  BY <1>2, <1>5
<1> HIDE DEF q
<1> QED BY <1>1, <1>3, <1>4, <1>5, <1>6 DEF tm

\* tmr_create sets the alarm of its callback, which was not set, and no other.
LEMMA CreateDue ==
  ASSUME NEW p, InOrder(p), Room(p), Periods(p), now \in Nat,
         NEW proc \in {"occasional", "idle", "wakeup", "linger"}, NEW data \in Conn,
         NEW msecs \in Nat, NEW periodic \in BOOLEAN,
         TimersOf(p, <<proc, data>>) = {},
         proc = "occasional" => msecs = OCCASIONAL_TIME,
         proc = "idle" => msecs = IDLE_TIME
  PROVE  /\ DueTimes(TmrCreate(p, proc, data, msecs, periodic))
              = [DueTimes(p) EXCEPT ![<<proc, data>>] = now + msecs]
         /\ Periods(TmrCreate(p, proc, data, msecs, periodic))
<1> DEFINE q == TmrCreate(p, proc, data, msecs, periodic)
           tm == NextTimer(p)
           b == <<proc, data>>
<1>1. /\ tm \in Timer /\ tm \notin ListedIn(p)
      /\ ListedIn(q) = ListedIn(p) \cup {tm}
      /\ q.struct[tm].proc = proc /\ q.struct[tm].data = data
      /\ \A u \in Timer : u # tm => q.struct[u] = p.struct[u]
  BY CreateKeeps
<1>2. q.struct[tm].time = now + msecs /\ q.struct[tm].msecs = msecs
  BY <1>1, CreatedTime DEF InOrder
<1>3. ListedIn(p) \in SUBSET Timer
  BY ListedFacts DEF InOrder
<1> HIDE DEF q, tm
<1>4. DueTime(q, b) = now + msecs
  <2>1. TimersOf(q, b) = {tm}
    <3>1. \A u \in ListedIn(p) : q.struct[u] = p.struct[u]
      BY <1>1, <1>3
    <3>2. \A u \in ListedIn(p) : ~ (p.struct[u].proc = proc /\ p.struct[u].data = data)
      BY DEF TimersOf
    <3> QED BY <1>1, <3>1, <3>2 DEF TimersOf
  <2> QED BY <1>2, <2>1 DEF DueTime
<1>5. ASSUME NEW a \in Callback, a # b PROVE DueTime(q, a) = DueTime(p, a)
  <2>1. a = <<a[1], a[2]>>
    BY DEF Callback
  <2>2. ~ (q.struct[tm].proc = a[1] /\ q.struct[tm].data = a[2])
    BY <1>1, <1>5, <2>1
  <2>3. TimersOf(q, a) = TimersOf(p, a)
    BY <1>1, <1>3, <2>2 DEF TimersOf
  <2>4. \A u \in TimersOf(p, a) : q.struct[u] = p.struct[u]
    BY <1>1, <1>3 DEF TimersOf
  <2> QED BY <2>3, <2>4, SameDue
<1>6. DueTimes(q) = [DueTimes(p) EXCEPT ![b] = now + msecs]
  BY <1>4, <1>5 DEF DueTimes
<1>7. Periods(q)
  BY <1>1, <1>2, <1>3 DEF Periods
<1> QED BY <1>6, <1>7 DEF q

LEMMA RescheduledTime ==
  ASSUME NEW p \in Package, NEW tm \in Timer
  PROVE  LET q == Reschedule(p, tm)
         IN  /\ q.struct[tm].time = p.struct[tm].time + p.struct[tm].msecs
             /\ \A u \in Timer : /\ q.struct[u].msecs = p.struct[u].msecs
                                 /\ u # tm => q.struct[u].time = p.struct[u].time
<1> DEFINE time == p.struct[tm].time + p.struct[tm].msecs
           out == LRemove(p, tm)
           reset == [out EXCEPT !.struct[tm].time = time, !.struct[tm].hash = Hash(time)]
           q == LAdd(reset, tm)
<1>1. Reschedule(p, tm) = q
  BY DEF Reschedule
<1>2. /\ out.struct = p.struct
      /\ DOMAIN out = DOMAIN p
      /\ {"struct", "timers"} \subseteq DOMAIN p
      /\ p.struct \in [Timer -> Struct]
  BY DEF Package, LRemove
<1> HIDE DEF time, out
<1>3. reset.struct = [p.struct EXCEPT ![tm] = [p.struct[tm] EXCEPT !.time = time, !.hash = Hash(time)]]
  BY <1>2
<1>4. DOMAIN reset = DOMAIN p
  BY <1>2
<1> HIDE DEF reset
<1>5. q.struct = reset.struct
  BY <1>2, <1>4 DEF LAdd
<1> HIDE DEF q
<1>6. /\ q.struct[tm].time = time
      /\ \A u \in Timer : /\ q.struct[u].msecs = p.struct[u].msecs
                          /\ u # tm => q.struct[u].time = p.struct[u].time
  BY <1>2, <1>3, <1>5 DEF Struct
<1> QED BY <1>1, <1>6 DEF time

LEMMA RescheduleDue ==
  ASSUME NEW p, InOrder(p), Kinds(p), Periods(p), NEW tm \in ListedIn(p)
  PROVE  /\ DueTimes(Reschedule(p, tm))
              = [DueTimes(p) EXCEPT ![AlarmOf(p, tm)] =
                   p.struct[tm].time + p.struct[tm].msecs]
         /\ Periods(Reschedule(p, tm))
<1> DEFINE q == Reschedule(p, tm)
           b == AlarmOf(p, tm)
<1>1. /\ ListedIn(q) = ListedIn(p)
      /\ \A u \in Timer : /\ q.struct[u].proc = p.struct[u].proc
                          /\ q.struct[u].data = p.struct[u].data
  BY RescheduleKeeps
<1>2. ListedIn(p) \in SUBSET Timer /\ p \in Package
  BY ListedFacts DEF InOrder
<1>3. /\ q.struct[tm].time = p.struct[tm].time + p.struct[tm].msecs
      /\ \A u \in Timer : /\ q.struct[u].msecs = p.struct[u].msecs
                          /\ u # tm => q.struct[u].time = p.struct[u].time
  BY <1>2, RescheduledTime
<1> HIDE DEF q
<1>4. \A a : TimersOf(q, a) = TimersOf(p, a)
  BY <1>1, <1>2 DEF TimersOf
<1>5. DueTime(q, b) = p.struct[tm].time + p.struct[tm].msecs
  <2>1. TimersOf(p, b) = {tm}
    BY DEF TimersOf, AlarmOf, Kinds
  <2>2. TimersOf(q, b) = {tm}
    BY <1>4, <2>1
  <2> HIDE DEF b
  <2> QED BY <1>3, <2>2 DEF DueTime
<1>6. ASSUME NEW a \in Callback, a # b PROVE DueTime(q, a) = DueTime(p, a)
  <2>1. a = <<a[1], a[2]>>
    BY DEF Callback
  <2>2. tm \notin TimersOf(p, a)
    BY <1>6, <2>1 DEF TimersOf, AlarmOf
  <2>3. \A u \in TimersOf(p, a) : q.struct[u].time = p.struct[u].time
    BY <1>2, <1>3, <2>2 DEF TimersOf
  <2> QED BY <1>4, <2>3, SameDue
<1>7. DueTimes(q) = [DueTimes(p) EXCEPT ![b] = p.struct[tm].time + p.struct[tm].msecs]
  BY <1>5, <1>6 DEF DueTimes
<1>8. Periods(q)
  BY <1>1, <1>2, <1>3 DEF Periods
<1> QED BY <1>7, <1>8 DEF q

LEMMA CleanupDue ==
  ASSUME NEW p, InOrder(p), Kinds(p), Periods(p)
  PROVE  /\ DueTimes(TmrCleanup(p)) = DueTimes(p)
         /\ InOrder(TmrCleanup(p)) /\ Kinds(TmrCleanup(p)) /\ Periods(TmrCleanup(p))
<1> DEFINE q == TmrCleanup(p)
<1>1. InOrder(q) /\ ListedIn(q) = ListedIn(p) /\ q.struct = p.struct
  BY CleanupKeeps
<1> HIDE DEF q
<1>2. \A a : TimersOf(q, a) = TimersOf(p, a)
  BY <1>1 DEF TimersOf
<1>3. DueTimes(q) = DueTimes(p)
  <2>1. ASSUME NEW a PROVE DueTime(q, a) = DueTime(p, a)
    BY <1>1, <1>2, SameDue
  <2> QED BY <2>1 DEF DueTimes
<1>4. Kinds(q) /\ Periods(q)
  BY <1>1 DEF Kinds, Periods
<1> QED BY <1>1, <1>3, <1>4 DEF q

AlarmInv == TimersInv /\ Periods(pkg)

\* main() sets the two periodic alarms.
LEMMA InitAlarms == Init => Periods(pkg) /\ Clock!Init
<1> SUFFICES ASSUME Init PROVE Periods(pkg) /\ Clock!Init
  OBVIOUS
<1> DEFINE one == TmrCreate(TmrInit, "occasional", Null, OCCASIONAL_TIME, TRUE)
           two == TmrCreate(one, "idle", Null, IDLE_TIME, TRUE)
           none == [a \in Callback |-> -1]
           ring == <<"occasional", Null>>
           look == <<"idle", Null>>
<1>0. /\ now = 0 /\ now \in Nat /\ Null \in Conn /\ TRUE \in BOOLEAN
      /\ OCCASIONAL_TIME \in Nat /\ IDLE_TIME \in Nat
  BY TimersAssumption DEF Init, Null, Conn
<1>1. InOrder(TmrInit) /\ ListedIn(TmrInit) = {}
  BY EmptyLists
<1>2. Kinds(TmrInit) /\ Periods(TmrInit) /\ DueTimes(TmrInit) = none
  BY <1>1 DEF Kinds, Periods, DueTimes, DueTime, TimersOf
<1>3. Room(TmrInit)
  BY <1>0, <1>1, <1>2, RoomForOneMore DEF Once
<1>4. /\ InOrder(one) /\ Kinds(one)
      /\ \A tm \in ListedIn(one) : one.struct[tm].proc = "occasional"
  <2>1. \A per \in BOOLEAN :
          LET r == TmrCreate(TmrInit, "occasional", Null, OCCASIONAL_TIME, per)
              tm == NextTimer(TmrInit)
          IN  /\ InOrder(r)
              /\ ListedIn(r) = ListedIn(TmrInit) \cup {tm}
              /\ r.struct[tm].proc = "occasional"
              /\ r.struct[tm].data = Null
              /\ r.struct[tm].periodic = per
    BY <1>0, <1>1, <1>3, CreateKeeps
  <2> QED BY <1>1, <2>1 DEF Kinds, Once
<1>5. DueTimes(one) = [none EXCEPT ![ring] = OCCASIONAL_TIME] /\ Periods(one)
  <2>1. TimersOf(TmrInit, ring) = {}
    BY <1>1 DEF TimersOf
  <2>2. \A per \in BOOLEAN :
          LET r == TmrCreate(TmrInit, "occasional", Null, OCCASIONAL_TIME, per)
          IN  DueTimes(r) = [DueTimes(TmrInit) EXCEPT ![ring] = now + OCCASIONAL_TIME]
              /\ Periods(r)
    BY <1>0, <1>1, <1>2, <1>3, <2>1, CreateDue
  <2>3. now + OCCASIONAL_TIME = OCCASIONAL_TIME
    BY <1>0
  <2> QED BY <1>2, <2>2, <2>3
<1> HIDE DEF one
<1>6. Room(one)
  BY <1>0, <1>4, RoomForOneMore DEF Once
<1>7. DueTimes(two) = [DueTimes(one) EXCEPT ![look] = IDLE_TIME] /\ Periods(two)
  <2>1. TimersOf(one, look) = {}
    BY <1>4 DEF TimersOf
  <2>2. \A per \in BOOLEAN :
          LET r == TmrCreate(one, "idle", Null, IDLE_TIME, per)
          IN  DueTimes(r) = [DueTimes(one) EXCEPT ![look] = now + IDLE_TIME] /\ Periods(r)
    BY <1>0, <1>4, <1>5, <1>6, <2>1, CreateDue
  <2>3. now + IDLE_TIME = IDLE_TIME
    BY <1>0
  <2> QED BY <2>2, <2>3
<1>8. pkg = two
  BY DEF Init, two, one
<1> HIDE DEF two
<1>9. Callback = Clock!Alarm /\ ring = Clock!Occasional /\ look = Clock!Idle
  BY DEF Callback, Null, Clock!Alarm, Clock!Occasional, Clock!Idle
<1>10. DueTimes(pkg) = [a \in Clock!Alarm |->
          IF a = Clock!Occasional THEN OCCASIONAL_TIME
          ELSE IF a = Clock!Idle THEN IDLE_TIME ELSE Clock!Unset]
  BY <1>5, <1>7, <1>8, <1>9 DEF Clock!Unset
<1>11. cnum = NotIdle
  BY DEF Init
<1> QED BY <1>0, <1>7, <1>8, <1>10, <1>11 DEF Clock!Init

\* A handler, or idle, that clears a connection.
LEMMA ClearAlarms ==
  ASSUME AlarmInv, NEW c \in Conn, NEW linger \in BOOLEAN, linger_timer[c] = Null,
         Cleared(c, linger)
  PROVE  /\ Periods(pkg')
         /\ DueTimes(pkg)[<<"linger", c>>] = -1
         /\ \E time \in {-1, now + LINGER_TIME} :
              DueTimes(pkg') = [DueTimes(pkg) EXCEPT ![<<"wakeup", c>>] = -1,
                                                     ![<<"linger", c>>] = time]
<1> DEFINE s == ClearConnection(Before, c, linger)
           p == IF wakeup_timer[c] # Null THEN TmrCancel(pkg, wakeup_timer[c]) ELSE pkg
           w == IF wakeup_timer[c] # Null THEN [wakeup_timer EXCEPT ![c] = Null]
                ELSE wakeup_timer
           W == <<"wakeup", c>>
           G == <<"linger", c>>
           D == DueTimes(pkg)
<1>0. /\ Consistent(pkg, wakeup_timer, linger_timer) /\ Periods(pkg)
      /\ now \in Nat /\ LINGER_TIME \in Nat
      /\ wakeup_timer \in [Conn -> Timer \cup {Null}]
      /\ InOrder(pkg) /\ Kinds(pkg)
  BY TimersAssumption DEF AlarmInv, TimersInv, TypeOK, Consistent
<1>1. pkg' = IF linger THEN SetOnce(p, "linger", c, LINGER_TIME) ELSE p
  BY DEF Cleared, ClearConnection, Before, SetOnce
<1>2. W \in Callback /\ G \in Callback /\ W # G /\ D[G] = -1
  BY <1>0, PointerUnset
<1>3. Consistent(p, w, linger_timer)
  BY <1>0, WakeupCleared
<1>4. DueTimes(p) = [D EXCEPT ![W] = -1] /\ Periods(p)
  <2>1. CASE wakeup_timer[c] = Null
    <3>1. D[W] = -1
      BY <1>0, <2>1, PointerUnset
    <3>2. D = [D EXCEPT ![W] = -1]
      BY <3>1 DEF DueTimes
    <3> QED BY <1>0, <2>1, <3>2
  <2>2. CASE wakeup_timer[c] # Null
    <3> DEFINE tm == wakeup_timer[c]
    <3>1. tm \in ListedIn(pkg) /\ AlarmOf(pkg, tm) = W
      BY <1>0, <2>2 DEF Consistent, Owned, AlarmOf
    <3>2. p = TmrCancel(pkg, tm)
      BY <2>2
    <3> HIDE DEF tm, p
    <3> QED BY <1>0, <3>1, <3>2, CancelDue
  <2> QED BY <2>1, <2>2
<1> HIDE DEF p, w, W, G, D
<1>5. CASE ~linger
  <2>1. [D EXCEPT ![W] = -1] = [D EXCEPT ![W] = -1, ![G] = -1]
    BY <1>2 DEF D, DueTimes
  <2> QED BY <1>1, <1>2, <1>4, <1>5, <2>1 DEF D, W, G
<1>6. CASE linger
  <2>1. TimersOf(p, G) = {}
    <3>1. linger_timer[c] = Null <=> DueTimes(p)[G] = -1
      BY <1>3, PointerUnset DEF G
    <3>2. DueTime(p, G) = -1
      BY <1>2, <3>1 DEF DueTimes
    <3> QED BY <1>3, <3>2, DueUnset DEF Consistent
  <2>2. InOrder(p) /\ Kinds(p)
    BY <1>3 DEF Consistent
  <2>3. Room(p)
    <3>1. \A tm \in ListedIn(p) : ~ (p.struct[tm].proc = "linger" /\ p.struct[tm].data = c)
      BY <2>1 DEF TimersOf, G
    <3> QED BY <2>2, <3>1, RoomForOneMore DEF Once
  <2>4. /\ DueTimes(SetOnce(p, "linger", c, LINGER_TIME))
             = [DueTimes(p) EXCEPT ![G] = now + LINGER_TIME]
        /\ Periods(SetOnce(p, "linger", c, LINGER_TIME))
    BY <1>0, <1>4, <2>1, <2>2, <2>3, CreateDue DEF SetOnce, G
  <2>5. [[D EXCEPT ![W] = -1] EXCEPT ![G] = now + LINGER_TIME]
          = [D EXCEPT ![W] = -1, ![G] = now + LINGER_TIME]
    OBVIOUS
  <2> QED BY <1>1, <1>2, <1>4, <1>6, <2>4, <2>5 DEF D, W, G
<1> QED BY <1>5, <1>6

\* What tmr_run does with a timer after its callback.
LEMMA AfterAlarms ==
  ASSUME NEW p, InOrder(p), Kinds(p), Periods(p), NEW tm \in ListedIn(p)
  PROVE  LET b == AlarmOf(p, tm)
             q == AfterCallback(p, tm)
         IN  /\ Periods(q)
             /\ b[1] \in {"wakeup", "linger"} => DueTimes(q) = [DueTimes(p) EXCEPT ![b] = -1]
             /\ b[1] = "occasional" => DueTimes(q) = [DueTimes(p) EXCEPT ![b] = @ + OCCASIONAL_TIME]
             /\ b[1] = "idle" => DueTimes(q) = [DueTimes(p) EXCEPT ![b] = @ + IDLE_TIME]
<1> DEFINE b == AlarmOf(p, tm)
           q == AfterCallback(p, tm)
<1>1. /\ b[1] = p.struct[tm].proc
      /\ p.struct[tm].periodic <=> b[1] \in Once
      /\ b \in Callback
      /\ DueTimes(p)[b] = p.struct[tm].time
  BY DueOfTimer DEF AlarmOf, Kinds
<1>2. CASE p.struct[tm].periodic
  <2>1. q = Reschedule(p, tm)
    BY <1>2 DEF AfterCallback
  <2>2. DueTimes(q) = [DueTimes(p) EXCEPT ![b] = p.struct[tm].time + p.struct[tm].msecs] /\ Periods(q)
    BY <2>1, RescheduleDue
  <2> HIDE DEF q, b
  <2>3. b[1] \in {"occasional", "idle"}
    BY <1>1, <1>2 DEF Once
  <2>4. /\ b[1] = "occasional" => p.struct[tm].msecs = OCCASIONAL_TIME
        /\ b[1] = "idle" => p.struct[tm].msecs = IDLE_TIME
    BY <1>1 DEF Periods
  <2> QED BY <1>1, <2>2, <2>3, <2>4 DEF q, b
<1>3. CASE ~p.struct[tm].periodic
  <2>1. q = TmrCancel(p, tm)
    BY <1>3 DEF AfterCallback
  <2>2. DueTimes(q) = [DueTimes(p) EXCEPT ![b] = -1] /\ Periods(q)
    BY <2>1, CancelDue
  <2> HIDE DEF q, b
  <2>3. b[1] \notin {"occasional", "idle"}
    BY <1>1, <1>3 DEF Once
  <2> QED BY <2>2, <2>3 DEF q, b
<1> QED BY <1>2, <1>3

\* Every step of the package and of its callers is one of the alarms, or none.
LEMMA StepAlarms ==
  ASSUME AlarmInv, [Next]_tvars
  PROVE  Periods(pkg') /\ [Clock!Next]_(Clock!avars)
<1> DEFINE D == DueTimes(pkg)
<1>0. /\ Consistent(pkg, wakeup_timer, linger_timer) /\ TimersInv /\ Periods(pkg)
      /\ InOrder(pkg) /\ Kinds(pkg) /\ pkg \in Package
      /\ now \in Nat /\ LINGER_TIME \in Nat /\ Delays \subseteq Nat
      /\ cnum \in Conn \cup {MaxConnects, NotIdle}
      /\ NotIdle \notin Conn \cup {MaxConnects}
  BY TimersAssumption DEF AlarmInv, TimersInv, TypeOK, Consistent, InOrder, Conn, NotIdle
<1>1. ASSUME UNCHANGED <<now, pkg, cnum>>
      PROVE  Periods(pkg') /\ [Clock!Next]_(Clock!avars)
  BY <1>0, <1>1 DEF Clock!avars
<1>2. ASSUME NEW c \in Conn, Pause(c)
      PROVE  Periods(pkg') /\ Clock!Pause(c)
  <2>1. /\ wakeup_timer[c] = Null /\ linger_timer[c] = Null
        /\ UNCHANGED <<now, cnum>> /\ cnum = NotIdle
        /\ \E delay \in Delays : pkg' = TmrCreate(pkg, "wakeup", c, delay, FALSE)
    BY <1>0, <1>2, HandlerFacts DEF Pause, Handler, walkVars
  <2>2. PICK delay \in Delays : pkg' = TmrCreate(pkg, "wakeup", c, delay, FALSE)
    BY <2>1
  <2>3. D[<<"wakeup", c>>] = -1 /\ D[<<"linger", c>>] = -1
    BY <1>0, <2>1, PointerUnset
  <2>4. TimersOf(pkg, <<"wakeup", c>>) = {}
    BY <1>0, <2>3, PointerUnset, DueUnset DEF DueTimes
  <2>5. Room(pkg)
    <3>1. \A tm \in ListedIn(pkg) :
            ~ (pkg.struct[tm].proc = "wakeup" /\ pkg.struct[tm].data = c)
      BY <2>4 DEF TimersOf
    <3> QED BY <1>0, <3>1, RoomForOneMore DEF Once
  <2>6. DueTimes(pkg') = [D EXCEPT ![<<"wakeup", c>>] = now + delay] /\ Periods(pkg')
    <3>1. \A per \in BOOLEAN :
            LET r == TmrCreate(pkg, "wakeup", c, delay, per)
            IN  DueTimes(r) = [D EXCEPT ![<<"wakeup", c>>] = now + delay] /\ Periods(r)
      BY <1>0, <2>4, <2>5, CreateDue
    <3> QED BY <2>2, <3>1
  <2> QED BY <2>1, <2>3, <2>6 DEF Clock!Pause, Clock!Wakeup, Clock!Linger, Clock!Unset
<1>3. ASSUME NEW c \in Conn, NEW linger \in BOOLEAN, linger_timer[c] = Null,
             Cleared(c, linger), now' = now, (cnum # NotIdle)' = (cnum # NotIdle)
      PROVE  Periods(pkg') /\ Clock!Clear(c)
  BY <1>3, ClearAlarms DEF Clock!Clear, Clock!Wakeup, Clock!Linger, Clock!Unset
<1>4. ASSUME NEW c \in Conn, Clear(c)
      PROVE  Periods(pkg') /\ Clock!Clear(c)
  <2>1. /\ linger_timer[c] = Null /\ UNCHANGED <<now, cnum>>
        /\ \E linger \in BOOLEAN : Cleared(c, linger)
    BY <1>4 DEF Clear, Handler, walkVars
  <2> QED BY <1>3, <2>1
<1>5. ASSUME NEW c \in Conn, EndLinger(c)
      PROVE  Periods(pkg') /\ Clock!EndLinger(c)
  <2> DEFINE tm == linger_timer[c]
  <2>1. /\ tm # Null /\ UNCHANGED <<now, cnum>> /\ cnum = NotIdle
        /\ pkg' = TmrCancel(pkg, tm)
    BY <1>0, <1>5, HandlerFacts DEF EndLinger, Handler, walkVars
  <2>2. tm \in ListedIn(pkg) /\ AlarmOf(pkg, tm) = <<"linger", c>>
    BY <1>0, <2>1 DEF Consistent, Owned, AlarmOf
  <2>3. D[<<"linger", c>>] # -1
    <3>1. linger_timer[c] = Null <=> D[<<"linger", c>>] = -1
      BY <1>0, PointerUnset
    <3> QED BY <2>1, <3>1
  <2> HIDE DEF tm
  <2>4. DueTimes(pkg') = [D EXCEPT ![<<"linger", c>>] = -1] /\ Periods(pkg')
    BY <1>0, <2>1, <2>2, CancelDue
  <2> QED BY <2>1, <2>3, <2>4 DEF Clock!EndLinger, Clock!Linger, Clock!Unset
<1>6. ASSUME Tick PROVE Periods(pkg') /\ Clock!Tick
  BY <1>0, <1>6, HandlerFacts DEF Tick, Clock!Tick, walkVars
<1>7. ASSUME Run \/ NextList PROVE UNCHANGED <<now, pkg, cnum>>
  BY <1>7 DEF Run, NextList
<1>8. ASSUME NEW proc, Calls(proc)
      PROVE  LET a == AlarmOf(pkg, t)
             IN  /\ t \in ListedIn(pkg) /\ a \in Callback /\ a[1] = proc
                 /\ pkg.struct[t].data \in Conn
                 /\ D[a] # -1 /\ D[a] <= now
                 /\ cnum = NotIdle /\ now' = now
  <2>1. /\ t \in ListedIn(pkg) /\ pkg.struct[t].proc = proc
        /\ pkg.struct[t].time <= now /\ cnum = NotIdle /\ now' = now
    BY <1>8 DEF Calls, Due, Listed
  <2>2. /\ AlarmOf(pkg, t) \in Callback /\ D[AlarmOf(pkg, t)] = pkg.struct[t].time
        /\ pkg.struct[t].time \in Nat /\ pkg.struct[t].data \in Conn
    BY <1>0, <2>1, DueOfTimer
  <2>3. AlarmOf(pkg, t)[1] = proc
    BY <2>1 DEF AlarmOf
  <2> HIDE DEF D
  <2> QED BY <2>1, <2>2, <2>3
<1>9. ASSUME CallWakeup \/ CallLinger
      PROVE  Periods(pkg') /\ \E a \in {"wakeup", "linger"} \X Conn : Clock!RingOnce(a)
  <2> DEFINE a == AlarmOf(pkg, t)
  <2>1. PICK proc \in {"wakeup", "linger"} : Calls(proc)
    BY <1>9 DEF CallWakeup, CallLinger, Called
  <2>2. cnum' = cnum /\ pkg' = AfterCallback(pkg, t)
    BY <1>9 DEF CallWakeup, CallLinger, Called
  <2>3. /\ t \in ListedIn(pkg) /\ a \in Callback /\ a[1] = proc
        /\ pkg.struct[t].data \in Conn
        /\ D[a] # -1 /\ D[a] <= now /\ cnum = NotIdle /\ now' = now
    BY <1>8, <2>1
  <2>4. a = <<a[1], pkg.struct[t].data>>
    BY DEF AlarmOf
  <2> HIDE DEF a
  <2>5. a \in {"wakeup", "linger"} \X Conn
    BY <2>3, <2>4
  <2>6. DueTimes(pkg') = [D EXCEPT ![a] = -1] /\ Periods(pkg')
    BY <1>0, <2>2, <2>3, AfterAlarms DEF a
  <2>7. Clock!RingOnce(a)
    BY <2>2, <2>3, <2>6 DEF Clock!RingOnce, Clock!Rings, Clock!Unset
  <2> QED BY <2>5, <2>6, <2>7
<1>10. ASSUME NEW tm \in ListedIn(pkg), pkg.struct[tm].proc \in Once
       PROVE  AlarmOf(pkg, tm) = <<pkg.struct[tm].proc, 0>>
  BY <1>0, <1>10 DEF Kinds, AlarmOf, Null
<1>11. ASSUME CallOccasional PROVE Periods(pkg') /\ Clock!RingOccasional
  <2> DEFINE p == TmrCleanup(pkg)
             a == AlarmOf(pkg, t)
  <2>1. Calls("occasional") /\ cnum' = cnum /\ pkg' = AfterCallback(p, t)
    BY <1>11 DEF CallOccasional, Called
  <2>2. /\ t \in ListedIn(pkg) /\ a[1] = "occasional"
        /\ D[a] # -1 /\ D[a] <= now /\ cnum = NotIdle /\ now' = now
    BY <1>8, <2>1
  <2>3. a = Clock!Occasional
    BY <1>10, <2>2 DEF AlarmOf, Once, Clock!Occasional
  <2>4. /\ InOrder(p) /\ Kinds(p) /\ Periods(p) /\ DueTimes(p) = D
        /\ ListedIn(p) = ListedIn(pkg) /\ p.struct = pkg.struct
    BY <1>0, CleanupDue, CleanupKeeps
  <2>5. AlarmOf(p, t) = a
    BY <2>4 DEF AlarmOf
  <2> HIDE DEF p, a
  <2>6. DueTimes(pkg') = [D EXCEPT ![a] = @ + OCCASIONAL_TIME] /\ Periods(pkg')
    BY <2>1, <2>2, <2>4, <2>5, AfterAlarms
  <2> QED BY <2>1, <2>2, <2>3, <2>6 DEF Clock!RingOccasional, Clock!Rings, Clock!Unset
<1>12. ASSUME CallIdle PROVE Periods(pkg') /\ Clock!StartIdle
  <2> DEFINE a == AlarmOf(pkg, t)
  <2>1. Calls("idle") /\ cnum' = 0 /\ pkg' = pkg
    BY <1>12 DEF CallIdle
  <2>2. /\ t \in ListedIn(pkg) /\ a[1] = "idle"
        /\ D[a] # -1 /\ D[a] <= now /\ cnum = NotIdle /\ now' = now
    BY <1>8, <2>1
  <2>3. a = Clock!Idle
    BY <1>10, <2>2 DEF AlarmOf, Once, Clock!Idle
  <2>4. cnum' # NotIdle
    BY <2>1 DEF NotIdle
  <2> HIDE DEF a
  <2> QED BY <1>0, <2>1, <2>2, <2>3, <2>4 DEF Clock!StartIdle, Clock!Rings, Clock!Unset
<1>13. ASSUME IdleSlot PROVE Periods(pkg') /\ [Clock!Next]_(Clock!avars)
  <2>1. /\ cnum \in Conn /\ cnum # NotIdle /\ cnum' # NotIdle /\ now' = now
    BY <1>0, <1>13 DEF IdleSlot, Conn, NotIdle
  <2>2. CASE pkg' = pkg
    BY <1>0, <2>1, <2>2 DEF Clock!avars
  <2>3. CASE linger_timer[cnum] = Null /\ \E linger \in ShouldLinger : Cleared(cnum, linger)
    <3>1. PICK linger \in BOOLEAN : Cleared(cnum, linger)
      BY <2>3, TimersAssumption
    <3>2. Periods(pkg') /\ Clock!Clear(cnum)
      BY <1>3, <2>1, <2>3, <3>1
    <3> QED BY <2>1, <3>2 DEF Clock!Next
  <2> QED BY <1>13, <2>2, <2>3 DEF IdleSlot
<1>14. ASSUME IdleReturns PROVE Periods(pkg') /\ Clock!EndIdle
  <2> DEFINE a == AlarmOf(pkg, t)
  <2>1. /\ cnum = MaxConnects /\ pkg' = AfterCallback(pkg, t)
        /\ cnum' = NotIdle /\ now' = now
    BY <1>14 DEF IdleReturns
  <2>2. t \in ListedIn(pkg) /\ pkg.struct[t].proc = "idle"
    BY <1>0, <2>1 DEF TimersInv, InIdle, Listed
  <2>3. a = Clock!Idle /\ a[1] = "idle"
    BY <1>10, <2>2 DEF AlarmOf, Once, Clock!Idle
  <2>4. cnum # NotIdle
    BY <1>0, <2>1
  <2> HIDE DEF a
  <2>5. DueTimes(pkg') = [D EXCEPT ![a] = @ + IDLE_TIME] /\ Periods(pkg')
    BY <1>0, <2>1, <2>2, <2>3, AfterAlarms DEF a
  <2> QED BY <2>1, <2>3, <2>4, <2>5 DEF Clock!EndIdle
<1>15. ASSUME UNCHANGED tvars PROVE UNCHANGED <<now, pkg, cnum>>
  BY <1>15 DEF tvars, walkVars
<1>16. \/ \E c \in Conn : Clock!Pause(c) \/ Clock!Clear(c) \/ Clock!EndLinger(c)
       \/ Clock!Tick \/ Clock!RingOccasional \/ Clock!StartIdle \/ Clock!EndIdle
       \/ \E a \in {"wakeup", "linger"} \X Conn : Clock!RingOnce(a)
       => Clock!Next
  BY DEF Clock!Next
<1> QED
  BY <1>1, <1>2, <1>4, <1>5, <1>6, <1>7, <1>9, <1>11, <1>12, <1>13, <1>14, <1>15, <1>16
  DEF Next, Walk

(***************************************************************************)
(* Whatever tmr_run and the callbacks do to the lists, the structs and the *)
(* free list meanwhile (timers.c:249), every alarm rings at most once, not *)
(* before its time and not after it was cancelled, occasional and idle are *)
(* due again a period after the time they were due, and no call changes an *)
(* alarm of another connection, until tmr_run runs a cancelled timer: for  *)
(* any number of connections and buckets, any delays and any clock.        *)
(***************************************************************************)
THEOREM AlarmsImplemented == Spec => ImplementsAlarms
<1>1. Init => AlarmInv /\ Clock!Init
  BY InitEstablishes, InitAlarms DEF AlarmInv
<1>2. AlarmInv /\ [Next]_tvars => AlarmInv'
  <2> SUFFICES ASSUME AlarmInv, [Next]_tvars PROVE AlarmInv'
    OBVIOUS
  <2>1. TimersInv' /\ Periods(pkg')
    BY StepKeeps, StepAlarms DEF AlarmInv
  <2> QED BY <2>1 DEF AlarmInv
<1>3. AlarmInv /\ [Next]_tvars => [Clock!Next]_(Clock!avars)
  BY StepAlarms
<1> QED BY <1>1, <1>2, <1>3, PTL DEF Spec, ImplementsAlarms, Clock!Spec

-----------------------------------------------------------------------------
(***************************************************************************)
(* match.c.  First induction: a set of numbers stands for the property.    *)
(***************************************************************************)
\* Min picks it.
LEMMA MinRight ==
  ASSUME NEW T \in SUBSET Nat, T # {}
  PROVE  Min(T) \in T /\ \A y \in T : Min(T) <= y
BY LeastExists DEF Min

\* Induction, for a set of numbers in place of a property.
Inductive(P, n) == 0 \in P /\ \A k \in 1 .. n : k - 1 \in P => k \in P

LEMMA CountUp ==
  ASSUME NEW n \in Nat, NEW P, Inductive(P, n)
  PROVE  n \in P /\ \A k \in 0 .. n : k \in P
<1> DEFINE T == (0 .. n) \ P
<1>1. T = {}
  <2> SUFFICES ASSUME T # {} PROVE FALSE
    OBVIOUS
  <2>1. T \in SUBSET Nat
    OBVIOUS
  <2>2. PICK x \in T : \A y \in T : x <= y
    <3> HIDE DEF T
    <3> QED BY <2>1, LeastExists
  <2>3. x \in 1 .. n /\ x - 1 \in P
    BY <2>2 DEF Inductive
  <2>4. x \in P
    BY <2>3 DEF Inductive
  <2> QED BY <2>2, <2>4
<1> QED BY <1>1

\* A function on 0 .. n is given by its first value and its steps.
Stepping(S, base, step, n) ==
  base \in S /\ step \in [Nat -> [S -> S]] /\ n \in Nat

Computes(g, S, base, step, n) ==
  /\ g \in [0 .. n -> S]
  /\ g[0] = base
  /\ \A i \in 1 .. n : g[i] = step[i][g[i - 1]]

LEMMA Recursion ==
  ASSUME NEW S, NEW base, NEW step, NEW n, Stepping(S, base, step, n)
  PROVE  \E g : Computes(g, S, base, step, n)
<1> base \in S /\ step \in [Nat -> [S -> S]] /\ n \in Nat
  BY DEF Stepping
<1> DEFINE Right(k, g) == g[0] = base /\ \A i \in 1 .. k : g[i] = step[i][g[i - 1]]
           P == {k \in 0 .. n : \E g \in [0 .. k -> S] : Right(k, g)}
<1>1. 0 \in P
  <2> DEFINE g == [i \in 0 .. 0 |-> base]
  <2>1. g \in [0 .. 0 -> S] /\ Right(0, g)
    OBVIOUS
  <2> HIDE DEF g, Right
  <2> QED BY <2>1
<1>2. ASSUME NEW k \in 1 .. n, k - 1 \in P PROVE k \in P
  <2>1. PICK g \in [0 .. k - 1 -> S] : Right(k - 1, g)
    <3> HIDE DEF Right
    <3> QED BY <1>2
  <2> DEFINE f == [i \in 0 .. k |-> IF i = k THEN step[k][g[k - 1]] ELSE g[i]]
  <2>2. f \in [0 .. k -> S]
    OBVIOUS
  <2>3. f[0] = base
    BY <2>1
  <2>4. ASSUME NEW i \in 1 .. k PROVE f[i] = step[i][f[i - 1]]
    <3>1. CASE i = k
      <4>1. k - 1 \in 0 .. k /\ k - 1 # k
        OBVIOUS
      <4> QED BY <3>1, <4>1
    <3>2. CASE i # k
      <4>1. i \in 1 .. k - 1 /\ i - 1 \in 0 .. k /\ i - 1 # k
        BY <3>2
      <4> QED BY <4>1, <2>1, <3>2
    <3> QED BY <3>1, <3>2
  <2>5. Right(k, f)
    BY <2>3, <2>4
  <2> HIDE DEF f, Right
  <2> QED BY <2>2, <2>5
<1> HIDE DEF P
<1>3. Inductive(P, n)
  BY <1>1, <1>2 DEF Inductive
<1>4. n \in P
  BY <1>3, CountUp
<1>5. PICK g \in [0 .. n -> S] : Right(n, g)
  BY <1>4 DEF P
<1> QED BY <1>5 DEF Computes

\* A function on 1 .. n + 1 is given by its last value and the steps down, some
\* of which go two places at once.
Backing(S, base, one, two, wide, n) ==
  /\ n \in Nat /\ base \in S
  /\ one \in [1 .. n -> [S -> S]] /\ two \in [1 .. n -> [S -> S]]
  /\ \A i \in wide : i + 1 \in 1 .. n

Comes(g, base, one, two, wide, n, i) ==
  IF i > n THEN base ELSE IF i \in wide THEN two[i][g[i + 2]] ELSE one[i][g[i + 1]]

LEMMA BackRecursion ==
  ASSUME NEW S, NEW base, NEW one, NEW two, NEW wide, NEW n,
         Backing(S, base, one, two, wide, n)
  PROVE  \E g \in [1 .. n + 1 -> S] :
            \A i \in 1 .. n + 1 : g[i] = Comes(g, base, one, two, wide, n, i)
<1> /\ n \in Nat /\ base \in S
    /\ one \in [1 .. n -> [S -> S]] /\ two \in [1 .. n -> [S -> S]]
    /\ \A i \in wide : i + 1 \in 1 .. n
  BY DEF Backing
<1> DEFINE C(g, i) == Comes(g, base, one, two, wide, n, i)
           Right(k, g) == \A i \in n + 1 - k .. n + 1 : g[i] = C(g, i)
           P == {k \in 0 .. n : \E g \in [1 .. n + 1 -> S] : Right(k, g)}
<1>1. 0 \in P
  <2> DEFINE g == [i \in 1 .. n + 1 |-> base]
  <2>1. g \in [1 .. n + 1 -> S]
    OBVIOUS
  <2>2. ASSUME NEW i \in n + 1 - 0 .. n + 1 PROVE g[i] = C(g, i)
    <3>1. i = n + 1 /\ i \in 1 .. n + 1 /\ i > n
      OBVIOUS
    <3> QED BY <3>1 DEF Comes
  <2>3. Right(0, g)
    BY <2>2
  <2> HIDE DEF g, Right
  <2> QED BY <2>1, <2>3
<1>2. ASSUME NEW k \in 1 .. n, k - 1 \in P PROVE k \in P
  <2>1. PICK g \in [1 .. n + 1 -> S] : Right(k - 1, g)
    <3> HIDE DEF Right
    <3> QED BY <1>2
  <2> DEFINE m == n + 1 - k
             v == C(g, m)
             f == [g EXCEPT ![m] = v]
  <2>2. m \in 1 .. n
    OBVIOUS
  <2>3. v \in S
    <3>1. CASE m \in wide
      <4>1. m + 2 \in 1 .. n + 1
        BY <2>2, <3>1
      <4>2. v = two[m][g[m + 2]] /\ two[m] \in [S -> S] /\ g[m + 2] \in S
        BY <2>2, <3>1, <4>1 DEF Comes
      <4> QED BY <4>2
    <3>2. CASE m \notin wide
      <4>1. m + 1 \in 1 .. n + 1
        BY <2>2
      <4>2. v = one[m][g[m + 1]] /\ one[m] \in [S -> S] /\ g[m + 1] \in S
        BY <2>2, <3>2, <4>1 DEF Comes
      <4> QED BY <4>2
    <3> QED BY <3>1, <3>2
  <2> HIDE DEF v
  <2>4. f \in [1 .. n + 1 -> S]
    BY <2>3
  <2>5. f[m] = v /\ \A i \in 1 .. n + 1 : i # m => f[i] = g[i]
    BY <2>2, <2>4
  <2> HIDE DEF f
  <2>6. ASSUME NEW i \in m .. n + 1 PROVE C(f, i) = C(g, i)
    <3>1. i \in Nat /\ i >= m /\ i <= n + 1
      BY <2>2
    <3>2. CASE i > n
      BY <3>2 DEF Comes
    <3>3. CASE ~(i > n) /\ i \in wide
      <4>1. i + 2 \in 1 .. n + 1 /\ i + 2 # m
        BY <2>2, <3>1, <3>3
      <4>2. f[i + 2] = g[i + 2]
        BY <2>5, <4>1
      <4> QED BY <3>3, <4>2 DEF Comes
    <3>4. CASE ~(i > n) /\ i \notin wide
      <4>1. i + 1 \in 1 .. n + 1 /\ i + 1 # m
        BY <2>2, <3>1, <3>4
      <4>2. f[i + 1] = g[i + 1]
        BY <2>5, <4>1
      <4> QED BY <3>4, <4>2 DEF Comes
    <3> QED BY <3>2, <3>3, <3>4
  <2>7. ASSUME NEW i \in m .. n + 1 PROVE f[i] = C(f, i)
    <3>1. CASE i = m
      BY <2>5, <2>6, <3>1 DEF v
    <3>2. CASE i # m
      <4>1. i \in n + 1 - (k - 1) .. n + 1 /\ i \in 1 .. n + 1
        BY <2>2, <3>2
      <4>2. g[i] = C(g, i)
        BY <2>1, <4>1
      <4> QED BY <2>5, <2>6, <3>2, <4>1, <4>2
    <3> QED BY <3>1, <3>2
  <2>8. Right(k, f)
    BY <2>7
  <2> HIDE DEF Right
  <2> QED BY <2>4, <2>8
<1> HIDE DEF P
<1>3. Inductive(P, n)
  BY <1>1, <1>2 DEF Inductive
<1>4. n \in P
  BY <1>3, CountUp
<1>5. PICK g \in [1 .. n + 1 -> S] : Right(n, g)
  BY <1>4 DEF P
<1>6. \A i \in 1 .. n + 1 : g[i] = C(g, i)
  <2>1. n + 1 - n = 1
    OBVIOUS
  <2> QED BY <1>5, <2>1
<1> QED BY <1>6

(***************************************************************************)
(* The characters of a string: neither the NUL at its end nor the pair of  *)
(* stars that Wildcards writes as one.                                     *)
(***************************************************************************)
Text(C, s) == s \in Seq(C) /\ End \notin C /\ "**" \notin C

LEMMA CharIs ==
  ASSUME NEW C, NEW s, Text(C, s), NEW i \in Int
  PROVE  /\ i \in 1 .. Len(s) => Char(s, i) = s[i] /\ s[i] \in C /\ s[i] # End
         /\ i \notin 1 .. Len(s) => Char(s, i) = End
BY DEF Text, Char

\* The second star of a pair is still a character of the pattern.
LEMMA PairWithin ==
  ASSUME NEW C, NEW p, Text(C, p), NEW i \in 1 .. Len(p), Double(p, i)
  PROVE  i + 1 \in 1 .. Len(p)
<1>1. Char(p, i + 1) = "*" /\ i + 1 \in Int
  BY DEF Double
<1>2. "*" # End
  BY DEF End
<1> QED BY <1>1, <1>2, CharIs

\* The slash or the end that a single wildcard stops at.
LEMMA BeforeSlashRight ==
  ASSUME NEW C, NEW s, Text(C, s), NEW j \in 1 .. Len(s) + 1
  PROVE  /\ BeforeSlash(s, j) \in 0 .. Len(s) + 1 - j
         /\ \A k \in 0 .. BeforeSlash(s, j) - 1 : s[j + k] # "/"
         /\ j + BeforeSlash(s, j) \in 1 .. Len(s) => s[j + BeforeSlash(s, j)] = "/"
<1> DEFINE S == {k \in 0 .. Len(s) : Char(s, j + k) \in {"/", End}}
           l == Len(s) + 1 - j
           m == BeforeSlash(s, j)
<1>0. Len(s) \in Nat /\ l \in 0 .. Len(s)
  BY DEF Text
<1>1. l \in S
  <2>1. j + l \notin 1 .. Len(s) /\ j + l \in Int
    BY <1>0
  <2>2. Char(s, j + l) = End
    BY <2>1, CharIs
  <2>3. l \in 0 .. Len(s)
    BY <1>0
  <2> HIDE DEF l
  <2> QED BY <2>2, <2>3
<1>2. S \in SUBSET Nat /\ S # {}
  <2>1. S \in SUBSET Nat
    OBVIOUS
  <2> HIDE DEF S, l
  <2> QED BY <1>1, <2>1
<1>3. m = Min(S)
  BY DEF BeforeSlash
<1>4. m \in S /\ \A k \in S : m <= k
  <2> HIDE DEF S, m
  <2> QED BY <1>2, <1>3, MinRight
<1>5. m \in 0 .. Len(s) /\ Char(s, j + m) \in {"/", End} /\ m <= l
  BY <1>1, <1>4
<1>6. ASSUME NEW k \in 0 .. m - 1 PROVE s[j + k] # "/"
  <2>1. k \in 0 .. Len(s) /\ k < m /\ j + k \in 1 .. Len(s) /\ j + k \in Int
    BY <1>0, <1>5
  <2>2. k \notin S
    BY <1>4, <2>1
  <2>3. Char(s, j + k) # "/"
    BY <2>1, <2>2
  <2> QED BY <2>1, <2>3, CharIs
<1>7. ASSUME j + m \in 1 .. Len(s) PROVE s[j + m] = "/"
  <2>1. Char(s, j + m) = s[j + m] /\ s[j + m] # End
    <3>1. j + m \in Int
      BY <1>7
    <3> QED BY <1>7, <3>1, CharIs
  <2> QED BY <1>5, <2>1
<1>8. m \in 0 .. l
  BY <1>0, <1>5
<1> HIDE DEF m
<1> QED BY <1>6, <1>7, <1>8 DEF m

(***************************************************************************)
(* match_one, place by place.                                              *)
(***************************************************************************)
Spots(s) == 1 .. Len(s) + 1

\* The places of s from which one wildcard or character of p, and then a match
\* from one of the places of X, is found.
Found(p, s, i, X) ==
  {j \in Spots(s) :
     IF p[i] = "*" THEN \E k \in 0 .. Most(p, i, s, j) : j + k \in X
     ELSE j <= Len(s) /\ p[i] \in {"?", s[j]} /\ j + 1 \in X}

Wide(p) == {i \in 1 .. Len(p) : p[i] = "*" /\ Double(p, i)}

MatchesAt(M, p, s) ==
  /\ M \in [1 .. Len(p) + 1 -> SUBSET Spots(s)]
  /\ M[Len(p) + 1] = {Len(s) + 1}
  /\ \A i \in 1 .. Len(p) :
       M[i] = Found(p, s, i, IF i \in Wide(p) THEN M[i + 2] ELSE M[i + 1])

LEMMA MatchesRight ==
  ASSUME NEW C, NEW p, NEW s, Text(C, p), Text(C, s)
  PROVE  MatchesAt(Matches(p, s), p, s)
<1> DEFINE n == Len(p)
           S == SUBSET Spots(s)
           base == {Len(s) + 1}
           one == [i \in 1 .. n |-> [X \in S |-> Found(p, s, i, X)]]
           W == Wide(p)
           Eq(f) == f = [i \in 1 .. Len(p) + 1 |->
             IF i > Len(p) THEN {Len(s) + 1}
             ELSE {j \in 1 .. Len(s) + 1 :
                     IF p[i] = "*"
                       THEN \E k \in 0 .. Most(p, i, s, j) : j + k \in f[After(p, i)]
                     ELSE /\ j <= Len(s) /\ p[i] \in {"?", s[j]}
                          /\ j + 1 \in f[i + 1]}]
<1>1. n \in Nat /\ Len(s) \in Nat
  BY DEF Text
<1>2. base \in S
  BY <1>1 DEF Spots
<1>3. \A i \in 1 .. n, X \in S : Found(p, s, i, X) \in S
  BY DEF Found
<1>4. one \in [1 .. n -> [S -> S]]
  BY <1>3
<1>5. \A i \in W : i + 1 \in 1 .. n
  BY PairWithin DEF Wide
<1>6. Backing(S, base, one, one, W, n)
  BY <1>1, <1>2, <1>4, <1>5 DEF Backing
<1>7. PICK g \in [1 .. n + 1 -> S] :
        \A i \in 1 .. n + 1 : g[i] = Comes(g, base, one, one, W, n, i)
  <2> HIDE DEF S, base, one, W
  <2> QED BY <1>6, BackRecursion
<1>8. g[n + 1] = {Len(s) + 1}
  <2>1. n + 1 \in 1 .. n + 1 /\ n + 1 > n
    BY <1>1
  <2>2. g[n + 1] = Comes(g, base, one, one, W, n, n + 1)
    BY <1>7, <2>1
  <2> QED BY <2>1, <2>2 DEF Comes
<1>9. ASSUME NEW i \in 1 .. n
      PROVE  g[i] = Found(p, s, i, IF i \in W THEN g[i + 2] ELSE g[i + 1])
  <2>1. i \in 1 .. n + 1 /\ ~(i > n)
    BY <1>1
  <2>2. g[i] = IF i \in W THEN one[i][g[i + 2]] ELSE one[i][g[i + 1]]
    BY <1>7, <2>1 DEF Comes
  <2>3. i \in W => g[i + 2] \in S
    <3>1. i \in W => i + 2 \in 1 .. n + 1
      BY <1>1, <1>5
    <3> QED BY <3>1
  <2>4. g[i + 1] \in S
    BY <1>1
  <2> HIDE DEF S, W
  <2> QED BY <2>2, <2>3, <2>4
<1>12. Eq(g)
  <2> DEFINE body(i) ==
             IF i > Len(p) THEN {Len(s) + 1}
             ELSE {j \in 1 .. Len(s) + 1 :
                     IF p[i] = "*"
                       THEN \E k \in 0 .. Most(p, i, s, j) : j + k \in g[After(p, i)]
                     ELSE /\ j <= Len(s) /\ p[i] \in {"?", s[j]}
                          /\ j + 1 \in g[i + 1]}
  <2>1. ASSUME NEW i \in 1 .. Len(p) + 1 PROVE g[i] = body(i)
    <3>1. CASE i > Len(p)
      <4>1. i = n + 1
        BY <1>1, <3>1
      <4> QED BY <1>8, <3>1, <4>1
    <3>2. CASE ~(i > Len(p))
      <4>1. i \in 1 .. n
        BY <1>1, <3>2
      <4>2. g[i] = Found(p, s, i, IF i \in W THEN g[i + 2] ELSE g[i + 1])
        BY <1>9, <4>1
      <4>3. p[i] = "*" => g[After(p, i)] = IF i \in W THEN g[i + 2] ELSE g[i + 1]
        BY <4>1 DEF After, Wide
      <4>4. p[i] # "*" => i \notin W
        BY DEF Wide
      <4>5. CASE p[i] = "*"
        BY <3>2, <4>2, <4>3, <4>5 DEF Found, Spots
      <4>6. CASE p[i] # "*"
        BY <3>2, <4>2, <4>4, <4>6 DEF Found, Spots
      <4> QED BY <4>5, <4>6
    <3> QED BY <3>1, <3>2
  <2> DEFINE F == [i \in 1 .. Len(p) + 1 |-> body(i)]
  <2>2. DOMAIN g = DOMAIN F /\ \A i \in DOMAIN F : g[i] = F[i]
    <3> HIDE DEF body
    <3> QED BY <2>1
  <2>3. g = F
    <3>1. g = [i \in DOMAIN g |-> g[i]] /\ F = [i \in DOMAIN F |-> F[i]]
      <4> HIDE DEF body
      <4> QED OBVIOUS
    <3> HIDE DEF F
    <3> QED BY <2>2, <3>1
  <2> QED BY <2>3, Zenon
<1>13. Matches(p, s) = CHOOSE f : Eq(f)
  BY DEF Matches
<1>14. Eq(Matches(p, s))
  <2> HIDE DEF Eq
  <2> QED BY <1>12, <1>13
<1> DEFINE M == Matches(p, s)
<1>15. ASSUME NEW i \in 1 .. n + 1
       PROVE  M[i] = IF i > n THEN {Len(s) + 1}
                     ELSE {j \in 1 .. Len(s) + 1 :
                             IF p[i] = "*"
                               THEN \E k \in 0 .. Most(p, i, s, j) :
                                       j + k \in M[After(p, i)]
                             ELSE /\ j <= Len(s) /\ p[i] \in {"?", s[j]}
                                  /\ j + 1 \in M[i + 1]}
  <2> HIDE DEF M
  <2>1. Eq(M)
    BY <1>14 DEF M
  <2> QED BY <2>1
<1>16. DOMAIN M = 1 .. n + 1
  <2> HIDE DEF M
  <2>1. Eq(M)
    BY <1>14 DEF M
  <2> QED BY <2>1
<1>17. M[n + 1] = {Len(s) + 1}
  <2>1. n + 1 \in 1 .. n + 1 /\ n + 1 > n
    BY <1>1
  <2> HIDE DEF M
  <2> QED BY <1>15, <2>1
<1>18. ASSUME NEW i \in 1 .. n
       PROVE  M[i] = Found(p, s, i, IF i \in W THEN M[i + 2] ELSE M[i + 1])
  <2>1. i \in 1 .. n + 1 /\ ~(i > n)
    BY <1>1
  <2>2. p[i] = "*" => M[After(p, i)] = IF i \in W THEN M[i + 2] ELSE M[i + 1]
    BY DEF After, Wide
  <2>3. p[i] # "*" => i \notin W
    BY DEF Wide
  <2>4. M[i] = {j \in 1 .. Len(s) + 1 :
                  IF p[i] = "*"
                    THEN \E k \in 0 .. Most(p, i, s, j) : j + k \in M[After(p, i)]
                  ELSE /\ j <= Len(s) /\ p[i] \in {"?", s[j]}
                       /\ j + 1 \in M[i + 1]}
    BY <1>15, <2>1, Zenon
  <2> HIDE DEF M
  <2>5. CASE p[i] = "*"
    BY <2>2, <2>4, <2>5 DEF Found, Spots
  <2>6. CASE p[i] # "*"
    BY <2>3, <2>4, <2>6 DEF Found, Spots
  <2> QED BY <2>5, <2>6
<1>19. \A i \in 1 .. n + 1 : M[i] \in S
  <2>1. \A i \in 1 .. n : M[i] \in S
    BY <1>18 DEF Found
  <2> HIDE DEF M
  <2> QED BY <1>1, <1>2, <1>17, <2>1
<1>20. M \in [1 .. n + 1 -> S]
  <2>1. M = [i \in 1 .. n + 1 |-> M[i]]
    <3> HIDE DEF M
    <3>1. Eq(M)
      BY <1>14 DEF M
    <3>2. M = [i \in DOMAIN M |-> M[i]]
      BY <3>1
    <3> HIDE DEF Eq
    <3> QED BY <1>16, <3>2
  <2> HIDE DEF M, S
  <2> QED BY <1>19, <2>1
<1> HIDE DEF M
<1>21. MatchesAt(M, p, s)
  BY <1>17, <1>18, <1>20 DEF MatchesAt
<1> QED BY <1>21 DEF M

(***************************************************************************)
(* The wildcards, place by place.                                          *)
(***************************************************************************)
Wilds(C) == C \cup {"**"}

WildcardsAt(W, C, p) ==
  /\ W \in [1 .. Len(p) + 1 -> Seq(Wilds(C))]
  /\ W[Len(p) + 1] = <<>>
  /\ \A i \in 1 .. Len(p) :
       W[i] = IF i \in Wide(p) THEN <<"**">> \o W[i + 2] ELSE <<p[i]>> \o W[i + 1]

LEMMA WildcardsRight ==
  ASSUME NEW C, NEW p, Text(C, p)
  PROVE  WildcardsAt(WildcardsFrom(p), C, p)
<1> DEFINE n == Len(p)
           S == Seq(Wilds(C))
           one == [i \in 1 .. n |-> [x \in S |-> <<p[i]>> \o x]]
           two == [i \in 1 .. n |-> [x \in S |-> <<"**">> \o x]]
           V == Wide(p)
           Eq(f) == f = [i \in 1 .. Len(p) + 1 |->
             IF i > Len(p) THEN <<>>
             ELSE IF p[i] = "*" /\ Double(p, i) THEN <<"**">> \o f[i + 2]
             ELSE <<p[i]>> \o f[i + 1]]
<1>1. n \in Nat /\ \A i \in 1 .. n : p[i] \in Wilds(C)
  BY DEF Text, Wilds
<1>2. \A x \in S : <<"**">> \o x \in S
  BY DEF Wilds
<1>3. \A i \in 1 .. n, x \in S : <<p[i]>> \o x \in S
  BY <1>1
<1>4. one \in [1 .. n -> [S -> S]]
  <2> HIDE DEF S
  <2> QED BY <1>3
<1>5. two \in [1 .. n -> [S -> S]]
  <2> HIDE DEF S
  <2> QED BY <1>2
<1>6. \A i \in V : i + 1 \in 1 .. n
  BY PairWithin DEF Wide
<1>7. <<>> \in S
  OBVIOUS
<1>8. Backing(S, <<>>, one, two, V, n)
  BY <1>1, <1>4, <1>5, <1>6, <1>7 DEF Backing
<1>9. PICK g \in [1 .. n + 1 -> S] :
        \A i \in 1 .. n + 1 : g[i] = Comes(g, <<>>, one, two, V, n, i)
  <2> HIDE DEF S, one, two, V
  <2> QED BY <1>8, BackRecursion
<1>10. ASSUME NEW i \in 1 .. n + 1
       PROVE  g[i] = IF i > Len(p) THEN <<>>
                     ELSE IF p[i] = "*" /\ Double(p, i) THEN <<"**">> \o g[i + 2]
                     ELSE <<p[i]>> \o g[i + 1]
  <2>1. CASE i > n
    BY <1>9, <2>1 DEF Comes
  <2>2. CASE ~(i > n)
    <3>1. i \in 1 .. n /\ i + 1 \in 1 .. n + 1
      BY <1>1, <2>2
    <3>2. g[i + 1] \in S
      BY <3>1
    <3>3. i \in V => g[i + 2] \in S
      <4>1. i \in V => i + 2 \in 1 .. n + 1
        BY <1>1, <1>6
      <4> QED BY <4>1
    <3>4. g[i] = IF i \in V THEN two[i][g[i + 2]] ELSE one[i][g[i + 1]]
      BY <1>9, <2>2 DEF Comes
    <3>5. i \in V <=> p[i] = "*" /\ Double(p, i)
      BY <3>1 DEF Wide
    <3> HIDE DEF S, V
    <3>6. g[i] = IF i \in V THEN <<"**">> \o g[i + 2] ELSE <<p[i]>> \o g[i + 1]
      BY <3>1, <3>2, <3>3, <3>4
    <3> QED BY <2>2, <3>5, <3>6
  <2> QED BY <2>1, <2>2
<1>11. Eq(g)
  <2> DEFINE body(i) ==
             IF i > Len(p) THEN <<>>
             ELSE IF p[i] = "*" /\ Double(p, i) THEN <<"**">> \o g[i + 2]
             ELSE <<p[i]>> \o g[i + 1]
             F == [i \in 1 .. Len(p) + 1 |-> body(i)]
  <2>1. \A i \in 1 .. Len(p) + 1 : g[i] = body(i)
    BY <1>10
  <2>2. g = F
    <3> HIDE DEF body
    <3>1. DOMAIN g = DOMAIN F /\ \A i \in DOMAIN F : g[i] = F[i]
      BY <2>1
    <3>2. g = [i \in DOMAIN g |-> g[i]] /\ F = [i \in DOMAIN F |-> F[i]]
      OBVIOUS
    <3> HIDE DEF F
    <3> QED BY <3>1, <3>2
  <2> QED BY <2>2, Zenon
<1>12. WildcardsFrom(p) = CHOOSE f : Eq(f)
  BY DEF WildcardsFrom
<1>13. Eq(WildcardsFrom(p))
  <2> HIDE DEF Eq
  <2> QED BY <1>11, <1>12
<1> DEFINE W == WildcardsFrom(p)
<1>14. DOMAIN W = 1 .. n + 1 /\ W = [i \in DOMAIN W |-> W[i]]
  <2> HIDE DEF W
  <2>1. Eq(W)
    BY <1>13 DEF W
  <2> QED BY <2>1
<1>15. ASSUME NEW i \in 1 .. n + 1
       PROVE  W[i] = IF i > Len(p) THEN <<>>
                     ELSE IF p[i] = "*" /\ Double(p, i) THEN <<"**">> \o W[i + 2]
                     ELSE <<p[i]>> \o W[i + 1]
  <2> HIDE DEF W
  <2>1. Eq(W)
    BY <1>13 DEF W
  <2> QED BY <2>1
<1> HIDE DEF W
<1>16. W[n + 1] = <<>>
  <2>1. n + 1 \in 1 .. n + 1 /\ n + 1 > n
    BY <1>1
  <2> QED BY <1>15, <2>1
<1>17. ASSUME NEW i \in 1 .. n
       PROVE  W[i] = IF i \in V THEN <<"**">> \o W[i + 2] ELSE <<p[i]>> \o W[i + 1]
  <2>1. i \in 1 .. n + 1 /\ ~(i > n)
    BY <1>1
  <2> QED BY <1>15, <2>1 DEF Wide
<1>18. \A i \in 1 .. n + 1 : W[i] \in S
  <2> DEFINE P == {k \in 0 .. n : \A i \in n + 1 - k .. n + 1 : W[i] \in S}
  <2>1. 0 \in P
    <3>1. ASSUME NEW i \in n + 1 - 0 .. n + 1 PROVE W[i] \in S
      <4>1. i = n + 1
        BY <1>1
      <4> HIDE DEF S
      <4> QED BY <1>7, <1>16, <4>1
    <3> QED BY <1>1, <3>1
  <2>2. ASSUME NEW k \in 1 .. n, k - 1 \in P PROVE k \in P
    <3> DEFINE m == n + 1 - k
    <3>1. m \in 1 .. n /\ \A i \in m + 1 .. n + 1 : W[i] \in S
      BY <1>1, <2>2
    <3>2. W[m] \in S
      <4>1. CASE m \in V
        <5>1. m + 2 \in m + 1 .. n + 1
          BY <1>1, <1>6, <3>1, <4>1
        <5> QED BY <1>2, <1>17, <3>1, <4>1, <5>1
      <4>2. CASE m \notin V
        <5>1. m + 1 \in m + 1 .. n + 1
          BY <1>1, <3>1
        <5> QED BY <1>3, <1>17, <3>1, <4>2, <5>1
      <4> QED BY <4>1, <4>2
    <3>3. \A i \in m .. n + 1 : W[i] \in S
      <4>0. m \in 1 .. n
        BY <3>1
      <4>1. ASSUME NEW i \in m .. n + 1 PROVE i = m \/ i \in m + 1 .. n + 1
        BY <1>1, <4>0
      <4> HIDE DEF m, S
      <4> QED BY <3>1, <3>2, <4>1
    <3> QED BY <3>3
  <2> HIDE DEF P
  <2>3. Inductive(P, n)
    BY <2>1, <2>2 DEF Inductive
  <2>4. n \in P
    BY <1>1, <2>3, CountUp
  <2>5. n + 1 - n = 1
    BY <1>1
  <2> QED BY <2>4, <2>5 DEF P
<1>19. W \in [1 .. n + 1 -> S]
  <2> HIDE DEF S
  <2> QED BY <1>14, <1>18
<1>20. WildcardsAt(W, C, p)
  BY <1>16, <1>17, <1>19 DEF WildcardsAt
<1> QED BY <1>20 DEF W

(***************************************************************************)
(* Cutting a string, one piece at a time.                                  *)
(***************************************************************************)
\* cut cuts s, from place j on, into pieces for ws.
CutsAt(cut, ws, s, j) ==
  /\ cut \in [0 .. Len(ws) -> 0 .. Len(s)]
  /\ cut[0] = j - 1 /\ cut[Len(ws)] = Len(s)
  /\ \A k \in 1 .. Len(ws) :
        /\ cut[k - 1] <= cut[k]
        /\ Stands(ws[k], SubSeq(s, cut[k - 1] + 1, cut[k]))

CutsFrom(ws, s, j) == \E cut : CutsAt(cut, ws, s, j)

LEMMA WholeCut == \A ws, s : CutsInto(ws, s) <=> CutsFrom(ws, s, 1)
BY DEF CutsInto, CutsFrom, CutsAt

LEMMA NothingCut ==
  ASSUME NEW C, NEW s \in Seq(C), NEW j \in Spots(s)
  PROVE  CutsFrom(<<>>, s, j) <=> j = Len(s) + 1
<1>1. ASSUME CutsFrom(<<>>, s, j) PROVE j = Len(s) + 1
  <2>1. PICK cut : CutsAt(cut, <<>>, s, j)
    BY <1>1 DEF CutsFrom
  <2>2. Len(<<>>) = 0
    OBVIOUS
  <2> QED BY <2>1, <2>2 DEF CutsAt, Spots
<1>2. ASSUME j = Len(s) + 1 PROVE CutsFrom(<<>>, s, j)
  <2> DEFINE cut == [k \in 0 .. 0 |-> Len(s)]
  <2>1. Len(<<>>) = 0 /\ Len(s) \in Nat
    OBVIOUS
  <2>2. cut \in [0 .. 0 -> 0 .. Len(s)] /\ cut[0] = Len(s) /\ j - 1 = Len(s)
    BY <1>2, <2>1
  <2> HIDE DEF cut
  <2>3. CutsAt(cut, <<>>, s, j)
    BY <2>1, <2>2 DEF CutsAt
  <2> QED BY <2>3 DEF CutsFrom
<1> QED BY <1>1, <1>2

LEMMA OneMore ==
  ASSUME NEW T, NEW w \in T, NEW ws \in Seq(T)
  PROVE  /\ Len(ws) \in Nat /\ Len(<<w>> \o ws) = Len(ws) + 1
         /\ (<<w>> \o ws)[1] = w
         /\ \A k \in 1 .. Len(ws) : (<<w>> \o ws)[k + 1] = ws[k]
OBVIOUS

\* The first piece, and a cut of the rest.
LEMMA FirstCut ==
  ASSUME NEW T, NEW w \in T, NEW ws \in Seq(T), NEW C, NEW s \in Seq(C),
         NEW j \in Spots(s), CutsFrom(<<w>> \o ws, s, j)
  PROVE  \E e \in j .. Len(s) + 1 :
            Stands(w, SubSeq(s, j, e - 1)) /\ CutsFrom(ws, s, e)
<1> DEFINE all == <<w>> \o ws
           n == Len(ws)
<1>1. /\ n \in Nat /\ Len(all) = n + 1 /\ all[1] = w
      /\ \A k \in 1 .. n : all[k + 1] = ws[k]
  BY OneMore
<1>2. PICK cut : CutsAt(cut, all, s, j)
  BY DEF CutsFrom
<1> HIDE DEF all
<1>3. /\ cut \in [0 .. n + 1 -> 0 .. Len(s)]
      /\ cut[0] = j - 1 /\ cut[n + 1] = Len(s)
      /\ \A k \in 1 .. n + 1 :
            /\ cut[k - 1] <= cut[k]
            /\ Stands(all[k], SubSeq(s, cut[k - 1] + 1, cut[k]))
  BY <1>1, <1>2 DEF CutsAt
<1>4. Len(s) \in Nat /\ j \in 1 .. Len(s) + 1
  BY DEF Spots
<1> DEFINE e == cut[1] + 1
           c == [k \in 0 .. n |-> cut[k + 1]]
<1> HIDE DEF n
<1>5. cut[1] \in 0 .. Len(s) /\ cut[0] <= cut[1] /\ e \in j .. Len(s) + 1
      /\ cut[0] + 1 = j /\ e - 1 = cut[1]
  <2>1. 1 \in 1 .. n + 1 /\ 1 \in 0 .. n + 1 /\ 1 - 1 = 0
    BY <1>1
  <2>2. cut[1] \in 0 .. Len(s) /\ cut[0] <= cut[1]
    BY <1>3, <2>1
  <2> QED BY <1>3, <1>4, <2>2
<1>6. Stands(w, SubSeq(s, j, e - 1))
  <2>1. 1 \in 1 .. n + 1 /\ 1 - 1 = 0
    BY <1>1
  <2>2. Stands(all[1], SubSeq(s, cut[0] + 1, cut[1]))
    BY <1>3, <2>1
  <2> HIDE DEF e
  <2> QED BY <1>1, <1>5, <2>2
<1>7. CutsAt(c, ws, s, e)
  <2>1. c \in [0 .. n -> 0 .. Len(s)] /\ c[0] = e - 1 /\ c[n] = Len(s)
    <3>1. \A k \in 0 .. n : k + 1 \in 0 .. n + 1
      BY <1>1
    <3>2. c \in [0 .. n -> 0 .. Len(s)]
      BY <1>3, <3>1
    <3>3. c[0] = cut[1] /\ c[n] = cut[n + 1]
      BY <1>1
    <3> HIDE DEF c
    <3> QED BY <1>3, <1>5, <3>2, <3>3
  <2>2. ASSUME NEW k \in 1 .. n
        PROVE  c[k - 1] <= c[k] /\ Stands(ws[k], SubSeq(s, c[k - 1] + 1, c[k]))
    <3>1. k + 1 \in 1 .. n + 1 /\ (k + 1) - 1 = k
      BY <1>1
    <3>2. c[k - 1] = cut[k] /\ c[k] = cut[k + 1] /\ all[k + 1] = ws[k]
      BY <1>1
    <3>3. cut[k] <= cut[k + 1]
          /\ Stands(all[k + 1], SubSeq(s, cut[k] + 1, cut[k + 1]))
      <4> DEFINE m == k + 1
      <4>1. m \in 1 .. n + 1 /\ m - 1 = k
        BY <3>1
      <4> HIDE DEF m
      <4>2. cut[m - 1] <= cut[m] /\ Stands(all[m], SubSeq(s, cut[m - 1] + 1, cut[m]))
        BY <1>3, <4>1
      <4>3. cut[k] <= cut[m] /\ Stands(all[m], SubSeq(s, cut[k] + 1, cut[m]))
        BY <4>1, <4>2
      <4> QED BY <4>3 DEF m
    <3> HIDE DEF c
    <3> QED BY <3>2, <3>3
  <2> HIDE DEF c, e
  <2> QED BY <2>1, <2>2 DEF CutsAt, n
<1> HIDE DEF c, e
<1> QED BY <1>5, <1>6, <1>7 DEF CutsFrom

LEMMA CutAdded ==
  ASSUME NEW T, NEW w \in T, NEW ws \in Seq(T), NEW C, NEW s \in Seq(C),
         NEW j \in Spots(s), NEW e \in j .. Len(s) + 1,
         Stands(w, SubSeq(s, j, e - 1)), CutsFrom(ws, s, e)
  PROVE  CutsFrom(<<w>> \o ws, s, j)
<1> DEFINE all == <<w>> \o ws
           n == Len(ws)
<1>1. /\ n \in Nat /\ Len(all) = n + 1 /\ all[1] = w
      /\ \A k \in 1 .. n : all[k + 1] = ws[k]
  BY OneMore
<1>2. PICK c : CutsAt(c, ws, s, e)
  BY DEF CutsFrom
<1> HIDE DEF all
<1>3. /\ c \in [0 .. n -> 0 .. Len(s)]
      /\ c[0] = e - 1 /\ c[n] = Len(s)
      /\ \A k \in 1 .. n :
            /\ c[k - 1] <= c[k]
            /\ Stands(ws[k], SubSeq(s, c[k - 1] + 1, c[k]))
  BY <1>2 DEF CutsAt
<1>4. Len(s) \in Nat /\ j \in 1 .. Len(s) + 1 /\ e \in j .. Len(s) + 1
  BY DEF Spots
<1> DEFINE cut == [k \in 0 .. n + 1 |-> IF k = 0 THEN j - 1 ELSE c[k - 1]]
<1> HIDE DEF n
<1>5. cut \in [0 .. n + 1 -> 0 .. Len(s)] /\ cut[0] = j - 1 /\ cut[n + 1] = Len(s)
      /\ \A k \in 1 .. n + 1 : cut[k] = c[k - 1]
  <2>1. \A k \in 1 .. n + 1 : k \in 0 .. n + 1 /\ k # 0 /\ k - 1 \in 0 .. n
    BY <1>1
  <2>2. j - 1 \in 0 .. Len(s) /\ 0 \in 0 .. n + 1
    BY <1>1, <1>4
  <2>3. \A k \in 0 .. n + 1 : k = 0 \/ k \in 1 .. n + 1
    BY <1>1
  <2>4. cut \in [0 .. n + 1 -> 0 .. Len(s)]
    <3>1. \A k \in 0 .. n + 1 : (IF k = 0 THEN j - 1 ELSE c[k - 1]) \in 0 .. Len(s)
      BY <1>3, <2>1, <2>2, <2>3
    <3> QED BY <3>1
  <2>5. cut[0] = j - 1 /\ \A k \in 1 .. n + 1 : cut[k] = c[k - 1]
    BY <2>1, <2>2
  <2>6. n + 1 \in 1 .. n + 1 /\ (n + 1) - 1 = n
    BY <1>1
  <2> HIDE DEF cut
  <2>7. cut[n + 1] = c[n]
    BY <2>5, <2>6
  <2> QED BY <1>3, <2>4, <2>5, <2>7
<1> HIDE DEF cut
<1>6. ASSUME NEW k \in 1 .. n + 1
      PROVE  cut[k - 1] <= cut[k] /\ Stands(all[k], SubSeq(s, cut[k - 1] + 1, cut[k]))
  <2>1. CASE k = 1
    <3>1. k - 1 = 0 /\ 1 - 1 = 0 /\ cut[0] = j - 1 /\ cut[1] = c[0]
      BY <1>5, <2>1
    <3>2. cut[0] <= cut[1] /\ cut[0] + 1 = j /\ cut[1] = e - 1
      BY <1>3, <1>4, <3>1
    <3>3. Stands(w, SubSeq(s, cut[0] + 1, cut[1]))
      BY <3>2
    <3> QED BY <1>1, <2>1, <3>1, <3>2, <3>3
  <2>2. CASE k # 1
    <3> DEFINE m == k - 1
    <3>1. m \in 1 .. n /\ m \in 1 .. n + 1 /\ k = m + 1
      BY <1>1, <2>2
    <3>2. cut[m] = c[m - 1] /\ cut[k] = c[m] /\ all[k] = ws[m]
      BY <1>1, <1>5, <3>1
    <3>3. c[m - 1] <= c[m] /\ Stands(ws[m], SubSeq(s, c[m - 1] + 1, c[m]))
      BY <1>3, <3>1
    <3> HIDE DEF m
    <3>4. cut[m] <= cut[k] /\ Stands(all[k], SubSeq(s, cut[m] + 1, cut[k]))
      BY <3>2, <3>3
    <3> QED BY <3>4 DEF m
  <2> QED BY <2>1, <2>2
<1>7. CutsAt(cut, all, s, j)
  BY <1>1, <1>5, <1>6 DEF CutsAt
<1> QED BY <1>7 DEF CutsFrom, all

LEMMA PieceIs ==
  ASSUME NEW C, NEW s \in Seq(C), NEW j \in Spots(s), NEW e \in j .. Len(s) + 1
  PROVE  /\ Len(s) \in Nat /\ j \in Nat /\ e \in Nat
         /\ SubSeq(s, j, e - 1) \in Seq(C) /\ Len(SubSeq(s, j, e - 1)) = e - j
         /\ \A i \in 1 .. e - j : SubSeq(s, j, e - 1)[i] = s[j + i - 1]
<1>1. Len(s) \in Nat /\ j \in 1 .. Len(s) + 1 /\ e \in j .. Len(s) + 1
  BY DEF Spots
<1>2. \A i \in j .. e - 1 : s[i] \in C
  BY <1>1
<1> QED BY <1>1, <1>2

\* A wildcard, or a character, takes the pieces it stands for.
LEMMA DoubleTakes ==
  ASSUME NEW C, NEW s \in Seq(C), NEW j \in Spots(s), NEW e \in j .. Len(s) + 1
  PROVE  Stands("**", SubSeq(s, j, e - 1)) /\ e - j \in 0 .. Len(s) + 1 - j
<1>1. e - j \in 0 .. Len(s) + 1 - j
  BY DEF Spots
<1> QED BY <1>1 DEF Stands

LEMMA SingleTakes ==
  ASSUME NEW C, NEW s, Text(C, s), NEW j \in Spots(s), NEW e \in j .. Len(s) + 1
  PROVE  Stands("*", SubSeq(s, j, e - 1)) <=> e - j \in 0 .. BeforeSlash(s, j)
<1> DEFINE piece == SubSeq(s, j, e - 1)
           m == BeforeSlash(s, j)
           l == e - j
<1>1. s \in Seq(C)
  BY DEF Text
<1>2. /\ Len(s) \in Nat /\ j \in Nat /\ e \in Nat
      /\ piece \in Seq(C) /\ Len(piece) = l
      /\ \A i \in 1 .. l : piece[i] = s[j + i - 1]
  BY <1>1, PieceIs
<1>3. j \in 1 .. Len(s) + 1 /\ e \in j .. Len(s) + 1 /\ l \in 0 .. Len(s) + 1 - j
  BY <1>2 DEF Spots
<1>4. /\ m \in 0 .. Len(s) + 1 - j
      /\ \A k \in 0 .. m - 1 : s[j + k] # "/"
      /\ j + m \in 1 .. Len(s) => s[j + m] = "/"
  BY <1>3, BeforeSlashRight
<1>5. DOMAIN piece = 1 .. l
  BY <1>2
<1> HIDE DEF piece, m
<1>6. Stands("*", piece) <=> \A i \in 1 .. l : piece[i] # "/"
  BY <1>5 DEF Stands
<1>7. ASSUME l <= m, NEW i \in 1 .. l PROVE piece[i] # "/"
  <2> DEFINE k == i - 1
  <2>1. k \in 0 .. m - 1 /\ j + i - 1 = j + k
    BY <1>2, <1>3, <1>4, <1>7
  <2> HIDE DEF k
  <2>2. s[j + k] # "/"
    BY <1>4, <2>1
  <2> QED BY <1>2, <2>1, <2>2
<1>8. ASSUME l > m PROVE \E i \in 1 .. l : piece[i] = "/"
  <2> DEFINE i == m + 1
  <2>1. i \in 1 .. l /\ j + i - 1 = j + m /\ j + m \in 1 .. Len(s)
    BY <1>2, <1>3, <1>4, <1>8
  <2>2. s[j + m] = "/"
    BY <1>4, <2>1
  <2> HIDE DEF i
  <2> QED BY <1>2, <2>1, <2>2
<1>9. l \in Nat /\ m \in Nat
  BY <1>3, <1>4
<1> HIDE DEF l
<1>10. Stands("*", piece) <=> l <= m
  <2>1. l <= m \/ l > m
    BY <1>9
  <2>2. l > m => ~(l <= m)
    BY <1>9
  <2> QED BY <1>6, <1>7, <1>8, <2>1, <2>2
<1>11. l <= m <=> l \in 0 .. m
  BY <1>9
<1> QED BY <1>10, <1>11 DEF piece, m, l

LEMMA OneEntry ==
  ASSUME NEW T, NEW w \in T, NEW x \in Seq(T)
  PROVE  x = <<w>> <=> Len(x) = 1 /\ x[1] = w
<1>1. ASSUME x = <<w>> PROVE Len(x) = 1 /\ x[1] = w
  BY <1>1
<1>2. ASSUME Len(x) = 1, x[1] = w PROVE x = <<w>>
  <2>1. <<w>> \in Seq(T) /\ Len(<<w>>) = 1 /\ <<w>>[1] = w
    OBVIOUS
  <2>2. \A i \in 1 .. Len(x) : x[i] = <<w>>[i]
    BY <1>2, <2>1
  <2> DEFINE y == <<w>>
  <2>3. y \in Seq(T) /\ Len(x) = Len(y) /\ \A i \in 1 .. Len(x) : x[i] = y[i]
    BY <1>2, <2>1, <2>2
  <2> HIDE DEF y
  <2>4. x = y
    BY <2>3, SeqEqual
  <2> QED BY <2>4 DEF y
<1> QED BY <1>1, <1>2

LEMMA CharacterTakes ==
  ASSUME NEW C, NEW s, Text(C, s), NEW j \in Spots(s), NEW e \in j .. Len(s) + 1,
         NEW w \in C, w # "*"
  PROVE  Stands(w, SubSeq(s, j, e - 1)) <=>
           j <= Len(s) /\ e = j + 1 /\ w \in {"?", s[j]}
<1> DEFINE piece == SubSeq(s, j, e - 1)
           l == e - j
<1>1. s \in Seq(C) /\ w # "**"
  BY DEF Text
<1>2. /\ Len(s) \in Nat /\ j \in Nat /\ e \in Nat
      /\ piece \in Seq(C) /\ Len(piece) = l
      /\ \A i \in 1 .. l : piece[i] = s[j + i - 1]
  BY <1>1, PieceIs
<1>3. j \in 1 .. Len(s) + 1 /\ e \in j .. Len(s) + 1
  BY <1>2 DEF Spots
<1>4. l = 1 <=> j <= Len(s) /\ e = j + 1
  BY <1>2, <1>3
<1>5. l = 1 => piece[1] = s[j]
  <2>1. l = 1 => 1 \in 1 .. l /\ j + 1 - 1 = j
    BY <1>2
  <2> HIDE DEF piece, l
  <2> QED BY <1>2, <2>1
<1>6. CASE w = "?"
  <2>1. Stands(w, piece) <=> Len(piece) = 1
    BY <1>6 DEF Stands
  <2> QED BY <1>2, <1>4, <1>6, <2>1
<1>7. CASE w # "?"
  <2>1. Stands(w, piece) <=> piece = <<w>>
    BY <1>1, <1>7 DEF Stands
  <2> HIDE DEF piece
  <2>2. piece = <<w>> <=> Len(piece) = 1 /\ piece[1] = w
    BY <1>2, OneEntry
  <2>3. l = 1 => (piece[1] = w <=> w \in {"?", s[j]})
    BY <1>5, <1>7
  <2>4. Stands(w, piece) <=> l = 1 /\ w \in {"?", s[j]}
    <3> HIDE DEF l
    <3> QED BY <1>2, <2>1, <2>2, <2>3
  <2> QED BY <1>4, <2>4 DEF piece
<1> QED BY <1>6, <1>7


(***************************************************************************)
(* match_one finds every way to cut the string, and no other match.        *)
(***************************************************************************)
Wanted(p, i) == IF i \in Wide(p) THEN "**" ELSE p[i]

LEMMA FoundRight ==
  ASSUME NEW C, NEW p, NEW s, Text(C, p), Text(C, s), NEW i \in 1 .. Len(p),
         NEW X \in SUBSET Spots(s), NEW j \in Spots(s)
  PROVE  j \in Found(p, s, i, X) <=>
           \E e \in j .. Len(s) + 1 :
              Stands(Wanted(p, i), SubSeq(s, j, e - 1)) /\ e \in X
<1> DEFINE piece(e) == SubSeq(s, j, e - 1)
           Ends == j .. Len(s) + 1
<1>1. s \in Seq(C) /\ Len(s) \in Nat /\ j \in 1 .. Len(s) + 1 /\ X \in SUBSET Nat
      /\ p[i] \in C
  BY DEF Text, Spots
<1>2. \A e \in Ends : e \in Nat /\ e - j \in Nat /\ j + (e - j) = e
  BY <1>1
<1>3. ASSUME NEW most \in 0 .. Len(s) + 1 - j,
             \A e \in Ends : Stands(Wanted(p, i), piece(e)) <=> e - j \in 0 .. most
      PROVE  (\E k \in 0 .. most : j + k \in X) <=>
               \E e \in Ends : Stands(Wanted(p, i), piece(e)) /\ e \in X
  <2>1. ASSUME NEW k \in 0 .. most, j + k \in X
        PROVE  \E e \in Ends : Stands(Wanted(p, i), piece(e)) /\ e \in X
    <3> DEFINE e == j + k
    <3>1. e \in Ends /\ e - j \in 0 .. most
      BY <1>1
    <3> HIDE DEF piece, Ends
    <3>2. Stands(Wanted(p, i), piece(e)) /\ e \in X
      <4>1. e \in X
        BY <2>1
      <4> HIDE DEF e
      <4> QED BY <1>3, <3>1, <4>1
    <3> HIDE DEF e
    <3> QED BY <3>1, <3>2
  <2>2. ASSUME NEW e \in Ends, Stands(Wanted(p, i), piece(e)), e \in X
        PROVE  \E k \in 0 .. most : j + k \in X
    <3>1. e - j \in 0 .. most
      <4> HIDE DEF piece, Ends
      <4> QED BY <1>3, <2>2
    <3> DEFINE k == e - j
    <3>2. j + k = e
      BY <1>2
    <3>3. k \in 0 .. most /\ j + k \in X
      BY <2>2, <3>1, <3>2
    <3> HIDE DEF k
    <3> QED BY <3>3
  <2> HIDE DEF piece, Ends
  <2> QED BY <2>1, <2>2
<1>4. CASE i \in Wide(p)
  <2> DEFINE most == Len(s) + 1 - j
  <2>1. p[i] = "*" /\ \A n \in Spots(s) : Most(p, i, s, n) = Len(s) + 1 - n
    BY <1>4 DEF Wide, Most
  <2>2. j \in Found(p, s, i, X) <=> \E k \in 0 .. most : j + k \in X
    BY <2>1 DEF Found
  <2>3. most \in 0 .. Len(s) + 1 - j
    BY <1>1
  <2>4. \A e \in Ends : Stands(Wanted(p, i), piece(e)) <=> e - j \in 0 .. most
    <3>1. Wanted(p, i) = "**"
      BY <1>4 DEF Wanted
    <3> QED BY <1>1, <3>1, DoubleTakes
  <2> HIDE DEF most, piece, Ends
  <2>5. (\E k \in 0 .. most : j + k \in X) <=>
          \E e \in Ends : Stands(Wanted(p, i), piece(e)) /\ e \in X
    BY <1>3, <2>3, <2>4
  <2> QED BY <2>2, <2>5 DEF piece, Ends
<1>5. CASE i \notin Wide(p) /\ p[i] = "*"
  <2> DEFINE most == BeforeSlash(s, j)
  <2>1. \A n \in Spots(s) : Most(p, i, s, n) = BeforeSlash(s, n)
    BY <1>5 DEF Wide, Most
  <2>2. j \in Found(p, s, i, X) <=> \E k \in 0 .. most : j + k \in X
    BY <1>5, <2>1 DEF Found
  <2>3. most \in 0 .. Len(s) + 1 - j
    BY <1>1, BeforeSlashRight
  <2>4. \A e \in Ends : Stands(Wanted(p, i), piece(e)) <=> e - j \in 0 .. most
    <3>1. Wanted(p, i) = "*"
      BY <1>5 DEF Wanted
    <3> QED BY <3>1, SingleTakes
  <2> HIDE DEF most, piece, Ends
  <2>5. (\E k \in 0 .. most : j + k \in X) <=>
          \E e \in Ends : Stands(Wanted(p, i), piece(e)) /\ e \in X
    BY <1>3, <2>3, <2>4
  <2> QED BY <2>2, <2>5 DEF piece, Ends
<1>6. CASE p[i] # "*"
  <2>1. i \notin Wide(p)
    BY <1>6 DEF Wide
  <2>2. Wanted(p, i) = p[i]
    BY <2>1 DEF Wanted
  <2>3. j \in Found(p, s, i, X) <=>
          j <= Len(s) /\ p[i] \in {"?", s[j]} /\ j + 1 \in X
    BY <1>6 DEF Found
  <2>4. \A e \in Ends : Stands(Wanted(p, i), piece(e)) <=>
                          j <= Len(s) /\ e = j + 1 /\ p[i] \in {"?", s[j]}
    BY <1>1, <1>6, <2>2, CharacterTakes
  <2>5. j <= Len(s) => j + 1 \in Ends
    BY <1>1
  <2> HIDE DEF piece, Ends
  <2>6. (\E e \in Ends : Stands(Wanted(p, i), piece(e)) /\ e \in X) <=>
           j <= Len(s) /\ p[i] \in {"?", s[j]} /\ j + 1 \in X
    BY <2>4, <2>5
  <2> QED BY <2>3, <2>6 DEF piece, Ends
<1> QED BY <1>4, <1>5, <1>6

LEMMA MatchOneRight ==
  ASSUME NEW C, NEW p, NEW s, Text(C, p), Text(C, s)
  PROVE  MatchOne(p, s) <=> CutsInto(Wildcards(p), s)
<1> DEFINE n == Len(p)
           M == Matches(p, s)
           W == WildcardsFrom(p)
           P == {k \in 0 .. n : \A i \in n + 1 - k .. n + 1, j \in Spots(s) :
                                   j \in M[i] <=> CutsFrom(W[i], s, j)}
<1>1. n \in Nat /\ Len(s) \in Nat /\ s \in Seq(C)
  BY DEF Text
<1>2. MatchesAt(M, p, s) /\ WildcardsAt(W, C, p)
  BY MatchesRight, WildcardsRight
<1>3. \A i \in Wide(p) : i + 1 \in 1 .. n
  BY PairWithin DEF Wide
<1> HIDE DEF M, W
<1>4. 0 \in P
  <2>1. ASSUME NEW i \in n + 1 - 0 .. n + 1, NEW j \in Spots(s)
        PROVE  j \in M[i] <=> CutsFrom(W[i], s, j)
    <3>1. i = n + 1
      BY <1>1
    <3>2. M[i] = {Len(s) + 1} /\ W[i] = <<>>
      BY <1>2, <3>1 DEF MatchesAt, WildcardsAt
    <3>3. CutsFrom(<<>>, s, j) <=> j = Len(s) + 1
      BY <1>1, NothingCut
    <3> QED BY <3>2, <3>3
  <2> QED BY <1>1, <2>1
<1>5. ASSUME NEW k \in 1 .. n, k - 1 \in P PROVE k \in P
  <2> DEFINE m == n + 1 - k
             nx == IF m \in Wide(p) THEN m + 2 ELSE m + 1
  <2>1. m \in 1 .. n /\ nx \in m + 1 .. n + 1
    BY <1>1, <1>3
  <2>2. \A i \in m + 1 .. n + 1, j \in Spots(s) :
           j \in M[i] <=> CutsFrom(W[i], s, j)
    <3>1. n + 1 - (k - 1) = m + 1
      BY <1>1
    <3> HIDE DEF m
    <3> QED BY <1>5, <3>1
  <2>3. M[m] = Found(p, s, m, M[nx]) /\ W[m] = <<Wanted(p, m)>> \o W[nx]
    <3> HIDE DEF m
    <3> QED BY <1>2, <2>1 DEF MatchesAt, WildcardsAt, Wanted
  <2>4. M[nx] \in SUBSET Spots(s) /\ W[nx] \in Seq(Wilds(C))
        /\ Wanted(p, m) \in Wilds(C)
    <3>1. nx \in 1 .. n + 1
      BY <1>1, <2>1
    <3>2. p[m] \in C
      <4> HIDE DEF m
      <4> QED BY <2>1 DEF Text
    <3>3. Wanted(p, m) \in Wilds(C)
      <4> HIDE DEF m
      <4> QED BY <3>2 DEF Wanted, Wilds
    <3> HIDE DEF nx, m
    <3> QED BY <1>2, <3>1, <3>3 DEF MatchesAt, WildcardsAt
  <2> HIDE DEF nx, m
  <2>5. ASSUME NEW j \in Spots(s)
        PROVE  j \in M[m] <=> CutsFrom(W[m], s, j)
    <3>1. j \in M[m] <=>
            \E e \in j .. Len(s) + 1 :
               Stands(Wanted(p, m), SubSeq(s, j, e - 1)) /\ e \in M[nx]
      BY <2>1, <2>3, <2>4, FoundRight
    <3>2. \A e \in j .. Len(s) + 1 : e \in Spots(s)
      BY <1>1 DEF Spots
    <3>3. \A e \in j .. Len(s) + 1 : e \in M[nx] <=> CutsFrom(W[nx], s, e)
      BY <2>1, <2>2, <3>2
    <3>4. ASSUME NEW e \in j .. Len(s) + 1,
                 Stands(Wanted(p, m), SubSeq(s, j, e - 1)), CutsFrom(W[nx], s, e)
          PROVE  CutsFrom(<<Wanted(p, m)>> \o W[nx], s, j)
      BY <1>1, <2>4, <3>4, CutAdded
    <3>5. ASSUME CutsFrom(<<Wanted(p, m)>> \o W[nx], s, j)
          PROVE  \E e \in j .. Len(s) + 1 :
                    Stands(Wanted(p, m), SubSeq(s, j, e - 1)) /\ CutsFrom(W[nx], s, e)
      BY <1>1, <2>4, <3>5, FirstCut
    <3> QED BY <2>3, <3>1, <3>3, <3>4, <3>5
  <2>6. ASSUME NEW i \in m .. n + 1, NEW j \in Spots(s)
        PROVE  j \in M[i] <=> CutsFrom(W[i], s, j)
    <3>1. i = m \/ i \in m + 1 .. n + 1
      BY <1>1, <2>1
    <3> HIDE DEF n
    <3> QED BY <2>2, <2>5, <3>1
  <2>7. k \in 0 .. n
    BY <1>1
  <2> QED BY <2>6, <2>7 DEF m
<1> HIDE DEF P
<1>6. Inductive(P, n)
  BY <1>4, <1>5 DEF Inductive
<1>7. n \in P
  BY <1>1, <1>6, CountUp
<1>8. 1 \in M[1] <=> CutsFrom(W[1], s, 1)
  <2>1. n + 1 - n = 1 /\ 1 \in 1 .. n + 1 /\ 1 \in Spots(s)
    BY <1>1 DEF Spots
  <2> QED BY <1>7, <2>1 DEF P
<1>9. Wildcards(p) = W[1]
  BY DEF W, Wildcards
<1>10. MatchOne(p, s) <=> 1 \in M[1]
  BY DEF M, MatchOne
<1> QED BY <1>8, <1>9, <1>10, WholeCut

(***************************************************************************)
(* match: the loop goes through the alternatives, every one of them.       *)
(***************************************************************************)
LEMMA BarRight ==
  ASSUME NEW C, NEW q, Text(C, q), NEW a \in 1 .. Len(q) + 1
  PROVE  /\ Bar(q, a) \in a .. Len(q) + 1
         /\ Bar(q, a) <= Len(q) => q[Bar(q, a)] = "|"
         /\ \A b \in a .. Len(q) : q[b] = "|" => Bar(q, a) <= b
<1> DEFINE n == Len(q)
           S == {b \in a .. n + 1 : Char(q, b) \in {"|", End}}
           m == Bar(q, a)
<1>1. n \in Nat
  BY DEF Text
<1>2. n + 1 \in S
  <2>1. n + 1 \in a .. n + 1 /\ n + 1 \in Int /\ n + 1 \notin 1 .. Len(q)
    BY <1>1
  <2>2. Char(q, n + 1) = End
    BY <2>1, CharIs
  <2> QED BY <2>1, <2>2
<1>3. S \in SUBSET Nat
  BY <1>1
<1>4. m = Min(S)
  BY DEF Bar
<1>5. m \in S /\ \A b \in S : m <= b
  <2> HIDE DEF S, m
  <2> QED BY <1>2, <1>3, <1>4, MinRight
<1>6. m \in a .. n + 1 /\ Char(q, m) \in {"|", End}
  BY <1>5
<1>7. ASSUME m <= n PROVE q[m] = "|"
  <2>1. m \in 1 .. Len(q) /\ m \in Int
    BY <1>1, <1>6, <1>7
  <2>2. Char(q, m) = q[m] /\ q[m] # End
    <3> HIDE DEF m
    <3> QED BY <2>1, CharIs
  <2> QED BY <1>6, <2>2
<1>8. ASSUME NEW b \in a .. n, q[b] = "|" PROVE m <= b
  <2>1. b \in 1 .. Len(q) /\ b \in Int /\ b \in a .. n + 1
    BY <1>1
  <2>2. Char(q, b) = "|"
    BY <1>8, <2>1, CharIs
  <2>3. b \in S
    BY <2>1, <2>2
  <2> HIDE DEF S, m
  <2> QED BY <1>5, <2>3
<1> HIDE DEF m
<1> QED BY <1>6, <1>7, <1>8 DEF m

StartsAt(st, q) ==
  /\ st \in [0 .. Len(q) -> 1 .. Len(q) + 2]
  /\ st[0] = 1
  /\ \A k \in 1 .. Len(q) :
       st[k] = IF st[k - 1] > Len(q) + 1 THEN st[k - 1] ELSE Bar(q, st[k - 1]) + 1

LEMMA StartsRight ==
  ASSUME NEW C, NEW q, Text(C, q)
  PROVE  StartsAt(Starts(q), q)
<1> DEFINE n == Len(q)
           S == 1 .. n + 2
           turn(a) == IF a > n + 1 THEN a ELSE Bar(q, a) + 1
           step == [k \in Nat |-> [a \in S |-> turn(a)]]
           Eq(f) == f = [k \in 0 .. Len(q) |->
             IF k = 0 THEN 1
             ELSE IF f[k - 1] > Len(q) + 1 THEN f[k - 1]
             ELSE Bar(q, f[k - 1]) + 1]
<1>1. n \in Nat
  BY DEF Text
<1>2. ASSUME NEW a \in S PROVE turn(a) \in S
  <2>1. CASE a > n + 1
    BY <2>1
  <2>2. CASE ~(a > n + 1)
    <3>1. a \in 1 .. Len(q) + 1
      BY <1>1, <2>2
    <3>2. Bar(q, a) \in a .. Len(q) + 1
      BY <3>1, BarRight
    <3>3. Bar(q, a) + 1 \in S
      BY <1>1, <3>1, <3>2
    <3> QED BY <2>2, <3>3
  <2> QED BY <2>1, <2>2
<1>3. step \in [Nat -> [S -> S]]
  <2> HIDE DEF S, turn
  <2> QED BY <1>2
<1>4. 1 \in S
  BY <1>1
<1>5. Stepping(S, 1, step, n)
  BY <1>1, <1>3, <1>4 DEF Stepping
<1>6. PICK g : Computes(g, S, 1, step, n)
  <2> HIDE DEF S, step
  <2> QED BY <1>5, Recursion
<1>7. g \in [0 .. n -> S] /\ g[0] = 1
  BY <1>6 DEF Computes
<1>8. ASSUME NEW k \in 1 .. n PROVE g[k] = turn(g[k - 1])
  <2>1. k - 1 \in 0 .. n /\ k \in Nat
    BY <1>1
  <2>2. g[k - 1] \in S
    BY <1>7, <2>1
  <2>3. g[k] = step[k][g[k - 1]]
    <3> HIDE DEF step
    <3> QED BY <1>6 DEF Computes
  <2> HIDE DEF S, turn
  <2> QED BY <2>1, <2>2, <2>3
<1>9. Eq(g)
  <2> DEFINE body(k) ==
             IF k = 0 THEN 1
             ELSE IF g[k - 1] > Len(q) + 1 THEN g[k - 1]
             ELSE Bar(q, g[k - 1]) + 1
             F == [k \in 0 .. Len(q) |-> body(k)]
  <2>1. ASSUME NEW k \in 0 .. Len(q) PROVE g[k] = body(k)
    <3>1. CASE k = 0
      BY <1>7, <3>1
    <3>2. CASE k # 0
      <4>1. k \in 1 .. n
        BY <1>1, <3>2
      <4> QED BY <1>8, <3>2, <4>1
    <3> QED BY <3>1, <3>2
  <2>2. g = F
    <3> HIDE DEF body
    <3>1. DOMAIN g = DOMAIN F /\ \A k \in DOMAIN F : g[k] = F[k]
      BY <1>7, <2>1
    <3>2. g = [k \in DOMAIN g |-> g[k]] /\ F = [k \in DOMAIN F |-> F[k]]
      BY <1>7
    <3> HIDE DEF F
    <3> QED BY <3>1, <3>2
  <2> QED BY <2>2, Zenon
<1>10. Starts(q) = CHOOSE f : Eq(f)
  BY DEF Starts
<1>11. Eq(Starts(q))
  <2> HIDE DEF Eq
  <2> QED BY <1>9, <1>10
<1> DEFINE st == Starts(q)
<1>12. DOMAIN st = 0 .. n /\ st = [k \in DOMAIN st |-> st[k]]
  <2> HIDE DEF st
  <2>1. Eq(st)
    BY <1>11 DEF st
  <2> QED BY <2>1
<1>13. ASSUME NEW k \in 0 .. n
       PROVE  st[k] = IF k = 0 THEN 1
                      ELSE IF st[k - 1] > Len(q) + 1 THEN st[k - 1]
                      ELSE Bar(q, st[k - 1]) + 1
  <2> HIDE DEF st
  <2>1. Eq(st)
    BY <1>11 DEF st
  <2> QED BY <2>1
<1> HIDE DEF st
<1>14. st[0] = 1
  BY <1>1, <1>13
<1>15. ASSUME NEW k \in 1 .. n PROVE st[k] = turn(st[k - 1])
  <2>1. k \in 0 .. n /\ k # 0
    BY <1>1
  <2> QED BY <1>13, <2>1
<1>16. \A k \in 0 .. n : st[k] \in S
  <2> DEFINE P == {k \in 0 .. n : st[k] \in S}
  <2>1. 0 \in P
    BY <1>1, <1>4, <1>14
  <2>2. ASSUME NEW k \in 1 .. n, k - 1 \in P PROVE k \in P
    <3>1. k \in 0 .. n
      BY <1>1
    <3> HIDE DEF S, turn
    <3> QED BY <1>2, <1>15, <2>2, <3>1
  <2> HIDE DEF P
  <2>3. Inductive(P, n)
    BY <2>1, <2>2 DEF Inductive
  <2>4. \A k \in 0 .. n : k \in P
    BY <1>1, <2>3, CountUp
  <2> QED BY <2>4 DEF P
<1>17. st \in [0 .. n -> S]
  <2> HIDE DEF S
  <2> QED BY <1>12, <1>16
<1>18. StartsAt(st, q)
  BY <1>14, <1>15, <1>17 DEF StartsAt
<1> QED BY <1>18 DEF st

\* Where an alternative begins: at the start, or behind a bar.
Fronts(q) == {a \in 1 .. Len(q) + 1 : a = 1 \/ q[a - 1] = "|"}

LEMMA StartsAreFronts ==
  ASSUME NEW C, NEW q, Text(C, q), NEW k \in 0 .. Len(q),
         Starts(q)[k] <= Len(q) + 1
  PROVE  Starts(q)[k] \in Fronts(q)
<1> DEFINE n == Len(q)
           st == Starts(q)
           P == {m \in 0 .. n : st[m] <= n + 1 => st[m] \in Fronts(q)}
<1>1. n \in Nat
  BY DEF Text
<1>2. /\ st \in [0 .. n -> 1 .. n + 2] /\ st[0] = 1
      /\ \A m \in 1 .. n :
           st[m] = IF st[m - 1] > n + 1 THEN st[m - 1] ELSE Bar(q, st[m - 1]) + 1
  BY StartsRight DEF StartsAt
<1> HIDE DEF st
<1>3. 0 \in P
  BY <1>1, <1>2 DEF Fronts
<1>4. ASSUME NEW m \in 1 .. n, m - 1 \in P PROVE m \in P
  <2>0. m \in 0 .. n /\ m - 1 \in 0 .. n
    BY <1>1
  <2>1. SUFFICES ASSUME st[m] <= n + 1 PROVE st[m] \in Fronts(q)
    BY <2>0
  <2> DEFINE a == st[m - 1]
  <2>2. a \in 1 .. n + 2 /\ st[m] = IF a > n + 1 THEN a ELSE Bar(q, a) + 1
    BY <1>2, <2>0
  <2> HIDE DEF a
  <2>3. a \in 1 .. n + 1 /\ st[m] = Bar(q, a) + 1
    BY <1>1, <2>1, <2>2
  <2>4. Bar(q, a) \in a .. n + 1 /\ (Bar(q, a) <= n => q[Bar(q, a)] = "|")
    BY <2>3, BarRight
  <2> DEFINE b == Bar(q, a)
  <2>5. b \in a .. n + 1 /\ st[m] = b + 1 /\ (b <= n => q[b] = "|")
    BY <2>3, <2>4
  <2> HIDE DEF b
  <2>6. b <= n /\ (b + 1) - 1 = b /\ b + 1 \in 1 .. n + 1
    BY <1>1, <2>1, <2>3, <2>5
  <2> QED BY <2>5, <2>6 DEF Fronts
<1> HIDE DEF P
<1>5. Inductive(P, n)
  BY <1>3, <1>4 DEF Inductive
<1>6. k \in P
  BY <1>1, <1>5, CountUp
<1> QED BY <1>6 DEF P, st

LEMMA FrontsAreStarts ==
  ASSUME NEW C, NEW q, Text(C, q), NEW a \in Fronts(q)
  PROVE  \E k \in 0 .. Len(q) : Starts(q)[k] = a
<1> DEFINE n == Len(q)
           st == Starts(q)
           P == {m \in 0 .. n : /\ m < st[m]
                                /\ (\E k \in 0 .. m : st[k] = a) \/ st[m] < a}
<1>1. n \in Nat /\ a \in 1 .. n + 1 /\ (a = 1 \/ q[a - 1] = "|")
  BY DEF Text, Fronts
<1>2. /\ st \in [0 .. n -> 1 .. n + 2] /\ st[0] = 1
      /\ \A m \in 1 .. n :
           st[m] = IF st[m - 1] > n + 1 THEN st[m - 1] ELSE Bar(q, st[m - 1]) + 1
  BY StartsRight DEF StartsAt
<1> HIDE DEF st
<1>3. 0 \in P
  BY <1>1, <1>2
<1>4. ASSUME NEW m \in 1 .. n, m - 1 \in P PROVE m \in P
  <2> DEFINE c == st[m - 1]
             d == st[m]
  <2>0. m \in 0 .. n /\ m - 1 \in 0 .. n
    BY <1>1
  <2>1. /\ c \in 1 .. n + 2 /\ d = IF c > n + 1 THEN c ELSE Bar(q, c) + 1
        /\ m - 1 < c
        /\ (\E k \in 0 .. m - 1 : st[k] = a) \/ c < a
    BY <1>2, <1>4, <2>0
  <2> HIDE DEF c
  <2>2. c <= n + 1 => /\ Bar(q, c) \in c .. n + 1
                      /\ \A b \in c .. n : q[b] = "|" => Bar(q, c) <= b
    <3>1. c <= n + 1 => c \in 1 .. Len(q) + 1
      BY <1>1, <2>1
    <3> QED BY <3>1, BarRight
  <2> DEFINE b == Bar(q, c)
  <2>3. /\ d = IF c > n + 1 THEN c ELSE b + 1
        /\ c <= n + 1 => b \in c .. n + 1 /\ \A x \in c .. n : q[x] = "|" => b <= x
    BY <2>1, <2>2
  <2> HIDE DEF b, d
  <2>4. m < d
    BY <1>1, <2>1, <2>3
  <2>5. ASSUME c < a PROVE d = a \/ d < a
    <3>1. c <= n + 1 /\ a - 1 \in c .. n /\ q[a - 1] = "|"
      BY <1>1, <2>1, <2>5
    <3>2. b <= a - 1 /\ d = b + 1 /\ b \in c .. n + 1
      BY <1>1, <2>1, <2>3, <3>1
    <3> QED BY <1>1, <2>1, <3>2
  <2>6. (\E k \in 0 .. m : st[k] = a) \/ d < a
    <3>1. CASE \E k \in 0 .. m - 1 : st[k] = a
      <4>1. \A k \in 0 .. m - 1 : k \in 0 .. m
        BY <1>1
      <4> QED BY <3>1, <4>1
    <3>2. CASE c < a
      <4>1. m \in 0 .. m
        BY <1>1
      <4> QED BY <2>5, <3>2, <4>1 DEF d
    <3> QED BY <2>1, <3>1, <3>2
  <2> QED BY <2>0, <2>4, <2>6 DEF d
<1> HIDE DEF P
<1>5. Inductive(P, n)
  BY <1>3, <1>4 DEF Inductive
<1>6. n \in P
  BY <1>1, <1>5, CountUp
<1>7. n < st[n] /\ ((\E k \in 0 .. n : st[k] = a) \/ st[n] < a)
  BY <1>6 DEF P
<1>8. ~(st[n] < a)
  <2>1. st[n] \in 1 .. n + 2
    BY <1>1, <1>2
  <2> QED BY <1>1, <1>7, <2>1
<1> QED BY <1>7, <1>8 DEF st

LEMMA AlternativesAre ==
  ASSUME NEW C, NEW q, Text(C, q)
  PROVE  Alternatives(q) = {SubSeq(q, a, Bar(q, a) - 1) : a \in Fronts(q)}
<1> DEFINE n == Len(q)
           Bars == {i \in DOMAIN q : q[i] = "|"}
           Ends == {0, n + 1} \cup Bars
           Pairs == {e \in Ends \X Ends :
                       e[1] < e[2] /\ ~\E m \in Ends : e[1] < m /\ m < e[2]}
<1>1. n \in Nat /\ DOMAIN q = 1 .. n
  BY DEF Text
<1>2. Alternatives(q) = {SubSeq(q, e[1] + 1, e[2] - 1) : e \in Pairs}
  BY DEF Alternatives
<1>3. Ends \subseteq 0 .. n + 1
  BY <1>1
<1>4. \A m \in 1 .. n : m \in Ends <=> q[m] = "|"
  BY <1>1
<1>5. 0 \in Ends /\ n + 1 \in Ends
  OBVIOUS
<1> HIDE DEF Ends, Bars
<1>6. ASSUME NEW a \in Fronts(q)
      PROVE  <<a - 1, Bar(q, a)>> \in Pairs /\ (a - 1) + 1 = a
  <2> DEFINE b == Bar(q, a)
  <2>1. a \in 1 .. n + 1 /\ (a = 1 \/ q[a - 1] = "|")
    BY DEF Fronts
  <2>2. /\ b \in a .. n + 1 /\ (b <= n => q[b] = "|")
        /\ \A m \in a .. n : q[m] = "|" => b <= m
    BY <2>1, BarRight
  <2> HIDE DEF b
  <2>3. a - 1 \in Ends
    <3>1. a = 1 \/ a - 1 \in 1 .. n
      BY <1>1, <2>1
    <3>2. a = 1 => a - 1 = 0
      OBVIOUS
    <3> DEFINE c == a - 1
    <3>3. (c = 0 \/ c \in 1 .. n) /\ (c = 0 \/ q[c] = "|")
      BY <2>1, <3>1, <3>2
    <3> HIDE DEF c
    <3>4. c \in Ends
      BY <1>4, <1>5, <3>3
    <3> QED BY <3>4 DEF c
  <2>4. b \in Ends
    <3>1. b = n + 1 \/ (b \in 1 .. n /\ b <= n)
      BY <1>1, <2>1, <2>2
    <3> QED BY <1>4, <1>5, <2>2, <3>1
  <2>5. a - 1 < b /\ (a - 1) + 1 = a
    BY <1>1, <2>1, <2>2
  <2>6. ASSUME NEW m \in Ends, a - 1 < m, m < b PROVE FALSE
    <3>1. m \in 1 .. n /\ m \in a .. n
      BY <1>1, <1>3, <2>1, <2>2, <2>6
    <3>2. b <= m
      BY <1>4, <2>2, <3>1
    <3> QED BY <1>1, <2>1, <2>2, <2>6, <3>1, <3>2
  <2> DEFINE c == a - 1
  <2>7. c \in Ends /\ b \in Ends /\ c < b /\ ~\E m \in Ends : c < m /\ m < b
    BY <2>3, <2>4, <2>5, <2>6
  <2> HIDE DEF c
  <2>8. <<c, b>> \in Pairs
    BY <2>7
  <2> HIDE DEF Pairs
  <2> QED BY <2>5, <2>8 DEF b, c
<1>7. ASSUME NEW e \in Pairs
      PROVE  e[1] + 1 \in Fronts(q) /\ e[2] = Bar(q, e[1] + 1)
  <2> DEFINE x == e[1]
             y == e[2]
             a == x + 1
             b == Bar(q, a)
  <2>1. x \in Ends /\ y \in Ends /\ x < y /\ ~\E m \in Ends : x < m /\ m < y
    OBVIOUS
  <2> HIDE DEF x, y
  <2>2. x \in 0 .. n /\ y \in 1 .. n + 1 /\ a \in 1 .. n + 1 /\ a - 1 = x /\ y >= a
    BY <1>1, <1>3, <2>1
  <2>3. x = 0 \/ q[x] = "|"
    <3>1. x = 0 \/ x \in 1 .. n
      BY <1>1, <2>2
    <3> QED BY <1>4, <2>1, <3>1
  <2>4. a \in Fronts(q)
    <3>1. a = 1 \/ q[a - 1] = "|"
      BY <2>2, <2>3
    <3> HIDE DEF a
    <3> QED BY <2>2, <3>1 DEF Fronts
  <2>5. /\ b \in a .. n + 1 /\ (b <= n => q[b] = "|")
        /\ \A m \in a .. n : q[m] = "|" => b <= m
    <3> HIDE DEF a
    <3> QED BY <2>2, BarRight
  <2> HIDE DEF b
  <2>6. b \in Ends
    <3>1. b = n + 1 \/ (b \in 1 .. n /\ b <= n)
      BY <1>1, <2>2, <2>5
    <3> QED BY <1>4, <1>5, <2>5, <3>1
  <2>7. b >= y
    <3>1. x < b
      BY <1>1, <2>2, <2>5
    <3>2. ~(b < y)
      BY <2>1, <2>6, <3>1
    <3> QED BY <1>1, <2>2, <2>5, <3>2
  <2>8. b <= y
    <3>1. CASE y = n + 1
      BY <1>1, <2>2, <2>5, <3>1
    <3>2. CASE y \in 1 .. n
      <4>1. q[y] = "|" /\ y \in a .. n
        BY <1>1, <1>4, <2>1, <2>2, <3>2
      <4> QED BY <2>5, <4>1
    <3> QED BY <1>1, <2>2, <3>1, <3>2
  <2>9. b = y
    BY <1>1, <2>2, <2>5, <2>7, <2>8
  <2> QED BY <2>4, <2>9 DEF b, x, y
<1> HIDE DEF Pairs
<1>8. ASSUME NEW e \in Pairs
      PROVE  SubSeq(q, e[1] + 1, e[2] - 1) \in
               {SubSeq(q, a, Bar(q, a) - 1) : a \in Fronts(q)}
  BY <1>7
<1>9. ASSUME NEW a \in Fronts(q)
      PROVE  SubSeq(q, a, Bar(q, a) - 1) \in
               {SubSeq(q, e[1] + 1, e[2] - 1) : e \in Pairs}
  <2> DEFINE e == <<a - 1, Bar(q, a)>>
  <2>1. e \in Pairs /\ e[1] + 1 = a /\ e[2] = Bar(q, a)
    BY <1>6
  <2> HIDE DEF e
  <2> QED BY <2>1
<1> QED BY <1>2, <1>8, <1>9

(***************************************************************************)
(* match.c against config.h, for every pattern and every string: match     *)
(* says yes just when one of the patterns that | separates can be laid     *)
(* over the string, with ? for one character, * for a piece without a      *)
(* slash and ** for any piece.                                             *)
(***************************************************************************)
THEOREM MatchRight ==
  ASSUME NEW C, NEW pattern, NEW s, Text(C, pattern), Text(C, s)
  PROVE  MatchAny(pattern, s) <=> MatchDescribed(pattern, s)
<1> DEFINE n == Len(pattern)
           piece(a) == SubSeq(pattern, a, Bar(pattern, a) - 1)
<1>1. n \in Nat /\ pattern \in Seq(C)
  BY DEF Text
<1>2. ASSUME NEW a \in Fronts(pattern)
      PROVE  MatchOne(piece(a), s) <=> CutsInto(Wildcards(piece(a)), s)
  <2> DEFINE b == Bar(pattern, a)
  <2>1. a \in 1 .. n + 1
    BY DEF Fronts
  <2>2. b \in a .. n + 1
    BY <2>1, BarRight
  <2> HIDE DEF b
  <2>3. SubSeq(pattern, a, b - 1) \in Seq(C)
    <3>1. a \in Spots(pattern) /\ b \in a .. Len(pattern) + 1
      BY <2>1, <2>2 DEF Spots
    <3> QED BY <1>1, <3>1, PieceIs
  <2>4. Text(C, piece(a))
    BY <2>3 DEF Text, b
  <2> HIDE DEF piece
  <2> QED BY <2>4, MatchOneRight
<1>3. MatchAny(pattern, s) <=> \E a \in Fronts(pattern) : MatchOne(piece(a), s)
  <2>1. ASSUME MatchAny(pattern, s)
        PROVE  \E a \in Fronts(pattern) : MatchOne(piece(a), s)
    <3>1. PICK k \in 0 .. n : /\ Starts(pattern)[k] <= n + 1
                              /\ MatchOne(piece(Starts(pattern)[k]), s)
      BY <2>1 DEF MatchAny
    <3>2. Starts(pattern)[k] \in Fronts(pattern)
      BY <3>1, StartsAreFronts
    <3> HIDE DEF piece
    <3> QED BY <3>1, <3>2
  <2>2. ASSUME NEW a \in Fronts(pattern), MatchOne(piece(a), s)
        PROVE  MatchAny(pattern, s)
    <3>1. PICK k \in 0 .. n : Starts(pattern)[k] = a
      BY FrontsAreStarts
    <3>2. a <= n + 1
      BY <1>1 DEF Fronts
    <3> QED BY <2>2, <3>1, <3>2 DEF MatchAny
  <2> QED BY <2>1, <2>2
<1>4. MatchDescribed(pattern, s) <=>
        \E a \in Fronts(pattern) : CutsInto(Wildcards(piece(a)), s)
  BY AlternativesAre DEF MatchDescribed
<1> HIDE DEF piece
<1> QED BY <1>2, <1>3, <1>4

(***************************************************************************)
(* b64_decode, character by character.                                     *)
(***************************************************************************)
B64State == [phase : 0 .. 3, prev_d : Int, space : Seq(Int)]

B64Steps(str, size) ==
  CHOOSE f : f = [i \in 0 .. Len(str) |->
                    IF i = 0 THEN B64Start ELSE B64Step(f[i - 1], str[i], size)]

LEMMA B64StepType ==
  ASSUME NEW st \in B64State, NEW d \in Int, NEW size \in Nat
  PROVE  B64Step(st, d, size) \in B64State
<1> DEFINE c == CASE st.phase = 0 -> 0
                  [] st.phase = 1 -> (st.prev_d * 4) + (d \div 16)
                  [] st.phase = 2 -> ((st.prev_d % 16) * 16) + (d \div 4)
                  [] st.phase = 3 -> ((st.prev_d % 4) * 64) + d
<1>1. st.phase \in 0 .. 3 /\ st.prev_d \in Int /\ st.space \in Seq(Int)
  BY DEF B64State
<1>2. st.phase = 0 \/ st.phase = 1 \/ st.phase = 2 \/ st.phase = 3
  BY <1>1
<1>3. c \in Int
  <2>1. CASE st.phase = 0
    BY <2>1
  <2>2. CASE st.phase = 1
    BY <1>1, <2>2
  <2>3. CASE st.phase = 2
    BY <1>1, <2>3
  <2>4. CASE st.phase = 3
    BY <1>1, <2>4
  <2> QED BY <1>2, <2>1, <2>2, <2>3, <2>4
<1>4. B64Step(st, d, size) =
        IF d = Pad THEN st
        ELSE [phase |-> (st.phase + 1) % 4, prev_d |-> d,
              space |-> IF st.phase # 0 /\ Len(st.space) < size
                          THEN Append(st.space, c) ELSE st.space]
  BY DEF B64Step
<1> HIDE DEF c
<1>5. Append(st.space, c) \in Seq(Int) /\ (st.phase + 1) % 4 \in 0 .. 3
  BY <1>1, <1>3
<1> QED BY <1>1, <1>4, <1>5 DEF B64State

LEMMA B64StepsRight ==
  ASSUME NEW str \in Seq(Int), NEW size \in Nat
  PROVE  /\ B64Steps(str, size)[0] = B64Start
         /\ \A i \in 1 .. Len(str) :
              B64Steps(str, size)[i] = B64Step(B64Steps(str, size)[i - 1], str[i], size)
<1> DEFINE n == Len(str)
           S == B64State
           step == [i \in Nat |-> [st \in S |-> IF i \in 1 .. n
                                                THEN B64Step(st, str[i], size) ELSE st]]
           Eq(f) == f = [i \in 0 .. Len(str) |->
                           IF i = 0 THEN B64Start ELSE B64Step(f[i - 1], str[i], size)]
<1>1. n \in Nat /\ \A i \in 1 .. n : str[i] \in Int
  OBVIOUS
<1>2. B64Start \in S
  BY DEF B64Start, B64State
<1>3. step \in [Nat -> [S -> S]]
  BY <1>1, B64StepType
<1>4. Stepping(S, B64Start, step, n)
  BY <1>1, <1>2, <1>3 DEF Stepping
<1>5. PICK g : Computes(g, S, B64Start, step, n)
  <2> HIDE DEF S, step
  <2> QED BY <1>4, Recursion
<1>6. g \in [0 .. n -> S] /\ g[0] = B64Start
  BY <1>5 DEF Computes
<1>7. ASSUME NEW i \in 1 .. n PROVE g[i] = B64Step(g[i - 1], str[i], size)
  <2>1. i - 1 \in 0 .. n /\ i \in Nat
    BY <1>1
  <2>2. g[i - 1] \in S
    BY <1>6, <2>1
  <2>3. g[i] = step[i][g[i - 1]]
    <3> HIDE DEF step
    <3> QED BY <1>5 DEF Computes
  <2> HIDE DEF S
  <2> QED BY <2>1, <2>2, <2>3
<1>8. Eq(g)
  <2> DEFINE body(i) == IF i = 0 THEN B64Start ELSE B64Step(g[i - 1], str[i], size)
             F == [i \in 0 .. Len(str) |-> body(i)]
  <2>1. ASSUME NEW i \in 0 .. Len(str) PROVE g[i] = body(i)
    <3>1. i = 0 \/ (i \in 1 .. n /\ i # 0)
      BY <1>1
    <3> QED BY <1>6, <1>7, <3>1
  <2>2. g = F
    <3> HIDE DEF body
    <3>1. DOMAIN g = DOMAIN F /\ \A i \in DOMAIN F : g[i] = F[i]
      BY <1>6, <2>1
    <3>2. g = [i \in DOMAIN g |-> g[i]] /\ F = [i \in DOMAIN F |-> F[i]]
      BY <1>6
    <3> HIDE DEF F
    <3> QED BY <3>1, <3>2
  <2> QED BY <2>2, Zenon
<1>9. B64Steps(str, size) = CHOOSE f : Eq(f)
  BY DEF B64Steps
<1>10. Eq(B64Steps(str, size))
  <2> HIDE DEF Eq
  <2> QED BY <1>8, <1>9
<1> DEFINE f == B64Steps(str, size)
<1>11. ASSUME NEW i \in 0 .. n
       PROVE  f[i] = IF i = 0 THEN B64Start ELSE B64Step(f[i - 1], str[i], size)
  <2> HIDE DEF f
  <2>1. Eq(f)
    BY <1>10 DEF f
  <2> QED BY <2>1
<1> HIDE DEF f
<1>12. f[0] = B64Start
  BY <1>1, <1>11
<1>13. ASSUME NEW i \in 1 .. n PROVE f[i] = B64Step(f[i - 1], str[i], size)
  <2>1. i \in 0 .. n /\ i # 0
    BY <1>1
  <2> QED BY <1>11, <2>1
<1> QED BY <1>12, <1>13 DEF f

\* The four kinds of digits, and how three bytes come back from four of them.
DigitOf(bytes, i) ==
  LET Byte(k) == CharAt(bytes, k)
      g == 3 * ((i - 1) \div 4)
  IN  CASE i % 4 = 1 -> Byte(g + 1) \div 4
        [] i % 4 = 2 -> ((Byte(g + 1) % 4) * 16) + (Byte(g + 2) \div 16)
        [] i % 4 = 3 -> ((Byte(g + 2) % 16) * 4) + (Byte(g + 3) \div 64)
        [] i % 4 = 0 -> Byte(g + 3) % 64

Digits(bytes) == ((8 * Len(bytes)) + 5) \div 6

LEMMA BytesAre ==
  ASSUME NEW bytes \in Seq(0 .. 255), NEW k \in Int
  PROVE  CharAt(bytes, k) \in 0 .. 255
<1>1. CASE k \in DOMAIN bytes
  <2>1. k \in 1 .. Len(bytes)
    BY <1>1
  <2>2. bytes[k] \in 0 .. 255
    BY <2>1, ElementOfSeq
  <2> QED BY <1>1, <2>2 DEF CharAt
<1>2. CASE k \notin DOMAIN bytes
  BY <1>2 DEF CharAt
<1> QED BY <1>1, <1>2

LEMMA DigitsAre ==
  ASSUME NEW bytes \in Seq(0 .. 255), NEW i \in 1 .. Digits(bytes)
  PROVE  DigitOf(bytes, i) \in 0 .. 63
<1>1. \A k \in Int : CharAt(bytes, k) \in 0 .. 255
  BY BytesAre
<1> DEFINE g == 3 * ((i - 1) \div 4)
<1>2. Len(bytes) \in Nat /\ i \in Nat \ {0}
  BY DEF Digits
<1>3. g \in Int /\ g + 1 \in Int /\ g + 2 \in Int /\ g + 3 \in Int
  BY <1>2
<1> DEFINE a == CharAt(bytes, g + 1)
           b == CharAt(bytes, g + 2)
           c == CharAt(bytes, g + 3)
<1>4. a \in 0 .. 255 /\ b \in 0 .. 255 /\ c \in 0 .. 255
  BY <1>1, <1>3
<1>5. DigitOf(bytes, i) = CASE i % 4 = 1 -> a \div 4
                            [] i % 4 = 2 -> ((a % 4) * 16) + (b \div 16)
                            [] i % 4 = 3 -> ((b % 16) * 4) + (c \div 64)
                            [] i % 4 = 0 -> c % 64
  BY DEF DigitOf
<1> HIDE DEF a, b, c, g
<1>6. i % 4 = 0 \/ i % 4 = 1 \/ i % 4 = 2 \/ i % 4 = 3
  BY <1>2
<1>7. DigitOf(bytes, i) \in {a \div 4, ((a % 4) * 16) + (b \div 16),
                            ((b % 16) * 4) + (c \div 64), c % 64}
  <2> DEFINE r == i % 4
  <2>1. /\ r = 1 => DigitOf(bytes, i) = a \div 4
        /\ r = 2 => DigitOf(bytes, i) = ((a % 4) * 16) + (b \div 16)
        /\ r = 3 => DigitOf(bytes, i) = ((b % 16) * 4) + (c \div 64)
        /\ r = 0 => DigitOf(bytes, i) = c % 64
    <3> HIDE DEF r
    <3>1. DigitOf(bytes, i) = CASE r = 1 -> a \div 4
                                [] r = 2 -> ((a % 4) * 16) + (b \div 16)
                                [] r = 3 -> ((b % 16) * 4) + (c \div 64)
                                [] r = 0 -> c % 64
      BY <1>5 DEF r
    <3> QED BY <3>1
  <2> QED BY <1>6, <2>1
<1>8. a \div 4 \in 0 .. 63 /\ c % 64 \in 0 .. 63
  BY <1>4
<1>9. ((a % 4) * 16) + (b \div 16) \in 0 .. 63
  BY <1>4
<1>10. ((b % 16) * 4) + (c \div 64) \in 0 .. 63
  BY <1>4
<1> QED BY <1>7, <1>8, <1>9, <1>10

LEMMA ThreeBytes ==
  ASSUME NEW a \in 0 .. 255, NEW b \in 0 .. 255, NEW c \in 0 .. 255
  PROVE  LET d1 == a \div 4
             d2 == ((a % 4) * 16) + (b \div 16)
             d3 == ((b % 16) * 4) + (c \div 64)
             d4 == c % 64
         IN  /\ (d1 * 4) + (d2 \div 16) = a
             /\ ((d2 % 16) * 16) + (d3 \div 4) = b
             /\ ((d3 % 4) * 64) + d4 = c
<1>1. ((a \div 4) * 4) + ((((a % 4) * 16) + (b \div 16)) \div 16) = a
  <2>1. b \div 16 \in 0 .. 15 /\ a % 4 \in 0 .. 3
    OBVIOUS
  <2>2. (((a % 4) * 16) + (b \div 16)) \div 16 = a % 4
    BY <2>1
  <2> QED BY <2>2
<1>2. (((((a % 4) * 16) + (b \div 16)) % 16) * 16)
        + ((((b % 16) * 4) + (c \div 64)) \div 4) = b
  <2>1. b \div 16 \in 0 .. 15 /\ a % 4 \in 0 .. 3 /\ b % 16 \in 0 .. 15
        /\ c \div 64 \in 0 .. 3
    OBVIOUS
  <2>2. (((a % 4) * 16) + (b \div 16)) % 16 = b \div 16
    BY <2>1
  <2>3. (((b % 16) * 4) + (c \div 64)) \div 4 = b % 16
    BY <2>1
  <2>4. ((b \div 16) * 16) + (b % 16) = b
    OBVIOUS
  <2> QED BY <2>2, <2>3, <2>4
<1>3. (((((b % 16) * 4) + (c \div 64)) % 4) * 64) + (c % 64) = c
  <2>1. b % 16 \in 0 .. 15 /\ c \div 64 \in 0 .. 3
    OBVIOUS
  <2>2. (((b % 16) * 4) + (c \div 64)) % 4 = c \div 64
    BY <2>1
  <2>3. ((c \div 64) * 64) + (c % 64) = c
    OBVIOUS
  <2> QED BY <2>2, <2>3
<1> QED BY <1>1, <1>2, <1>3

\* Four digits, from place 4 * k + 1 on, are the bytes from place 3 * k + 1 on.
LEMMA FourDigits ==
  ASSUME NEW bytes \in Seq(0 .. 255), NEW k \in Nat
  PROVE  LET a == CharAt(bytes, 3 * k + 1)
             b == CharAt(bytes, 3 * k + 2)
             c == CharAt(bytes, 3 * k + 3)
         IN  /\ DigitOf(bytes, 4 * k + 1) = a \div 4
             /\ DigitOf(bytes, 4 * k + 2) = ((a % 4) * 16) + (b \div 16)
             /\ DigitOf(bytes, 4 * k + 3) = ((b % 16) * 4) + (c \div 64)
             /\ DigitOf(bytes, 4 * k + 4) = c % 64
<1>1. (4 * k + 1) % 4 = 1 /\ ((4 * k + 1) - 1) \div 4 = k
  OBVIOUS
<1>2. (4 * k + 2) % 4 = 2 /\ ((4 * k + 2) - 1) \div 4 = k
  OBVIOUS
<1>3. (4 * k + 3) % 4 = 3 /\ ((4 * k + 3) - 1) \div 4 = k
  OBVIOUS
<1>4. (4 * k + 4) % 4 = 0 /\ ((4 * k + 4) - 1) \div 4 = k
  OBVIOUS
<1>5. DigitOf(bytes, 4 * k + 1) = CharAt(bytes, 3 * k + 1) \div 4
  BY <1>1 DEF DigitOf
<1>6. DigitOf(bytes, 4 * k + 2) =
        ((CharAt(bytes, 3 * k + 1) % 4) * 16) + (CharAt(bytes, 3 * k + 2) \div 16)
  <2> DEFINE m == 4 * k + 2
  <2>1. m % 4 = 2 /\ (m - 1) \div 4 = k
    BY <1>2
  <2> HIDE DEF m
  <2>2. DigitOf(bytes, m) =
          ((CharAt(bytes, 3 * k + 1) % 4) * 16) + (CharAt(bytes, 3 * k + 2) \div 16)
    BY <2>1 DEF DigitOf
  <2> QED BY <2>2 DEF m
<1>7. DigitOf(bytes, 4 * k + 3) =
        ((CharAt(bytes, 3 * k + 2) % 16) * 4) + (CharAt(bytes, 3 * k + 3) \div 64)
  BY <1>3 DEF DigitOf
<1>8. DigitOf(bytes, 4 * k + 4) = CharAt(bytes, 3 * k + 3) % 64
  BY <1>4 DEF DigitOf
<1> QED BY <1>5, <1>6, <1>7, <1>8

LEMMA SubSeqMore ==
  ASSUME NEW T, NEW q \in Seq(T), NEW m \in 0 .. Len(q) - 1
  PROVE  Append(SubSeq(q, 1, m), q[m + 1]) = SubSeq(q, 1, m + 1)
<1> DEFINE x == Append(SubSeq(q, 1, m), q[m + 1])
           y == SubSeq(q, 1, m + 1)
<1>1. Len(q) \in Nat /\ q[m + 1] \in T /\ m \in Nat
  OBVIOUS
<1>2. SubSeq(q, 1, m) \in Seq(T) /\ Len(SubSeq(q, 1, m)) = m
      /\ \A i \in 1 .. m : SubSeq(q, 1, m)[i] = q[i]
  BY <1>1
<1>3. y \in Seq(T) /\ Len(y) = m + 1 /\ \A i \in 1 .. m + 1 : y[i] = q[i]
  BY <1>1
<1>4. x \in Seq(T) /\ Len(x) = m + 1 /\ \A i \in 1 .. m + 1 : x[i] = q[i]
  BY <1>1, <1>2
<1> HIDE DEF x, y
<1>5. x = y
  BY <1>3, <1>4, SeqEqual
<1> QED BY <1>5 DEF x, y

Least(a, b) == IF a < b THEN a ELSE b

\* What b64_decode knows after i digits.
B64Known(bytes, size, i) ==
  [phase |-> i % 4,
   prev_d |-> IF i = 0 THEN 0 ELSE DigitOf(bytes, i),
   space |-> SubSeq(bytes, 1, Least((3 * i) \div 4, size))]

\* What a digit adds: the first of four nothing, every other the next byte.
LEMMA ByteOfDigit ==
  ASSUME NEW bytes \in Seq(0 .. 255), NEW i \in 1 .. Digits(bytes)
  PROVE  LET r == (i - 1) % 4
             m == (3 * (i - 1)) \div 4
             p == DigitOf(bytes, i - 1)
             d == DigitOf(bytes, i)
         IN  /\ r \in 0 .. 3 /\ (r + 1) % 4 = i % 4 /\ m \in 0 .. Len(bytes)
             /\ r = 0 => (3 * i) \div 4 = m
             /\ r # 0 => i # 1 /\ m < Len(bytes) /\ (3 * i) \div 4 = m + 1
             /\ r = 1 => (p * 4) + (d \div 16) = bytes[m + 1]
             /\ r = 2 => ((p % 16) * 16) + (d \div 4) = bytes[m + 1]
             /\ r = 3 => ((p % 4) * 64) + d = bytes[m + 1]
<1> DEFINE n == Len(bytes)
           r == (i - 1) % 4
           k == (i - 1) \div 4
           m == (3 * (i - 1)) \div 4
           p == DigitOf(bytes, i - 1)
           d == DigitOf(bytes, i)
           a == CharAt(bytes, 3 * k + 1)
           b == CharAt(bytes, 3 * k + 2)
           c == CharAt(bytes, 3 * k + 3)
<1>1. n \in Nat /\ i \in Nat \ {0} /\ 6 * i <= (8 * n) + 5
  <2>1. n \in Nat
    OBVIOUS
  <2> HIDE DEF n
  <2>2. i \in 1 .. ((8 * n) + 5) \div 6
    BY DEF Digits, n
  <2> QED BY <2>1, <2>2
<1> HIDE DEF n
<1>2. k \in Nat /\ r \in 0 .. 3 /\ i = (4 * k) + r + 1
  BY <1>1
<1>3. a \in 0 .. 255 /\ b \in 0 .. 255 /\ c \in 0 .. 255
  <2>1. 3 * k + 1 \in Int /\ 3 * k + 2 \in Int /\ 3 * k + 3 \in Int
    BY <1>2
  <2> HIDE DEF k
  <2> QED BY <2>1, BytesAre
<1>4. /\ DigitOf(bytes, 4 * k + 1) = a \div 4
      /\ DigitOf(bytes, 4 * k + 2) = ((a % 4) * 16) + (b \div 16)
      /\ DigitOf(bytes, 4 * k + 3) = ((b % 16) * 4) + (c \div 64)
      /\ DigitOf(bytes, 4 * k + 4) = c % 64
  BY <1>2, FourDigits
<1>5. /\ ((a \div 4) * 4) + ((((a % 4) * 16) + (b \div 16)) \div 16) = a
      /\ (((((a % 4) * 16) + (b \div 16)) % 16) * 16)
           + ((((b % 16) * 4) + (c \div 64)) \div 4) = b
      /\ (((((b % 16) * 4) + (c \div 64)) % 4) * 64) + (c % 64) = c
  <2> HIDE DEF a, b, c
  <2> QED BY <1>3, ThreeBytes
<1>6. \A x \in 1 .. n : CharAt(bytes, x) = bytes[x]
  BY DEF CharAt, n
<1> HIDE DEF k, r
<1>7. /\ r = 0 => m = 3 * k /\ (3 * i) \div 4 = 3 * k
      /\ r = 1 => m = 3 * k /\ (3 * i) \div 4 = 3 * k + 1 /\ 3 * k + 1 <= n
      /\ r = 2 => m = 3 * k + 1 /\ (3 * i) \div 4 = 3 * k + 2 /\ 3 * k + 2 <= n
      /\ r = 3 => m = 3 * k + 2 /\ (3 * i) \div 4 = 3 * k + 3 /\ 3 * k + 3 <= n
      /\ m \in 0 .. n
  BY <1>1, <1>2
<1> HIDE DEF m
<1>8. (r + 1) % 4 = i % 4
  BY <1>2
<1>9. r # 0 => i # 1 /\ m < n /\ (3 * i) \div 4 = m + 1
  BY <1>1, <1>2, <1>7
<1>10. ASSUME r = 1 PROVE (p * 4) + (d \div 16) = bytes[m + 1]
  <2>1. i - 1 = 4 * k + 1 /\ i = 4 * k + 2 /\ m + 1 = 3 * k + 1
        /\ 3 * k + 1 \in 1 .. n
    BY <1>2, <1>7, <1>10
  <2>2. a = bytes[m + 1]
    BY <1>6, <2>1
  <2>3. p = a \div 4 /\ d = ((a % 4) * 16) + (b \div 16)
    BY <1>4, <2>1
  <2> HIDE DEF a, b, c, p, d
  <2> QED BY <1>5, <2>2, <2>3
<1>11. ASSUME r = 2 PROVE ((p % 16) * 16) + (d \div 4) = bytes[m + 1]
  <2>1. i - 1 = 4 * k + 2 /\ i = 4 * k + 3 /\ m + 1 = 3 * k + 2
        /\ 3 * k + 2 \in 1 .. n
    BY <1>2, <1>7, <1>11
  <2>2. b = bytes[m + 1]
    BY <1>6, <2>1
  <2>3. p = ((a % 4) * 16) + (b \div 16) /\ d = ((b % 16) * 4) + (c \div 64)
    BY <1>4, <2>1
  <2> HIDE DEF a, b, c, p, d
  <2> QED BY <1>5, <2>2, <2>3
<1>12. ASSUME r = 3 PROVE ((p % 4) * 64) + d = bytes[m + 1]
  <2>1. i - 1 = 4 * k + 3 /\ i = 4 * k + 4 /\ m + 1 = 3 * k + 3
        /\ 3 * k + 3 \in 1 .. n
    BY <1>2, <1>7, <1>12
  <2>2. c = bytes[m + 1]
    BY <1>6, <2>1
  <2>3. p = ((b % 16) * 4) + (c \div 64) /\ d = c % 64
    BY <1>4, <2>1
  <2> HIDE DEF a, b, c, p, d
  <2> QED BY <1>5, <2>2, <2>3
<1> HIDE DEF p, d
<1>13. /\ r \in 0 .. 3 /\ (r + 1) % 4 = i % 4 /\ m \in 0 .. n
       /\ r = 0 => (3 * i) \div 4 = m
       /\ r # 0 => i # 1 /\ m < n /\ (3 * i) \div 4 = m + 1
       /\ r = 1 => (p * 4) + (d \div 16) = bytes[m + 1]
       /\ r = 2 => ((p % 16) * 16) + (d \div 4) = bytes[m + 1]
       /\ r = 3 => ((p % 4) * 64) + d = bytes[m + 1]
  BY <1>2, <1>7, <1>8, <1>9, <1>10, <1>11, <1>12
<1> QED BY <1>13, Zenon DEF r, m, p, d, n

LEMMA DigitTaken ==
  ASSUME NEW bytes \in Seq(0 .. 255), NEW size \in Nat, NEW i \in 1 .. Digits(bytes)
  PROVE  B64Step(B64Known(bytes, size, i - 1), DigitOf(bytes, i), size)
           = B64Known(bytes, size, i)
<1> DEFINE n == Len(bytes)
           r == (i - 1) % 4
           m == (3 * (i - 1)) \div 4
           next_m == (3 * i) \div 4
           p == DigitOf(bytes, i - 1)
           d == DigitOf(bytes, i)
           st == B64Known(bytes, size, i - 1)
           c == CASE st.phase = 0 -> 0
                  [] st.phase = 1 -> (st.prev_d * 4) + (d \div 16)
                  [] st.phase = 2 -> ((st.prev_d % 16) * 16) + (d \div 4)
                  [] st.phase = 3 -> ((st.prev_d % 4) * 64) + d
<1>0. n \in Nat /\ d \in 0 .. 63 /\ i # 0
  BY DigitsAre
<1>1. /\ r \in 0 .. 3 /\ (r + 1) % 4 = i % 4 /\ m \in 0 .. n
      /\ r = 0 => next_m = m
      /\ r # 0 => i # 1 /\ m < n /\ next_m = m + 1
      /\ r = 1 => (p * 4) + (d \div 16) = bytes[m + 1]
      /\ r = 2 => ((p % 16) * 16) + (d \div 4) = bytes[m + 1]
      /\ r = 3 => ((p % 4) * 64) + d = bytes[m + 1]
  BY ByteOfDigit
<1>2. /\ st.phase = r
      /\ st.prev_d = IF i - 1 = 0 THEN 0 ELSE p
      /\ st.space = SubSeq(bytes, 1, Least(m, size))
  BY DEF B64Known
<1>3. d # Pad
  <2>1. \A x \in 0 .. 63 : x # Pad
    BY DEF Pad
  <2> HIDE DEF d
  <2> QED BY <1>0, <2>1, Zenon
<1>4. B64Step(st, d, size) =
        [phase |-> (st.phase + 1) % 4, prev_d |-> d,
         space |-> IF st.phase # 0 /\ Len(st.space) < size
                     THEN Append(st.space, c) ELSE st.space]
  BY <1>3 DEF B64Step
<1>5. B64Known(bytes, size, i) =
        [phase |-> i % 4, prev_d |-> d, space |-> SubSeq(bytes, 1, Least(next_m, size))]
  BY <1>0 DEF B64Known
<1> HIDE DEF n, r, m, next_m, p, d, st
<1>6. r # 0 => st.prev_d = p
  BY <1>1, <1>2
<1>7. r # 0 => c = bytes[m + 1]
  <2>1. r # 0 => r = 1 \/ r = 2 \/ r = 3
    BY <1>1
  <2>2. CASE r = 1
    BY <1>1, <1>2, <1>6, <2>2
  <2>3. CASE r = 2
    BY <1>1, <1>2, <1>6, <2>3
  <2>4. CASE r = 3
    BY <1>1, <1>2, <1>6, <2>4
  <2> HIDE DEF c
  <2> QED BY <2>1, <2>2, <2>3, <2>4
<1> HIDE DEF c
<1>8. \A x \in 0 .. n : Len(SubSeq(bytes, 1, x)) = x
  BY DEF n
<1>9. Least(m, size) \in 0 .. n /\ Len(st.space) = Least(m, size)
  <2>1. Least(m, size) \in 0 .. n
    BY <1>0, <1>1 DEF Least
  <2> QED BY <1>2, <1>8, <2>1
<1>10. (IF st.phase # 0 /\ Len(st.space) < size THEN Append(st.space, c) ELSE st.space)
         = SubSeq(bytes, 1, Least(next_m, size))
  <2>1. CASE r = 0
    BY <1>1, <1>2, <2>1
  <2>2. CASE r # 0 /\ m < size
    <3>1. Least(m, size) = m /\ Least(next_m, size) = m + 1 /\ m \in 0 .. Len(bytes) - 1
      BY <1>0, <1>1, <2>2 DEF Least, n
    <3>2. Append(SubSeq(bytes, 1, m), bytes[m + 1]) = SubSeq(bytes, 1, m + 1)
      BY <3>1, SubSeqMore
    <3> QED BY <1>2, <1>7, <1>9, <2>2, <3>1, <3>2
  <2>3. CASE r # 0 /\ ~(m < size)
    <3>1. Least(m, size) = size /\ Least(next_m, size) = size
      BY <1>0, <1>1, <2>3 DEF Least
    <3>2. ~(Len(st.space) < size)
      BY <1>9, <3>1
    <3> QED BY <1>2, <3>1, <3>2
  <2> QED BY <2>1, <2>2, <2>3
<1>11. (st.phase + 1) % 4 = i % 4
  BY <1>1, <1>2
<1>12. B64Step(st, d, size) = B64Known(bytes, size, i)
  BY <1>4, <1>5, <1>10, <1>11, Zenon
<1> QED BY <1>12 DEF st, d

LEMMA EncodingIs ==
  ASSUME NEW bytes \in Seq(0 .. 255)
  PROVE  /\ Encode(bytes) \in Seq(Int)
         /\ Digits(bytes) \in 0 .. Len(Encode(bytes))
         /\ (3 * Digits(bytes)) \div 4 = Len(bytes)
         /\ \A i \in 1 .. Len(Encode(bytes)) :
              Encode(bytes)[i] = IF i <= Digits(bytes) THEN DigitOf(bytes, i) ELSE Pad
<1>0. \A x \in 0 .. 63 : x \in Int
  OBVIOUS
<1> DEFINE n == Len(bytes)
           l == 4 * ((n + 2) \div 3)
           D == Digits(bytes)
           e == [i \in 1 .. l |-> IF i <= D THEN DigitOf(bytes, i) ELSE Pad]
<1>1. n \in Nat
  OBVIOUS
<1>2. D = ((8 * n) + 5) \div 6
  BY DEF Digits
<1>3. Encode(bytes) = e
  BY DEF Encode, DigitOf, Digits
<1> HIDE DEF n, D
<1>4. l \in Nat /\ D \in 0 .. l /\ (3 * D) \div 4 = n
  BY <1>1, <1>2
<1> HIDE DEF l
<1>5. \A i \in 1 .. l : (IF i <= D THEN DigitOf(bytes, i) ELSE Pad) \in Int
  <2>1. \A i \in 1 .. l : i <= D => i \in 1 .. D
    BY <1>4
  <2>2. ASSUME NEW i \in 1 .. D PROVE DigitOf(bytes, i) \in Int
    <3> HIDE DEF e
    <3>1. i \in 1 .. Digits(bytes)
      BY DEF D
    <3>2. DigitOf(bytes, i) \in 0 .. 63
      BY <3>1, DigitsAre
    <3> QED BY <3>2, <1>0, Zenon
  <2>3. Pad \in Int
    BY DEF Pad
  <2> HIDE DEF e
  <2> QED BY <2>1, <2>2, <2>3
<1>6. e \in [1 .. l -> Int]
  BY <1>5
<1>7. e \in Seq(Int) /\ Len(e) = l
  <2> HIDE DEF e
  <2> QED BY <1>4, <1>6
<1>8. \A i \in 1 .. l : e[i] = IF i <= D THEN DigitOf(bytes, i) ELSE Pad
  OBVIOUS
<1> HIDE DEF e
<1> QED BY <1>3, <1>4, <1>7, <1>8 DEF D, n

\* b64_decode gives back the bytes, as many as there is room for.
THEOREM B64Right ==
  ASSUME NEW bytes \in Seq(0 .. 255), NEW size \in Nat
  PROVE  B64Decode(Encode(bytes), size) = SubSeq(bytes, 1, Least(Len(bytes), size))
<1> DEFINE str == Encode(bytes)
           l == Len(str)
           D == Digits(bytes)
           f == B64Steps(str, size)
           P == {i \in 0 .. l : f[i] = B64Known(bytes, size, Least(i, D))}
<1>1. /\ str \in Seq(Int) /\ D \in 0 .. l /\ (3 * D) \div 4 = Len(bytes)
      /\ \A i \in 1 .. l : str[i] = IF i <= D THEN DigitOf(bytes, i) ELSE Pad
  BY EncodingIs
<1> HIDE DEF str
<1>2. l \in Nat
  BY <1>1
<1>3. f[0] = B64Start /\ \A i \in 1 .. l : f[i] = B64Step(f[i - 1], str[i], size)
  BY <1>1, B64StepsRight
<1> HIDE DEF l, f, D
<1>4. 0 \in P
  <2>1. Least(0, D) = 0
    BY <1>1, <1>2 DEF Least
  <2>2. Least((3 * 0) \div 4, size) = 0 /\ 0 % 4 = 0
    BY DEF Least
  <2>3. SubSeq(bytes, 1, 0) = <<>>
    OBVIOUS
  <2>4. B64Known(bytes, size, 0) = B64Start
    BY <2>2, <2>3 DEF B64Known, B64Start
  <2> QED BY <1>2, <1>3, <2>1, <2>4
<1>5. ASSUME NEW i \in 1 .. l, i - 1 \in P PROVE i \in P
  <2>1. i \in 0 .. l /\ i \in Nat
    BY <1>2
  <2>2. f[i - 1] = B64Known(bytes, size, Least(i - 1, D))
    BY <1>5
  <2>3. f[i] = B64Step(f[i - 1], str[i], size)
    BY <1>3
  <2>4. CASE i <= D
    <3>1. Least(i - 1, D) = i - 1 /\ Least(i, D) = i /\ i \in 1 .. D
      BY <1>1, <1>2, <2>1, <2>4 DEF Least
    <3>2. str[i] = DigitOf(bytes, i)
      BY <1>1, <2>4
    <3>3. B64Step(B64Known(bytes, size, i - 1), DigitOf(bytes, i), size)
            = B64Known(bytes, size, i)
      BY <3>1, DigitTaken DEF D
    <3> QED BY <2>1, <2>2, <2>3, <3>1, <3>2, <3>3
  <2>5. CASE ~(i <= D)
    <3>1. Least(i - 1, D) = D /\ Least(i, D) = D
      BY <1>1, <1>2, <2>1, <2>5 DEF Least
    <3>2. str[i] = Pad
      BY <1>1, <2>5
    <3>3. B64Step(f[i - 1], Pad, size) = f[i - 1]
      BY DEF B64Step
    <3> QED BY <2>1, <2>2, <2>3, <3>1, <3>2, <3>3
  <2> QED BY <2>4, <2>5
<1> HIDE DEF P
<1>6. Inductive(P, l)
  BY <1>4, <1>5 DEF Inductive
<1>7. l \in P
  BY <1>2, <1>6, CountUp
<1>8. f[l].space = SubSeq(bytes, 1, Least(Len(bytes), size))
  <2>1. Least(l, D) = D
    BY <1>1, <1>2 DEF Least
  <2>2. f[l] = B64Known(bytes, size, D)
    BY <1>7, <2>1 DEF P
  <2>3. B64Known(bytes, size, D).space
          = SubSeq(bytes, 1, Least((3 * D) \div 4, size))
    BY DEF B64Known
  <2> QED BY <1>1, <2>2, <2>3, Zenon
<1>9. B64Decode(str, size) = f[l].space
  BY DEF B64Decode, f, l, B64Steps
<1> QED BY <1>8, <1>9 DEF str

(***************************************************************************)
(* The binary search: where the comparisons go from above 0 to below 0,    *)
(* it finds the one that is 0.                                             *)
(***************************************************************************)
Halved(c, b) ==
  LET i == (b.h + b.l) \div 2
  IN  IF b.h < b.l \/ c[i] = 0 THEN b
      ELSE IF c[i] < 0 THEN [b EXCEPT !.h = i - 1]
      ELSE [b EXCEPT !.l = i + 1]

BoundsOf(c, n) ==
  CHOOSE f : f = [z \in 0 .. n |->
                    IF z = 0 THEN [l |-> 0, h |-> n - 1]
                    ELSE LET b == f[z - 1]
                             i == (b.h + b.l) \div 2
                         IN  IF b.h < b.l \/ c[i] = 0 THEN b
                             ELSE IF c[i] < 0 THEN [b EXCEPT !.h = i - 1]
                             ELSE [b EXCEPT !.l = i + 1]]

LEMMA BoundsRight ==
  ASSUME NEW c, NEW n \in Nat
  PROVE  /\ BoundsOf(c, n)[0] = [l |-> 0, h |-> n - 1]
         /\ \A z \in 1 .. n : BoundsOf(c, n)[z] = Halved(c, BoundsOf(c, n)[z - 1])
<1> DEFINE S == [l : Int, h : Int]
           base == [l |-> 0, h |-> n - 1]
           step == [z \in Nat |-> [b \in S |-> Halved(c, b)]]
           Eq(f) == f = [z \in 0 .. n |-> IF z = 0 THEN base ELSE Halved(c, f[z - 1])]
<1>1. base \in S
  OBVIOUS
<1>2. ASSUME NEW b \in S PROVE Halved(c, b) \in S
  <2> DEFINE i == (b.h + b.l) \div 2
  <2>1. b.h \in Int /\ b.l \in Int /\ i \in Int
    OBVIOUS
  <2>2. Halved(c, b) = IF b.h < b.l \/ c[i] = 0 THEN b
                       ELSE IF c[i] < 0 THEN [b EXCEPT !.h = i - 1]
                       ELSE [b EXCEPT !.l = i + 1]
    BY DEF Halved
  <2> HIDE DEF i
  <2> QED BY <2>1, <2>2
<1>3. step \in [Nat -> [S -> S]]
  BY <1>2
<1>4. Stepping(S, base, step, n)
  BY <1>1, <1>3 DEF Stepping
<1>5. PICK g : Computes(g, S, base, step, n)
  <2> HIDE DEF S, step, base
  <2> QED BY <1>4, Recursion
<1>6. g \in [0 .. n -> S] /\ g[0] = base
  BY <1>5 DEF Computes
<1>7. ASSUME NEW z \in 1 .. n PROVE g[z] = Halved(c, g[z - 1])
  <2>1. z - 1 \in 0 .. n /\ z \in Nat
    OBVIOUS
  <2> HIDE DEF S, base
  <2>2. g[z - 1] \in S
    BY <1>6, <2>1
  <2>3. g[z] = step[z][g[z - 1]]
    <3> HIDE DEF step
    <3> QED BY <1>5 DEF Computes
  <2> QED BY <2>1, <2>2, <2>3
<1>8. Eq(g)
  <2> DEFINE body(z) == IF z = 0 THEN base ELSE Halved(c, g[z - 1])
             F == [z \in 0 .. n |-> body(z)]
  <2>1. ASSUME NEW z \in 0 .. n PROVE g[z] = body(z)
    <3>1. z = 0 \/ (z \in 1 .. n /\ z # 0)
      OBVIOUS
    <3> HIDE DEF base, S
    <3> QED BY <1>6, <1>7, <3>1
  <2>2. g = F
    <3> HIDE DEF body
    <3>1. DOMAIN g = DOMAIN F /\ \A z \in DOMAIN F : g[z] = F[z]
      BY <1>6, <2>1
    <3>2. g = [z \in DOMAIN g |-> g[z]] /\ F = [z \in DOMAIN F |-> F[z]]
      BY <1>6
    <3> HIDE DEF F
    <3> QED BY <3>1, <3>2
  <2> QED BY <2>2, Zenon
<1>9. BoundsOf(c, n) = CHOOSE f : Eq(f)
  BY DEF BoundsOf, Halved
<1>10. Eq(BoundsOf(c, n))
  <2> HIDE DEF Eq
  <2> QED BY <1>8, <1>9
<1> DEFINE f == BoundsOf(c, n)
<1>11. ASSUME NEW z \in 0 .. n
       PROVE  f[z] = IF z = 0 THEN base ELSE Halved(c, f[z - 1])
  <2> HIDE DEF f, base
  <2>1. Eq(f)
    BY <1>10 DEF f
  <2> QED BY <2>1
<1> HIDE DEF f
<1>12. f[0] = base
  BY <1>11
<1>13. ASSUME NEW z \in 1 .. n PROVE f[z] = Halved(c, f[z - 1])
  <2>1. z \in 0 .. n /\ z # 0
    OBVIOUS
  <2> HIDE DEF base
  <2> QED BY <1>11, <2>1
<1> QED BY <1>12, <1>13 DEF f

\* Comparisons with the entries of a sorted table.
Falls(c, n) ==
  /\ c \in [0 .. n - 1 -> Int]
  /\ \A i, j \in 0 .. n - 1 : i < j /\ c[j] >= 0 => c[i] > 0

LEMMA BisectRight ==
  ASSUME NEW c, NEW n \in Nat, Falls(c, n)
  PROVE  \/ Bisect(c, n) = NotFound /\ \A j \in 0 .. n - 1 : c[j] # 0
         \/ Bisect(c, n) \in 0 .. n - 1 /\ c[Bisect(c, n)] = 0
<1> DEFINE B == BoundsOf(c, n)
           Mid(b) == (b.h + b.l) \div 2
           Done(b) == b.h < b.l \/ c[Mid(b)] = 0
           Bounding(b) ==
             /\ b \in [l : Int, h : Int]
             /\ 0 <= b.l /\ b.h <= n - 1 /\ b.l <= b.h + 1
             /\ \A j \in 0 .. n - 1 : (j < b.l => c[j] > 0) /\ (j > b.h => c[j] < 0)
           P == {z \in 0 .. n : /\ Bounding(B[z])
                                /\ Done(B[z]) \/ (B[z].h - B[z].l) + 1 <= n - z}
<1>1. B[0] = [l |-> 0, h |-> n - 1] /\ \A z \in 1 .. n : B[z] = Halved(c, B[z - 1])
  BY BoundsRight
<1> HIDE DEF B
<1>2. 0 \in P
  BY <1>1
<1>3. ASSUME NEW b, Bounding(b), ~Done(b)
      PROVE  /\ Bounding(Halved(c, b))
             /\ (Halved(c, b).h - Halved(c, b).l) + 1 <= b.h - b.l
  <2> DEFINE i == (b.h + b.l) \div 2
  <2>1. /\ b.h \in Int /\ b.l \in Int /\ b.l <= b.h /\ c[i] # 0
        /\ 0 <= b.l /\ b.h <= n - 1
        /\ \A j \in 0 .. n - 1 : (j < b.l => c[j] > 0) /\ (j > b.h => c[j] < 0)
    BY <1>3
  <2>2. i \in b.l .. b.h /\ i \in 0 .. n - 1
    BY <2>1
  <2>3. b = [l |-> b.l, h |-> b.h]
    BY <1>3
  <2>4. Halved(c, b) = IF c[i] < 0 THEN [l |-> b.l, h |-> i - 1]
                       ELSE [l |-> i + 1, h |-> b.h]
    <3>1. Halved(c, b) = IF b.h < b.l \/ c[i] = 0 THEN b
                         ELSE IF c[i] < 0 THEN [b EXCEPT !.h = i - 1]
                         ELSE [b EXCEPT !.l = i + 1]
      BY DEF Halved
    <3>2. ~(b.h < b.l \/ c[i] = 0)
      BY <2>1
    <3> HIDE DEF i
    <3> QED BY <2>3, <3>1, <3>2
  <2>5. c[i] \in Int /\ \A j \in 0 .. n - 1 : c[j] \in Int
    BY <2>2 DEF Falls
  <2>6. /\ \A j \in 0 .. n - 1 : j < i /\ c[i] >= 0 => c[j] > 0
        /\ \A j \in 0 .. n - 1 : i < j /\ c[j] >= 0 => c[i] > 0
    BY <2>2 DEF Falls
  <2> HIDE DEF i
  <2>7. CASE c[i] < 0
    <3>1. \A j \in 0 .. n - 1 : j > i - 1 => c[j] < 0
      <4> SUFFICES ASSUME NEW j \in 0 .. n - 1, j > i - 1 PROVE c[j] < 0
        OBVIOUS
      <4>1. j = i \/ i < j
        BY <2>2
      <4>2. CASE i < j
        BY <2>5, <2>6, <2>7, <4>2
      <4> QED BY <2>7, <4>1, <4>2
    <3> QED BY <2>1, <2>2, <2>4, <2>7, <3>1
  <2>8. CASE c[i] > 0
    <3>1. \A j \in 0 .. n - 1 : j < i + 1 => c[j] > 0
      <4> SUFFICES ASSUME NEW j \in 0 .. n - 1, j < i + 1 PROVE c[j] > 0
        OBVIOUS
      <4>1. j = i \/ j < i
        BY <2>2
      <4>2. CASE j < i
        BY <2>5, <2>6, <2>8, <4>2
      <4> QED BY <2>8, <4>1, <4>2
    <3>2. ~(c[i] < 0)
      BY <2>5, <2>8
    <3> QED BY <2>1, <2>2, <2>4, <3>1, <3>2
  <2> QED BY <2>1, <2>5, <2>7, <2>8
<1>4. ASSUME NEW b, Done(b) PROVE Halved(c, b) = b
  BY <1>4 DEF Halved
<1>5. ASSUME NEW z \in 1 .. n, z - 1 \in P PROVE z \in P
  <2>1. Bounding(B[z - 1]) /\ (Done(B[z - 1]) \/ (B[z - 1].h - B[z - 1].l) + 1 <= n - (z - 1))
    BY <1>5
  <2>2. B[z] = Halved(c, B[z - 1]) /\ z \in 0 .. n
    BY <1>1
  <2> HIDE DEF Done, Bounding
  <2>3. CASE Done(B[z - 1])
    BY <1>4, <2>1, <2>2, <2>3
  <2>4. CASE ~Done(B[z - 1])
    <3>1. /\ Bounding(B[z])
          /\ (B[z].h - B[z].l) + 1 <= B[z - 1].h - B[z - 1].l
      BY <1>3, <2>1, <2>2, <2>4
    <3>2. (B[z - 1].h - B[z - 1].l) + 1 <= n - (z - 1)
      BY <2>1, <2>4
    <3>3. /\ B[z - 1].h \in Int /\ B[z - 1].l \in Int
          /\ B[z].h \in Int /\ B[z].l \in Int
      BY <2>1, <3>1 DEF Bounding
    <3>4. (B[z].h - B[z].l) + 1 <= n - z
      BY <3>1, <3>2, <3>3
    <3> QED BY <2>2, <3>1, <3>4
  <2> QED BY <2>3, <2>4
<1> HIDE DEF P
<1>6. Inductive(P, n)
  BY <1>2, <1>5 DEF Inductive
<1>7. n \in P
  BY <1>6, CountUp
<1> DEFINE b == B[n]
<1>8. Bounding(b) /\ Done(b)
  <2>1. Bounding(b) /\ (Done(b) \/ (b.h - b.l) + 1 <= n - n)
    BY <1>7 DEF P
  <2> QED BY <2>1
<1>9. Bisect(c, n) = IF b.h < b.l THEN NotFound ELSE Mid(b)
  BY DEF Bisect, B, BoundsOf
<1> HIDE DEF b
<1>10. CASE b.h < b.l
  <2>1. \A j \in 0 .. n - 1 : j < b.l \/ j > b.h
    BY <1>8, <1>10
  <2>2. \A j \in 0 .. n - 1 : c[j] # 0
    BY <1>8, <2>1 DEF Falls
  <2> QED BY <1>9, <1>10, <2>2
<1>11. CASE ~(b.h < b.l)
  <2>1. c[Mid(b)] = 0 /\ Mid(b) \in 0 .. n - 1
    BY <1>8, <1>11
  <2> QED BY <1>9, <1>11, <2>1
<1> QED BY <1>10, <1>11

(***************************************************************************)
(* The order of strcmp.                                                    *)
(***************************************************************************)
SmallerAt(a, b, i) ==
  /\ \A j \in 1 .. i - 1 : CharAt(a, j) = CharAt(b, j)
  /\ CharAt(a, i) < CharAt(b, i)

Smaller(a, b) == \E i \in Nat \ {0} : SmallerAt(a, b, i)

LEMMA CharsAre ==
  ASSUME NEW a \in CStrings
  PROVE  /\ Len(a) \in Nat
         /\ \A i \in Nat : CharAt(a, i) \in Nat
         /\ \A i \in 1 .. Len(a) : CharAt(a, i) = a[i] /\ CharAt(a, i) # 0
         /\ \A i \in Nat \ {0} : CharAt(a, i) = 0 <=> i > Len(a)
<1>1. a \in Seq(Nat \ {0})
  BY DEF CStrings
<1>2. Len(a) \in Nat /\ DOMAIN a = 1 .. Len(a)
  BY <1>1
<1>3. \A i \in 1 .. Len(a) : a[i] \in Nat \ {0}
  BY <1>1, ElementOfSeq
<1> QED BY <1>2, <1>3 DEF CharAt

LEMMA SameChars ==
  ASSUME NEW a \in CStrings, NEW b \in CStrings,
         \A i \in Nat \ {0} : CharAt(a, i) = CharAt(b, i)
  PROVE  a = b
<1>1. Len(a) \in Nat /\ Len(b) \in Nat
  BY CharsAre
<1>2. \A i \in Nat \ {0} : i > Len(a) <=> i > Len(b)
  BY CharsAre
<1>3. Len(a) = Len(b)
  <2>1. CASE Len(a) < Len(b)
    <3>1. Len(b) \in Nat \ {0} /\ Len(b) > Len(a) /\ ~(Len(b) > Len(b))
      BY <1>1, <2>1
    <3> QED BY <1>2, <3>1
  <2>2. CASE Len(b) < Len(a)
    <3>1. Len(a) \in Nat \ {0} /\ Len(a) > Len(b) /\ ~(Len(a) > Len(a))
      BY <1>1, <2>2
    <3> QED BY <1>2, <3>1
  <2> QED BY <1>1, <2>1, <2>2
<1>4. \A i \in 1 .. Len(a) : a[i] = b[i]
  <2> SUFFICES ASSUME NEW i \in 1 .. Len(a) PROVE a[i] = b[i]
    OBVIOUS
  <2>1. i \in Nat \ {0} /\ i \in 1 .. Len(b)
    BY <1>1, <1>3
  <2>2. CharAt(a, i) = a[i] /\ CharAt(b, i) = b[i]
    BY <2>1, CharsAre
  <2> QED BY <2>1, <2>2
<1> QED BY <1>3, <1>4, SeqEqual DEF CStrings

LEMMA SmallerOrder ==
  ASSUME NEW a \in CStrings, NEW b \in CStrings
  PROVE  /\ Smaller(a, b) => ~Smaller(b, a) /\ a # b
         /\ a # b => Smaller(a, b) \/ Smaller(b, a)
         /\ \A c \in CStrings : Smaller(a, b) /\ Smaller(b, c) => Smaller(a, c)
<1>1. \A i \in Nat : CharAt(a, i) \in Nat /\ CharAt(b, i) \in Nat
  BY CharsAre
<1>2. ~(Smaller(a, b) /\ Smaller(b, a))
  <2> SUFFICES ASSUME NEW i \in Nat \ {0}, NEW k \in Nat \ {0},
                      SmallerAt(a, b, i), SmallerAt(b, a, k)
               PROVE  FALSE
    BY DEF Smaller
  <2>1. i < k => i \in 1 .. k - 1
    OBVIOUS
  <2>2. k < i => k \in 1 .. i - 1
    OBVIOUS
  <2>3. CharAt(a, i) < CharAt(b, i) /\ CharAt(b, k) < CharAt(a, k)
    BY DEF SmallerAt
  <2>4. ~(i < k) /\ ~(k < i)
    BY <1>1, <2>1, <2>2, <2>3 DEF SmallerAt
  <2>5. i = k
    BY <2>4
  <2> QED BY <1>1, <2>3, <2>5
<1>3. ~Smaller(a, a)
  <2> SUFFICES ASSUME NEW i \in Nat \ {0}, SmallerAt(a, a, i) PROVE FALSE
    BY DEF Smaller
  <2> QED BY <1>1 DEF SmallerAt
<1>4. ASSUME a # b PROVE Smaller(a, b) \/ Smaller(b, a)
  <2> DEFINE T == {i \in Nat \ {0} : CharAt(a, i) # CharAt(b, i)}
  <2>1. T # {}
    BY <1>4, SameChars
  <2>2. T \in SUBSET Nat
    OBVIOUS
  <2>3. PICK i \in T : \A k \in T : i <= k
    <3> HIDE DEF T
    <3> QED BY <2>1, <2>2, LeastExists
  <2>4. \A j \in 1 .. i - 1 : CharAt(a, j) = CharAt(b, j)
    <3> SUFFICES ASSUME NEW j \in 1 .. i - 1, CharAt(a, j) # CharAt(b, j) PROVE FALSE
      OBVIOUS
    <3>1. j \in T /\ ~(i <= j)
      BY <2>3
    <3> QED BY <2>3, <3>1
  <2>5. CharAt(a, i) < CharAt(b, i) \/ CharAt(b, i) < CharAt(a, i)
    BY <1>1, <2>3
  <2> QED BY <2>3, <2>4, <2>5 DEF Smaller, SmallerAt
<1>5. ASSUME NEW c \in CStrings, Smaller(a, b), Smaller(b, c) PROVE Smaller(a, c)
  <2>0. \A i \in Nat : CharAt(c, i) \in Nat
    BY CharsAre
  <2>1. PICK i \in Nat \ {0} : SmallerAt(a, b, i)
    BY <1>5 DEF Smaller
  <2>2. PICK k \in Nat \ {0} : SmallerAt(b, c, k)
    BY <1>5 DEF Smaller
  <2>3. CASE i < k
    <3>1. \A j \in 1 .. i - 1 : CharAt(a, j) = CharAt(c, j)
      <4>1. \A j \in 1 .. i - 1 : j \in 1 .. k - 1
        BY <2>3
      <4> QED BY <2>1, <2>2, <4>1 DEF SmallerAt
    <3>2. i \in 1 .. k - 1
      BY <2>3
    <3>3. CharAt(a, i) < CharAt(c, i)
      BY <2>1, <2>2, <3>2 DEF SmallerAt
    <3> QED BY <3>1, <3>3 DEF Smaller, SmallerAt
  <2>4. CASE k < i
    <3>1. \A j \in 1 .. k - 1 : CharAt(a, j) = CharAt(c, j)
      <4>1. \A j \in 1 .. k - 1 : j \in 1 .. i - 1
        BY <2>4
      <4> QED BY <2>1, <2>2, <4>1 DEF SmallerAt
    <3>2. k \in 1 .. i - 1
      BY <2>4
    <3>3. CharAt(a, k) < CharAt(c, k)
      BY <2>1, <2>2, <3>2 DEF SmallerAt
    <3> QED BY <3>1, <3>3 DEF Smaller, SmallerAt
  <2>5. CASE i = k
    <3>1. \A j \in 1 .. i - 1 : CharAt(a, j) = CharAt(c, j)
      BY <2>1, <2>2, <2>5 DEF SmallerAt
    <3>2. CharAt(a, i) < CharAt(b, i) /\ CharAt(b, i) < CharAt(c, i)
      BY <2>1, <2>2, <2>5 DEF SmallerAt
    <3>3. CharAt(a, i) < CharAt(c, i)
      BY <1>1, <2>0, <3>2
    <3> QED BY <3>1, <3>3 DEF Smaller, SmallerAt
  <2> QED BY <2>3, <2>4, <2>5
<1> QED BY <1>2, <1>3, <1>4, <1>5

LEMMA StrNCmpRight ==
  ASSUME NEW a \in CStrings, NEW b \in CStrings, NEW n \in Nat
  PROVE  /\ StrNCmp(a, b, n) \in Int
         /\ StrNCmp(a, b, n) = 0 <=> \A j \in 1 .. n : CharAt(a, j) = CharAt(b, j)
         /\ StrNCmp(a, b, n) < 0 <=> \E i \in 1 .. n : SmallerAt(a, b, i)
         /\ StrNCmp(a, b, n) > 0 <=> \E i \in 1 .. n : SmallerAt(b, a, i)
<1> DEFINE T == {i \in 1 .. n : CharAt(a, i) - CharAt(b, i) # 0}
           r == StrNCmp(a, b, n)
           d == [j \in 1 .. n |-> CharAt(a, j) - CharAt(b, j)]
<1>1. \A i \in Nat : CharAt(a, i) \in Nat /\ CharAt(b, i) \in Nat
  BY CharsAre
<1>2. SelectInSubSeq(d, 1, n, LAMBDA x : x # 0) = IF T # {} THEN Min(T) ELSE 0
  <2>1. {i \in 1 .. n : d[i] # 0} = T
    OBVIOUS
  <2> HIDE DEF T
  <2>2. SelectInSubSeq(d, 1, n, LAMBDA x : x # 0) =
          LET I == {i \in 1 .. n : d[i] # 0} IN IF I # {} THEN Min(I) ELSE 0
    BY DEF SelectInSubSeq
  <2> QED BY <2>1, <2>2
<1>3. r = LET i == IF T # {} THEN Min(T) ELSE 0
          IN  IF i = 0 THEN 0 ELSE CharAt(a, i) - CharAt(b, i)
  BY <1>2 DEF StrNCmp
<1>4. CASE T = {}
  <2>1. r = 0
    BY <1>3, <1>4
  <2>2. \A j \in 1 .. n : CharAt(a, j) = CharAt(b, j)
    BY <1>1, <1>4
  <2>3. ~\E i \in 1 .. n : SmallerAt(a, b, i) \/ SmallerAt(b, a, i)
    BY <1>1, <2>2 DEF SmallerAt
  <2> QED BY <2>1, <2>2, <2>3
<1>5. CASE T # {}
  <2>1. T \in SUBSET Nat
    OBVIOUS
  <2> DEFINE i == Min(T)
  <2>2. i \in T /\ \A k \in T : i <= k
    <3> HIDE DEF T
    <3> QED BY <1>5, <2>1, MinRight
  <2>3. r = CharAt(a, i) - CharAt(b, i)
    <3>1. i # 0
      BY <2>2
    <3> HIDE DEF T
    <3> QED BY <1>3, <1>5, <3>1
  <2> HIDE DEF i, r
  <2>4. i \in 1 .. n /\ CharAt(a, i) # CharAt(b, i)
    BY <1>1, <2>2
  <2>5. \A j \in 1 .. i - 1 : CharAt(a, j) = CharAt(b, j)
    <3> SUFFICES ASSUME NEW j \in 1 .. i - 1, CharAt(a, j) # CharAt(b, j) PROVE FALSE
      OBVIOUS
    <3>1. j \in T /\ ~(i <= j)
      BY <1>1, <2>4
    <3> QED BY <2>2, <3>1
  <2> HIDE DEF T
  <2>6. r < 0 <=> \E k \in 1 .. n : SmallerAt(a, b, k)
    <3>1. ASSUME r < 0 PROVE \E k \in 1 .. n : SmallerAt(a, b, k)
      <4>1. CharAt(a, i) < CharAt(b, i)
        BY <1>1, <2>3, <2>4, <3>1
      <4> QED BY <2>4, <2>5, <4>1 DEF SmallerAt
    <3>2. ASSUME NEW k \in 1 .. n, SmallerAt(a, b, k) PROVE r < 0
      <4>1. ~(k < i)
        <5>1. k < i => k \in 1 .. i - 1
          BY <2>4
        <5> QED BY <1>1, <2>5, <3>2, <5>1 DEF SmallerAt
      <4>2. ~(i < k)
        <5>1. i < k => i \in 1 .. k - 1
          BY <2>4
        <5> QED BY <2>4, <3>2, <5>1 DEF SmallerAt
      <4>3. i = k
        BY <2>4, <4>1, <4>2
      <4> QED BY <1>1, <2>3, <2>4, <3>2, <4>3 DEF SmallerAt
    <3> QED BY <3>1, <3>2
  <2>7. r > 0 <=> \E k \in 1 .. n : SmallerAt(b, a, k)
    <3>1. ASSUME r > 0 PROVE \E k \in 1 .. n : SmallerAt(b, a, k)
      <4>1. CharAt(b, i) < CharAt(a, i)
        BY <1>1, <2>3, <2>4, <3>1
      <4> QED BY <2>4, <2>5, <4>1 DEF SmallerAt
    <3>2. ASSUME NEW k \in 1 .. n, SmallerAt(b, a, k) PROVE r > 0
      <4>1. ~(k < i)
        <5>1. k < i => k \in 1 .. i - 1
          BY <2>4
        <5> QED BY <1>1, <2>5, <3>2, <5>1 DEF SmallerAt
      <4>2. ~(i < k)
        <5>1. i < k => i \in 1 .. k - 1
          BY <2>4
        <5> QED BY <2>4, <3>2, <5>1 DEF SmallerAt
      <4>3. i = k
        BY <2>4, <4>1, <4>2
      <4> QED BY <1>1, <2>3, <2>4, <3>2, <4>3 DEF SmallerAt
    <3> QED BY <3>1, <3>2
  <2>8. r \in Int /\ r # 0
    BY <1>1, <2>3, <2>4
  <2> QED BY <2>4, <2>6, <2>7, <2>8 DEF r
<1> QED BY <1>4, <1>5

\* Two strings that differ do so at one of the places that either has.
LEMMA SmallerWhere ==
  ASSUME NEW a \in CStrings, NEW b \in CStrings, NEW i \in Nat \ {0},
         SmallerAt(a, b, i)
  PROVE  i <= Len(b)
<1>1. CharAt(b, i) # 0
  BY CharsAre DEF SmallerAt
<1> QED BY <1>1, CharsAre

LEMMA StrLessIs ==
  ASSUME NEW a \in CStrings, NEW b \in CStrings
  PROVE  StrLess(a, b) <=> Smaller(a, b)
<1> DEFINE n == Len(a) + Len(b)
<1>1. Len(a) \in Nat /\ Len(b) \in Nat /\ n \in Nat
  BY CharsAre
<1>2. StrLess(a, b) <=> \E i \in 1 .. n : SmallerAt(a, b, i)
  BY <1>1, StrNCmpRight DEF StrLess
<1>3. \A i \in Nat \ {0} : SmallerAt(a, b, i) => i \in 1 .. n
  BY <1>1, SmallerWhere
<1>4. 1 .. n \subseteq Nat \ {0}
  BY <1>1
<1> QED BY <1>2, <1>3, <1>4 DEF Smaller

LEMMA CompareIs ==
  ASSUME NEW ext \in CStrings, NEW entry, entry.ext \in CStrings
  PROVE  /\ CompareExt(ext, entry) \in Int
         /\ CompareExt(ext, entry) = 0 <=> ext = entry.ext
         /\ CompareExt(ext, entry) < 0 <=> Smaller(ext, entry.ext)
         /\ CompareExt(ext, entry) > 0 <=> Smaller(entry.ext, ext)
<1> DEFINE b == entry.ext
           n == Len(ext)
           r == StrNCmp(ext, b, n)
           c == CompareExt(ext, entry)
<1>1. n \in Nat /\ Len(b) \in Nat /\ b \in CStrings
  BY CharsAre
<1>2. c = IF r # 0 THEN r ELSE n - Len(b)
  BY DEF CompareExt
<1>3. /\ r \in Int
      /\ r = 0 <=> \A j \in 1 .. n : CharAt(ext, j) = CharAt(b, j)
      /\ r < 0 <=> \E i \in 1 .. n : SmallerAt(ext, b, i)
      /\ r > 0 <=> \E i \in 1 .. n : SmallerAt(b, ext, i)
  BY <1>1, StrNCmpRight
<1> HIDE DEF r, c, b
<1>4. 1 .. n \subseteq Nat \ {0}
  BY <1>1
<1>5. CASE r < 0
  <2>1. c < 0 /\ c \in Int
    BY <1>2, <1>3, <1>5
  <2>2. Smaller(ext, b)
    BY <1>3, <1>4, <1>5 DEF Smaller
  <2> QED BY <1>1, <2>1, <2>2, SmallerOrder DEF c, b
<1>6. CASE r > 0
  <2>1. c > 0 /\ c \in Int
    BY <1>2, <1>3, <1>6
  <2>2. Smaller(b, ext)
    BY <1>3, <1>4, <1>6 DEF Smaller
  <2> QED BY <1>1, <2>1, <2>2, SmallerOrder DEF c, b
<1>7. CASE r = 0
  <2>1. c = n - Len(b)
    BY <1>2, <1>7
  <2>2. \A j \in 1 .. n : CharAt(ext, j) = CharAt(b, j)
    BY <1>3, <1>7
  <2>3. n <= Len(b)
    <3> SUFFICES ASSUME n > Len(b) PROVE FALSE
      BY <1>1
    <3>1. n \in 1 .. n /\ n \in Nat \ {0}
      BY <1>1
    <3>2. CharAt(ext, n) # 0
      BY <3>1, CharsAre
    <3>3. CharAt(b, n) = 0
      BY <1>1, <3>1, CharsAre
    <3> QED BY <2>2, <3>1, <3>2, <3>3
  <2>4. CASE n = Len(b)
    <3>1. c = 0
      BY <1>1, <2>1, <2>4
    <3>2. \A i \in 1 .. n : ext[i] = b[i]
      BY <1>1, <2>2, <2>4, CharsAre
    <3>3. ext = b
      BY <1>1, <2>4, <3>2, SeqEqual DEF CStrings
    <3> QED BY <1>1, <3>1, <3>3, SmallerOrder DEF c, b
  <2>5. CASE n < Len(b)
    <3>1. c < 0 /\ c \in Int
      BY <1>1, <2>1, <2>5
    <3>2. n + 1 \in Nat \ {0} /\ n + 1 > n /\ n + 1 \in 1 .. Len(b)
      BY <1>1, <2>5
    <3>3. CharAt(ext, n + 1) = 0
      BY <3>2, CharsAre
    <3>4. CharAt(b, n + 1) \in Nat /\ CharAt(b, n + 1) # 0
      BY <1>1, <3>2, CharsAre
    <3>5. SmallerAt(ext, b, n + 1)
      <4>1. (n + 1) - 1 = n
        BY <1>1
      <4> QED BY <2>2, <3>3, <3>4, <4>1 DEF SmallerAt
    <3>6. Smaller(ext, b)
      BY <3>2, <3>5 DEF Smaller
    <3> QED BY <1>1, <3>1, <3>6, SmallerOrder DEF c, b
  <2> QED BY <1>1, <2>3, <2>4, <2>5
<1> QED BY <1>3, <1>5, <1>6, <1>7

(***************************************************************************)
(* init_mime: the entry with i - 1 entries before it is the i-th.          *)
(***************************************************************************)
Preceding(T, e) == {x \in T : StrLess(x.ext, e.ext)}
Rank(T, e) == Cardinality(Preceding(T, e))

LEMMA RankRight ==
  ASSUME NEW T, GoodTable(T), NEW e \in T
  PROVE  /\ Rank(T, e) \in 0 .. Cardinality(T) - 1
         /\ \A x \in T : Smaller(x.ext, e.ext) => Rank(T, x) < Rank(T, e)
<1> DEFINE P(x) == Preceding(T, x)
<1>1. IsFiniteSet(T) /\ \A x \in T : x.ext \in CStrings
  BY DEF GoodTable
<1>2. \A x \in T : P(x) = {y \in T : Smaller(y.ext, x.ext)}
  BY <1>1, StrLessIs DEF Preceding
<1>3. \A x \in T : x \notin P(x)
  BY <1>1, <1>2, SmallerOrder
<1>4. \A x \in T : P(x) \in SUBSET T
  BY <1>2
<1> HIDE DEF P
<1>5. \A x \in T : IsFiniteSet(P(x)) /\ Cardinality(P(x)) \in Nat
  BY <1>1, <1>4, FS_Subset, FS_CardinalityType
<1>6. Cardinality(T) \in Nat
  BY <1>1, FS_CardinalityType
<1>7. ASSUME NEW x \in T, NEW S \in SUBSET T, x \in S, P(x) \subseteq S
      PROVE  Cardinality(P(x)) + 1 <= Cardinality(S)
  <2>1. IsFiniteSet(S)
    BY <1>1, FS_Subset
  <2>2. P(x) \cup {x} \in SUBSET S
    BY <1>7
  <2>3. Cardinality(P(x) \cup {x}) <= Cardinality(S)
    BY <2>1, <2>2, FS_Subset
  <2>4. Cardinality(P(x) \cup {x}) = Cardinality(P(x)) + 1
    BY <1>3, <1>5, FS_AddElement
  <2> QED BY <2>3, <2>4
<1>8. Cardinality(P(e)) + 1 <= Cardinality(T)
  BY <1>4, <1>7
<1>9. ASSUME NEW x \in T, Smaller(x.ext, e.ext)
      PROVE  Cardinality(P(x)) + 1 <= Cardinality(P(e))
  <2>1. x \in P(e)
    BY <1>2, <1>9
  <2>2. P(x) \subseteq P(e)
    <3> SUFFICES ASSUME NEW y \in P(x) PROVE y \in P(e)
      OBVIOUS
    <3>1. y \in T /\ Smaller(y.ext, x.ext)
      BY <1>2
    <3>2. Smaller(y.ext, e.ext)
      BY <1>1, <1>9, <3>1, SmallerOrder
    <3> QED BY <1>2, <3>1, <3>2
  <2> QED BY <1>4, <1>7, <2>1, <2>2
<1>10. Cardinality(P(e)) \in 0 .. Cardinality(T) - 1
  <2>1. Cardinality(P(e)) \in Nat
    BY <1>5
  <2> QED BY <1>6, <1>8, <2>1
<1>11. ASSUME NEW x \in T, Smaller(x.ext, e.ext)
       PROVE  Cardinality(P(x)) < Cardinality(P(e))
  <2>1. Cardinality(P(x)) \in Nat /\ Cardinality(P(e)) \in Nat
    BY <1>5
  <2> QED BY <1>9, <1>11, <2>1
<1> QED BY <1>10, <1>11 DEF Rank, P

LEMMA EveryRank ==
  ASSUME NEW T, GoodTable(T), NEW i \in 1 .. Cardinality(T)
  PROVE  \E e \in T : Rank(T, e) = i - 1
<1> DEFINE n == Cardinality(T)
           f == [e \in T |-> Rank(T, e) + 1]
<1>1. IsFiniteSet(T) /\ n \in Nat
  BY FS_CardinalityType DEF GoodTable
<1>2. \A e \in T : Rank(T, e) \in 0 .. n - 1
  BY RankRight
<1>3. IsFiniteSet(1 .. n) /\ Cardinality(1 .. n) = n
  BY <1>1, FS_Interval
<1> HIDE DEF n
<1>4. f \in [T -> 1 .. n]
  BY <1>1, <1>2
<1>5. ASSUME NEW e \in T, NEW x \in T, f[e] = f[x] PROVE e = x
  <2>1. Rank(T, e) = Rank(T, x)
    BY <1>2, <1>5
  <2>2. ~Smaller(e.ext, x.ext) /\ ~Smaller(x.ext, e.ext)
    <3>1. ~(Rank(T, e) < Rank(T, x)) /\ ~(Rank(T, x) < Rank(T, e))
      BY <1>2, <2>1
    <3> QED BY <3>1, RankRight
  <2>3. e.ext \in CStrings /\ x.ext \in CStrings
    BY DEF GoodTable
  <2>4. e.ext = x.ext
    BY <2>2, <2>3, SmallerOrder
  <2> QED BY <2>4 DEF GoodTable
<1>6. f \in Injection(T, 1 .. n)
  <2> HIDE DEF f
  <2> QED BY <1>4, <1>5 DEF Injection, IsInjective
<1>7. f \in Surjection(T, 1 .. n)
  <2> HIDE DEF f
  <2> QED BY <1>3, <1>6, FS_Injection DEF n
<1>8. PICK e \in T : f[e] = i
  <2> HIDE DEF f
  <2>1. i \in 1 .. n
    BY DEF n
  <2> QED BY <1>7, <2>1 DEF Surjection
<1>9. Rank(T, e) + 1 = i
  BY <1>8
<1> QED BY <1>2, <1>9

LEMMA InitMimeRight ==
  ASSUME NEW T, GoodTable(T)
  PROVE  /\ Cardinality(T) \in Nat
         /\ InitMime(T) \in [1 .. Cardinality(T) -> T]
         /\ Len(InitMime(T)) = Cardinality(T)
         /\ \A i, j \in 1 .. Cardinality(T) :
              i < j => Smaller(InitMime(T)[i].ext, InitMime(T)[j].ext)
         /\ \A e \in T : \E i \in 1 .. Cardinality(T) : InitMime(T)[i] = e
<1> DEFINE n == Cardinality(T)
           tab == InitMime(T)
<1>1. IsFiniteSet(T) /\ n \in Nat
  BY FS_CardinalityType DEF GoodTable
<1>2. tab = [i \in 1 .. n |-> CHOOSE e \in T : Rank(T, e) = i - 1]
  BY DEF InitMime, Rank, Preceding
<1> HIDE DEF n
<1>3. ASSUME NEW i \in 1 .. n PROVE tab[i] \in T /\ Rank(T, tab[i]) = i - 1
  <2>1. tab[i] = CHOOSE e \in T : Rank(T, e) = i - 1
    BY <1>2
  <2>2. \E e \in T : Rank(T, e) = i - 1
    BY EveryRank DEF n
  <2> HIDE DEF tab
  <2> QED BY <2>1, <2>2
<1>4. tab \in [1 .. n -> T]
  <2> HIDE DEF tab
  <2> QED BY <1>2, <1>3
<1> HIDE DEF tab
<1>5. Len(tab) = n
  BY <1>1, <1>4
<1>6. \A e \in T : Rank(T, e) \in 0 .. n - 1
  BY RankRight DEF n
<1>7. ASSUME NEW i \in 1 .. n, NEW j \in 1 .. n, i < j
      PROVE  Smaller(tab[i].ext, tab[j].ext)
  <2>1. tab[i] \in T /\ tab[j] \in T /\ Rank(T, tab[i]) < Rank(T, tab[j])
    BY <1>1, <1>3, <1>7
  <2>2. ~(Rank(T, tab[j]) < Rank(T, tab[i])) /\ tab[i] # tab[j]
    BY <1>6, <2>1
  <2>3. ~Smaller(tab[j].ext, tab[i].ext)
    BY <2>1, <2>2, RankRight
  <2>4. tab[i].ext \in CStrings /\ tab[j].ext \in CStrings /\ tab[i].ext # tab[j].ext
    BY <2>1, <2>2 DEF GoodTable
  <2> QED BY <2>3, <2>4, SmallerOrder
<1>8. ASSUME NEW e \in T PROVE \E i \in 1 .. n : tab[i] = e
  <2> DEFINE i == Rank(T, e) + 1
  <2>1. i \in 1 .. n /\ i - 1 = Rank(T, e)
    BY <1>1, <1>6
  <2> HIDE DEF i
  <2>2. tab[i] \in T /\ Rank(T, tab[i]) = Rank(T, e)
    BY <1>3, <2>1
  <2>3. ~Smaller(tab[i].ext, e.ext) /\ ~Smaller(e.ext, tab[i].ext)
    <3>1. ~(Rank(T, tab[i]) < Rank(T, e)) /\ ~(Rank(T, e) < Rank(T, tab[i]))
      BY <1>6, <2>2
    <3> QED BY <2>2, <3>1, RankRight
  <2>4. tab[i].ext \in CStrings /\ e.ext \in CStrings
    BY <2>2 DEF GoodTable
  <2>5. tab[i].ext = e.ext
    BY <2>3, <2>4, SmallerOrder
  <2>6. tab[i] = e
    BY <2>2, <2>5 DEF GoodTable
  <2> QED BY <2>1, <2>6
<1> QED BY <1>1, <1>4, <1>5, <1>7, <1>8 DEF n, tab

(***************************************************************************)
(* figure_mime.                                                            *)
(***************************************************************************)
ValOf(T, ext) == (CHOOSE e \in T : e.ext = ext).val
HasExt(T, ext) == \E e \in T : e.ext = ext

\* The linear search of the encodings.
LEMMA EncodingAtRight ==
  ASSUME NEW T, GoodTable(T), NEW ext
  PROVE  LET k == EncodingAt(InitMime(T), ext)
         IN  /\ k = 0 <=> ~HasExt(T, ext)
             /\ k # 0 => InitMime(T)[k].val = ValOf(T, ext)
<1> DEFINE tab == InitMime(T)
           n == Cardinality(T)
           I == {i \in 1 .. n : tab[i].ext = ext}
           k == EncodingAt(tab, ext)
<1>1. /\ n \in Nat /\ tab \in [1 .. n -> T] /\ Len(tab) = n
      /\ \A e \in T : \E i \in 1 .. n : tab[i] = e
  BY InitMimeRight
<1> HIDE DEF n, tab
<1>2. k = IF I # {} THEN Min(I) ELSE 0
  <2>1. SelectInSeq(tab, LAMBDA e : e.ext = ext) =
          LET J == {i \in 1 .. Len(tab) : tab[i].ext = ext}
          IN  IF J # {} THEN Min(J) ELSE 0
    BY DEF SelectInSeq
  <2> QED BY <1>1, <2>1 DEF EncodingAt
<1>3. I = {} <=> ~HasExt(T, ext)
  BY <1>1 DEF HasExt
<1>4. ASSUME I # {} PROVE k \in 1 .. n /\ tab[k].ext = ext
  <2>1. I \in SUBSET Nat
    OBVIOUS
  <2>2. Min(I) \in I
    <3> HIDE DEF I
    <3> QED BY <1>4, <2>1, MinRight
  <2>3. k = Min(I)
    <3> HIDE DEF I, k
    <3> QED BY <1>2, <1>4
  <2> QED BY <2>2, <2>3
<1>5. ASSUME I # {} PROVE tab[k].val = ValOf(T, ext)
  <2>1. tab[k] \in T /\ tab[k].ext = ext
    BY <1>1, <1>4, <1>5
  <2> HIDE DEF k
  <2>2. \A e \in T : e.ext = ext => e = tab[k]
    BY <2>1 DEF GoodTable
  <2>3. (CHOOSE e \in T : e.ext = ext) = tab[k]
    BY <2>1, <2>2
  <2> QED BY <2>3 DEF ValOf
<1>6. k = 0 <=> I = {}
  <2>1. I # {} => k # 0
    BY <1>4
  <2> HIDE DEF I, k
  <2> QED BY <1>2, <2>1
<1> QED BY <1>3, <1>5, <1>6 DEF k, tab

\* The binary search of the types.
LEMMA TypeOfRight ==
  ASSUME NEW T, GoodTable(T), NEW ext \in CStrings
  PROVE  TypeOf(InitMime(T), ext) = IF HasExt(T, ext) THEN ValOf(T, ext) ELSE NoType
<1> DEFINE tab == InitMime(T)
           n == Cardinality(T)
           c == [i \in 0 .. n - 1 |-> CompareExt(ext, tab[i + 1])]
           i == Bisect(c, n)
<1>1. /\ n \in Nat /\ tab \in [1 .. n -> T] /\ Len(tab) = n
      /\ \A k, j \in 1 .. n : k < j => Smaller(tab[k].ext, tab[j].ext)
      /\ \A e \in T : \E k \in 1 .. n : tab[k] = e
  BY InitMimeRight
<1>2. TypeOf(tab, ext) = IF i = NotFound THEN NoType ELSE tab[i + 1].val
  BY <1>1 DEF TypeOf
<1> HIDE DEF n, tab
<1>3. \A e \in T : e.ext \in CStrings
  BY DEF GoodTable
<1>4. ASSUME NEW k \in 0 .. n - 1
      PROVE  /\ c[k] \in Int /\ k + 1 \in 1 .. n
             /\ tab[k + 1] \in T /\ tab[k + 1].ext \in CStrings
             /\ c[k] = 0 <=> ext = tab[k + 1].ext
             /\ c[k] < 0 <=> Smaller(ext, tab[k + 1].ext)
             /\ c[k] > 0 <=> Smaller(tab[k + 1].ext, ext)
  <2>1. k + 1 \in 1 .. n
    BY <1>1
  <2>2. tab[k + 1] \in T
    BY <1>1, <2>1
  <2>3. c[k] = CompareExt(ext, tab[k + 1])
    OBVIOUS
  <2> HIDE DEF c
  <2> QED BY <1>3, <2>1, <2>2, <2>3, CompareIs
<1>5. c \in [0 .. n - 1 -> Int]
  BY <1>4
<1> HIDE DEF c
<1>6. ASSUME NEW k \in 0 .. n - 1, NEW j \in 0 .. n - 1, k < j, c[j] >= 0
      PROVE  c[k] > 0
  <2>1. Smaller(tab[k + 1].ext, tab[j + 1].ext)
    <3>1. k + 1 \in 1 .. n /\ j + 1 \in 1 .. n /\ k + 1 < j + 1
      BY <1>1, <1>6
    <3> QED BY <1>1, <3>1
  <2>2. ext = tab[j + 1].ext \/ Smaller(tab[j + 1].ext, ext)
    <3>1. c[j] = 0 \/ c[j] > 0
      BY <1>4, <1>6
    <3> QED BY <1>4, <3>1
  <2>3. Smaller(tab[k + 1].ext, ext)
    BY <1>4, <2>1, <2>2, SmallerOrder
  <2> QED BY <1>4, <2>3
<1>7. Falls(c, n)
  BY <1>5, <1>6 DEF Falls
<1>8. \/ i = NotFound /\ \A j \in 0 .. n - 1 : c[j] # 0
      \/ i \in 0 .. n - 1 /\ c[i] = 0
  BY <1>1, <1>7, BisectRight
<1> HIDE DEF i
<1>9. CASE i \in 0 .. n - 1 /\ c[i] = 0
  <2>1. tab[i + 1] \in T /\ tab[i + 1].ext = ext
    BY <1>4, <1>9
  <2>2. \A e \in T : e.ext = ext => e = tab[i + 1]
    BY <2>1 DEF GoodTable
  <2>3. (CHOOSE e \in T : e.ext = ext) = tab[i + 1]
    BY <2>1, <2>2
  <2>4. i # NotFound
    BY <1>9 DEF NotFound
  <2>5. TypeOf(tab, ext) = tab[i + 1].val
    BY <1>2, <2>4, Zenon
  <2> QED BY <2>1, <2>3, <2>5 DEF ValOf, HasExt, tab
<1>10. CASE i = NotFound /\ \A j \in 0 .. n - 1 : c[j] # 0
  <2>1. ~HasExt(T, ext)
    <3> SUFFICES ASSUME NEW e \in T, e.ext = ext PROVE FALSE
      BY DEF HasExt
    <3>1. PICK k \in 1 .. n : tab[k] = e
      BY <1>1
    <3>2. k - 1 \in 0 .. n - 1 /\ (k - 1) + 1 = k
      BY <1>1
    <3>3. c[k - 1] = 0
      BY <1>4, <3>1, <3>2
    <3> QED BY <1>10, <3>2, <3>3
  <2>2. TypeOf(tab, ext) = NoType
    BY <1>2, <1>10, Zenon
  <2> QED BY <2>1, <2>2 DEF tab
<1> QED BY <1>8, <1>9, <1>10

LEMMA MaxRight ==
  ASSUME NEW m \in Nat, NEW T \in SUBSET (1 .. m), T # {}
  PROVE  Max(T) \in T /\ \A y \in T : Max(T) >= y
<1> DEFINE U == {m - x : x \in T}
<1>1. U \in SUBSET Nat /\ U # {}
  <2>1. \A x \in 1 .. m : m - x \in Nat
    OBVIOUS
  <2>2. PICK x \in T : TRUE
    OBVIOUS
  <2> QED BY <2>1, <2>2
<1>2. PICK u \in U : \A y \in U : u <= y
  <2> HIDE DEF U
  <2> QED BY <1>1, LeastExists
<1>3. PICK x \in T : u = m - x
  BY <1>2
<1>4. \A y \in T : x >= y
  <2> SUFFICES ASSUME NEW y \in T PROVE x >= y
    OBVIOUS
  <2>1. m - x <= m - y
    BY <1>2, <1>3
  <2> QED BY <2>1
<1> QED BY <1>3, <1>4 DEF Max

\* figure_mime against its comment, for every table and every name.
THEOREM MimeRight ==
  ASSUME NEW E, NEW T, NEW name \in Seq(CStrings) \ {<<>>},
         GoodTable(E), GoodTable(T)
  PROVE  FigureMime(InitMime(E), InitMime(T), name) = MimeDescribed(E, T, name)
<1> DEFINE etab == InitMime(E)
           ttab == InitMime(T)
           l == Len(name)
           n == Peeled(etab, name)
           Coded(k) == k > 1 /\ \E e \in E : e.ext = name[k]
           P == {k \in 1 .. l : k = 1 \/ EncodingAt(etab, name[k]) = 0}
<1>1. l \in Nat \ {0} /\ \A k \in 1 .. l : name[k] \in CStrings
  <2>1. name \in Seq(CStrings) /\ name # <<>>
    OBVIOUS
  <2>2. l \in Nat /\ l # 0
    BY <2>1
  <2> QED BY <2>1, <2>2, ElementOfSeq
<1>2. \A ext : /\ EncodingAt(etab, ext) = 0 <=> ~HasExt(E, ext)
               /\ EncodingAt(etab, ext) # 0 =>
                    etab[EncodingAt(etab, ext)].val = ValOf(E, ext)
  BY EncodingAtRight
<1>3. \A ext \in CStrings :
        TypeOf(ttab, ext) = IF HasExt(T, ext) THEN ValOf(T, ext) ELSE NoType
  BY TypeOfRight
<1>4. n = Max(P)
  BY DEF Peeled
<1> HIDE DEF etab, ttab, l, n
<1>5. n \in P /\ \A y \in P : n >= y
  <2>1. P \in SUBSET (1 .. l) /\ 1 \in P
    BY <1>1
  <2> HIDE DEF P
  <2> QED BY <1>1, <1>4, <2>1, MaxRight
<1>6. \A k \in 1 .. l : k \in P <=> ~Coded(k)
  BY <1>2 DEF HasExt
<1>7. n \in 1 .. l /\ ~Coded(n)
  BY <1>5, <1>6
<1>8. \A j \in n + 1 .. l : j \in 1 .. l /\ Coded(j)
  <2> SUFFICES ASSUME NEW j \in n + 1 .. l PROVE j \in 1 .. l /\ Coded(j)
    OBVIOUS
  <2>1. j \in 1 .. l /\ ~(n >= j)
    BY <1>1, <1>7
  <2> HIDE DEF P, Coded
  <2> QED BY <1>5, <1>6, <2>1
<1> HIDE DEF P
<1>9. (CHOOSE k \in 1 .. l : ~Coded(k) /\ \A j \in k + 1 .. l : Coded(j)) = n
  <2> SUFFICES ASSUME NEW k \in 1 .. l, ~Coded(k), \A j \in k + 1 .. l : Coded(j)
               PROVE  k = n
    <3> HIDE DEF Coded
    <3> QED BY <1>7, <1>8
  <2> HIDE DEF Coded
  <2>1. k < n => n \in k + 1 .. l
    BY <1>1, <1>7
  <2>2. n < k => k \in n + 1 .. l
    BY <1>1, <1>7
  <2>3. ~(k < n) /\ ~(n < k)
    BY <1>7, <1>8, <2>1, <2>2
  <2> QED BY <1>1, <1>7, <2>3
<1> DEFINE type == IF n = 1 THEN NoType ELSE TypeOf(ttab, name[n])
           encs == [i \in 1 .. l - n |-> etab[EncodingAt(etab, name[n + i])].val]
           type2 == IF n > 1 /\ \E e \in T : e.ext = name[n]
                      THEN ValOf(T, name[n]) ELSE NoType
           encs2 == [i \in 1 .. l - n |-> ValOf(E, name[n + i])]
<1>10. FigureMime(etab, ttab, name) = [type |-> type, encodings |-> encs]
  BY DEF FigureMime, n, l
<1>11. MimeDescribed(E, T, name) = [type |-> type2, encodings |-> encs2]
  <2> DEFINE m == CHOOSE k \in 1 .. l : ~Coded(k) /\ \A j \in k + 1 .. l : Coded(j)
  <2>1. MimeDescribed(E, T, name) =
          [type |-> IF m > 1 /\ \E e \in T : e.ext = name[m]
                      THEN ValOf(T, name[m]) ELSE NoType,
           encodings |-> [i \in 1 .. l - m |-> ValOf(E, name[m + i])]]
    BY DEF MimeDescribed, ValOf, l
  <2>2. m = n
    BY <1>9
  <2> HIDE DEF m
  <2> QED BY <2>1, <2>2
<1>12. type = type2
  <2>1. CASE n = 1
    BY <2>1
  <2>2. CASE n # 1
    <3>1. n > 1 /\ name[n] \in CStrings
      BY <1>1, <1>7, <2>2
    <3> QED BY <1>3, <2>2, <3>1 DEF HasExt
  <2> QED BY <2>1, <2>2
<1>13. encs = encs2
  <2>1. \A i \in 1 .. l - n :
          etab[EncodingAt(etab, name[n + i])].val = ValOf(E, name[n + i])
    <3> SUFFICES ASSUME NEW i \in 1 .. l - n
                 PROVE  etab[EncodingAt(etab, name[n + i])].val = ValOf(E, name[n + i])
      OBVIOUS
    <3>1. n + i \in n + 1 .. l
      BY <1>1, <1>7
    <3>2. HasExt(E, name[n + i])
      BY <1>8, <3>1 DEF HasExt
    <3> QED BY <1>2, <3>2
  <2> QED BY <2>1
<1> HIDE DEF type, type2, encs, encs2
<1> QED BY <1>10, <1>11, <1>12, <1>13, Zenon DEF etab, ttab

(***************************************************************************)
(* The words and the two tables of tdate_parse.                            *)
(***************************************************************************)
WordPlace(w) ==
  CASE w = "apr" -> 1 [] w = "april" -> 2 [] w = "aug" -> 3 [] w = "august" -> 4
    [] w = "dec" -> 5 [] w = "december" -> 6 [] w = "feb" -> 7
    [] w = "february" -> 8 [] w = "fri" -> 9 [] w = "friday" -> 10
    [] w = "GMT" -> 11 [] w = "jan" -> 12 [] w = "january" -> 13
    [] w = "jul" -> 14 [] w = "july" -> 15 [] w = "jun" -> 16 [] w = "june" -> 17
    [] w = "mar" -> 18 [] w = "march" -> 19 [] w = "may" -> 20 [] w = "mon" -> 21
    [] w = "monday" -> 22 [] w = "nov" -> 23 [] w = "november" -> 24
    [] w = "oct" -> 25 [] w = "october" -> 26 [] w = "sat" -> 27
    [] w = "saturday" -> 28 [] w = "sep" -> 29 [] w = "september" -> 30
    [] w = "sun" -> 31 [] w = "sunday" -> 32 [] w = "thu" -> 33
    [] w = "thursday" -> 34 [] w = "tue" -> 35 [] w = "tuesday" -> 36
    [] w = "wed" -> 37 [] w = "wednesday" -> 38
    [] OTHER -> 0

LEMMA WordsAre ==
  /\ DOMAIN Words = 1 .. 38
  /\ \A i \in 1 .. 38 : WordPlace(Words[i]) = i
<1>1. DOMAIN Words = 1 .. 38
  BY DEF Words
<1>2. /\ WordPlace(Words[1]) = 1 /\ WordPlace(Words[2]) = 2 /\ WordPlace(Words[3]) = 3
      /\ WordPlace(Words[4]) = 4 /\ WordPlace(Words[5]) = 5 /\ WordPlace(Words[6]) = 6
      /\ WordPlace(Words[7]) = 7 /\ WordPlace(Words[8]) = 8 /\ WordPlace(Words[9]) = 9
      /\ WordPlace(Words[10]) = 10 /\ WordPlace(Words[11]) = 11
      /\ WordPlace(Words[12]) = 12 /\ WordPlace(Words[13]) = 13
      /\ WordPlace(Words[14]) = 14 /\ WordPlace(Words[15]) = 15
      /\ WordPlace(Words[16]) = 16 /\ WordPlace(Words[17]) = 17
      /\ WordPlace(Words[18]) = 18 /\ WordPlace(Words[19]) = 19
      /\ WordPlace(Words[20]) = 20 /\ WordPlace(Words[21]) = 21
      /\ WordPlace(Words[22]) = 22 /\ WordPlace(Words[23]) = 23
      /\ WordPlace(Words[24]) = 24 /\ WordPlace(Words[25]) = 25
      /\ WordPlace(Words[26]) = 26 /\ WordPlace(Words[27]) = 27
      /\ WordPlace(Words[28]) = 28 /\ WordPlace(Words[29]) = 29
      /\ WordPlace(Words[30]) = 30 /\ WordPlace(Words[31]) = 31
      /\ WordPlace(Words[32]) = 32 /\ WordPlace(Words[33]) = 33
      /\ WordPlace(Words[34]) = 34 /\ WordPlace(Words[35]) = 35
      /\ WordPlace(Words[36]) = 36 /\ WordPlace(Words[37]) = 37
      /\ WordPlace(Words[38]) = 38
  BY DEF Words, WordPlace, Zone
<1>3. \A i \in 1 .. 38 :
        i \in {1, 2, 3, 4, 5, 6, 7, 8, 9, 10, 11, 12, 13, 14, 15, 16, 17, 18, 19,
               20, 21, 22, 23, 24, 25, 26, 27, 28, 29, 30, 31, 32, 33, 34, 35,
               36, 37, 38}
  OBVIOUS
<1>4. \A i \in 1 .. 38 : WordPlace(Words[i]) = i
  BY <1>2, <1>3
<1> QED BY <1>1, <1>4

LEMMA StrCmpIs ==
  ASSUME NEW a, NEW b, NEW i \in 1 .. 38, NEW j \in 1 .. 38, a = Words[i], b = Words[j]
  PROVE  StrCmp(a, b) = i - j
<1> DEFINE Spot(w) == CHOOSE k \in DOMAIN Words : Words[k] = w
<1>1. ASSUME NEW k \in 1 .. 38, NEW w, w = Words[k] PROVE Spot(w) = k
  <2>1. k \in DOMAIN Words
    BY WordsAre
  <2>2. \A x \in DOMAIN Words : Words[x] = w => x = k
    BY <1>1, WordsAre
  <2> QED BY <1>1, <2>1, <2>2
<1>2. StrCmp(a, b) = Spot(a) - Spot(b)
  BY DEF StrCmp
<1>3. Spot(a) = i /\ Spot(b) = j
  BY <1>1
<1> HIDE DEF Spot
<1> QED BY <1>2, <1>3

\* A sequence that rises from each place to the next rises.
LEMMA Rising ==
  ASSUME NEW n \in Nat, NEW f \in [1 .. n -> Int],
         \A i \in 1 .. n - 1 : f[i] < f[i + 1]
  PROVE  \A i, j \in 1 .. n : i < j => f[i] < f[j]
<1> SUFFICES ASSUME NEW i \in 1 .. n PROVE \A j \in 1 .. n : i < j => f[i] < f[j]
  OBVIOUS
<1> DEFINE P == {k \in 0 .. n : i < k => f[i] < f[k]}
<1>1. 0 \in P
  OBVIOUS
<1>2. ASSUME NEW k \in 1 .. n, k - 1 \in P PROVE k \in P
  <2>1. CASE i < k - 1
    <3>1. f[i] < f[k - 1] /\ k - 1 \in 1 .. n - 1 /\ (k - 1) + 1 = k /\ k \in 0 .. n
      BY <1>2, <2>1
    <3>2. f[k - 1] < f[k]
      BY <3>1
    <3>3. f[i] \in Int /\ f[k] \in Int /\ f[k - 1] \in Int
      BY <3>1
    <3>4. f[i] < f[k]
      BY <3>1, <3>2, <3>3
    <3> QED BY <3>1, <3>4
  <2>2. CASE i = k - 1
    <3>1. i \in 1 .. n - 1 /\ i + 1 = k /\ k \in 0 .. n
      BY <2>2
    <3>2. f[i] < f[k]
      BY <3>1
    <3> QED BY <3>1, <3>2
  <2>3. CASE ~(i < k - 1) /\ i # k - 1
    <3>1. ~(i < k) /\ k \in 0 .. n
      BY <2>3
    <3> QED BY <3>1
  <2> QED BY <2>1, <2>2, <2>3
<1> HIDE DEF P
<1>3. Inductive(P, n)
  BY <1>1, <1>2 DEF Inductive
<1>4. \A k \in 0 .. n : k \in P
  BY <1>3, CountUp
<1> QED BY <1>4 DEF P

\* A table in the order of strcmp: the places of its words rise.
Ordered(tab, n, at) ==
  /\ n \in Nat /\ Len(tab) = n
  /\ at \in [1 .. n -> 1 .. 38]
  /\ \A i \in 1 .. n : tab[i].s = Words[at[i]]
  /\ \A i \in 1 .. n - 1 : at[i] < at[i + 1]

\* strlong_search finds every word of such a table.
LEMMA StrlongSearchRight ==
  ASSUME NEW tab, NEW n, NEW at, Ordered(tab, n, at), NEW k \in 1 .. n
  PROVE  StrlongSearch(tab[k].s, tab) = tab[k].l
<1> DEFINE str == tab[k].s
           c == [i \in 0 .. Len(tab) - 1 |-> StrCmp(str, tab[i + 1].s)]
           b == Bisect(c, n)
<1>1. n \in Nat /\ Len(tab) = n /\ at \in [1 .. n -> 1 .. 38]
  BY DEF Ordered
<1>2. ASSUME NEW i \in 0 .. n - 1 PROVE c[i] = at[k] - at[i + 1]
  <2>1. i + 1 \in 1 .. n /\ i \in 0 .. Len(tab) - 1
    BY <1>1
  <2>2. c[i] = StrCmp(str, tab[i + 1].s)
    BY <2>1
  <2>3. at[k] \in 1 .. 38 /\ at[i + 1] \in 1 .. 38
    BY <1>1, <2>1
  <2>4. str = Words[at[k]] /\ tab[i + 1].s = Words[at[i + 1]]
    BY <2>1 DEF Ordered
  <2> DEFINE x == tab[i + 1].s
             u == at[k]
             v == at[i + 1]
  <2>5. u \in 1 .. 38 /\ v \in 1 .. 38 /\ str = Words[u] /\ x = Words[v] /\ c[i] = StrCmp(str, x)
    BY <2>2, <2>3, <2>4
  <2> HIDE DEF c, str, x, u, v
  <2>6. c[i] = u - v
    BY <2>5, StrCmpIs
  <2> QED BY <2>6 DEF u, v
<1>3. \A i, j \in 1 .. n : i < j => at[i] < at[j]
  <2>1. at \in [1 .. n -> Int]
    <3>1. \A i \in 1 .. 38 : i \in Int
      OBVIOUS
    <3> QED BY <1>1, <3>1
  <2>2. \A i \in 1 .. n - 1 : at[i] < at[i + 1]
    BY DEF Ordered
  <2> QED BY <1>1, <2>1, <2>2, Rising
<1>4. DOMAIN c = 0 .. n - 1 /\ c = [i \in DOMAIN c |-> c[i]]
  BY <1>1
<1>5. StrlongSearch(str, tab) = IF b = NotFound THEN NotFound ELSE tab[b + 1].l
  BY <1>1 DEF StrlongSearch
<1> HIDE DEF c, b, str
<1>6. ASSUME NEW i \in 0 .. n - 1
      PROVE  i + 1 \in 1 .. n /\ at[i + 1] \in Int /\ at[k] \in Int
  <2>1. \A x \in 1 .. 38 : x \in Int
    OBVIOUS
  <2>2. i + 1 \in 1 .. n
    BY <1>1
  <2>3. at[i + 1] \in 1 .. 38 /\ at[k] \in 1 .. 38
    BY <1>1, <2>2
  <2> QED BY <2>1, <2>2, <2>3
<1>7. c \in [0 .. n - 1 -> Int]
  <2>1. \A i \in 0 .. n - 1 : c[i] \in Int
    BY <1>2, <1>6
  <2> QED BY <1>4, <2>1
<1>8. ASSUME NEW i \in 0 .. n - 1, NEW j \in 0 .. n - 1, i < j, c[j] >= 0
      PROVE  c[i] > 0
  <2>1. at[i + 1] < at[j + 1]
    <3>1. i + 1 < j + 1
      BY <1>8
    <3> QED BY <1>3, <1>6, <3>1
  <2> QED BY <1>2, <1>6, <1>8, <2>1
<1>9. Falls(c, n)
  BY <1>7, <1>8 DEF Falls
<1>10. k - 1 \in 0 .. n - 1 /\ (k - 1) + 1 = k
  BY <1>1
<1>11. c[k - 1] = 0
  BY <1>2, <1>6, <1>10
<1>12. b \in 0 .. n - 1 /\ c[b] = 0
  BY <1>1, <1>9, <1>10, <1>11, BisectRight DEF b
<1>13. at[b + 1] = at[k] /\ b + 1 \in 1 .. n
  BY <1>2, <1>6, <1>12
<1>14. b + 1 = k
  <2>1. ~(b + 1 < k)
    <3>1. b + 1 < k => at[b + 1] < at[k]
      BY <1>3, <1>13
    <3> QED BY <1>6, <1>12, <1>13, <3>1
  <2>2. ~(k < b + 1)
    <3>1. k < b + 1 => at[k] < at[b + 1]
      BY <1>3, <1>13
    <3> QED BY <1>6, <1>12, <1>13, <3>1
  <2> QED BY <1>1, <1>13, <2>1, <2>2
<1>15. b # NotFound
  BY <1>12 DEF NotFound
<1> QED BY <1>5, <1>14, <1>15 DEF str

LEMMA Counted ==
  ASSUME NEW T, NEW s \in Seq(T)
  PROVE  s \in [1 .. Len(s) -> T]
OBVIOUS

MonAt == <<1, 2, 3, 4, 5, 6, 7, 8, 12, 13, 14, 15, 16, 17, 18, 19, 20, 23, 24, 25, 26,
           29, 30>>
WdayAt == <<9, 10, 21, 22, 27, 28, 31, 32, 33, 34, 35, 36, 37, 38>>

LEMMA MonInOrder == Ordered(mon_tab, 23, MonAt)
<1>0. \A i \in 1 .. 23 :
        i \in {1, 2, 3, 4, 5, 6, 7, 8, 9, 10, 11, 12, 13, 14, 15, 16, 17, 18, 19,
               20, 21, 22, 23}
  OBVIOUS
<1>1. Len(mon_tab) = 23 /\ 23 \in Nat
  BY DEF mon_tab
<1>2. /\ mon_tab[1].s = Words[MonAt[1]] /\ mon_tab[2].s = Words[MonAt[2]]
      /\ mon_tab[3].s = Words[MonAt[3]] /\ mon_tab[4].s = Words[MonAt[4]]
      /\ mon_tab[5].s = Words[MonAt[5]] /\ mon_tab[6].s = Words[MonAt[6]]
      /\ mon_tab[7].s = Words[MonAt[7]] /\ mon_tab[8].s = Words[MonAt[8]]
      /\ mon_tab[9].s = Words[MonAt[9]] /\ mon_tab[10].s = Words[MonAt[10]]
      /\ mon_tab[11].s = Words[MonAt[11]] /\ mon_tab[12].s = Words[MonAt[12]]
      /\ mon_tab[13].s = Words[MonAt[13]] /\ mon_tab[14].s = Words[MonAt[14]]
      /\ mon_tab[15].s = Words[MonAt[15]] /\ mon_tab[16].s = Words[MonAt[16]]
      /\ mon_tab[17].s = Words[MonAt[17]] /\ mon_tab[18].s = Words[MonAt[18]]
      /\ mon_tab[19].s = Words[MonAt[19]] /\ mon_tab[20].s = Words[MonAt[20]]
      /\ mon_tab[21].s = Words[MonAt[21]] /\ mon_tab[22].s = Words[MonAt[22]]
      /\ mon_tab[23].s = Words[MonAt[23]]
  BY DEF mon_tab, Entry, Words, MonAt
<1>3. MonAt \in [1 .. 23 -> 1 .. 38]
  <2>1. MonAt \in Seq(1 .. 38) /\ Len(MonAt) = 23
    BY DEF MonAt
  <2> QED BY <2>1, Counted
<1>4. /\ MonAt[1] < MonAt[2] /\ MonAt[2] < MonAt[3] /\ MonAt[3] < MonAt[4]
      /\ MonAt[4] < MonAt[5] /\ MonAt[5] < MonAt[6] /\ MonAt[6] < MonAt[7]
      /\ MonAt[7] < MonAt[8] /\ MonAt[8] < MonAt[9] /\ MonAt[9] < MonAt[10]
      /\ MonAt[10] < MonAt[11] /\ MonAt[11] < MonAt[12] /\ MonAt[12] < MonAt[13]
      /\ MonAt[13] < MonAt[14] /\ MonAt[14] < MonAt[15] /\ MonAt[15] < MonAt[16]
      /\ MonAt[16] < MonAt[17] /\ MonAt[17] < MonAt[18] /\ MonAt[18] < MonAt[19]
      /\ MonAt[19] < MonAt[20] /\ MonAt[20] < MonAt[21] /\ MonAt[21] < MonAt[22]
      /\ MonAt[22] < MonAt[23]
  BY DEF MonAt
<1>5. \A i \in 1 .. 23 : mon_tab[i].s = Words[MonAt[i]]
  BY <1>0, <1>2
<1>6. \A i \in 1 .. 22 : MonAt[i] < MonAt[i + 1]
  BY <1>0, <1>4
<1> QED BY <1>1, <1>3, <1>5, <1>6 DEF Ordered

LEMMA WdayInOrder == Ordered(wday_tab, 14, WdayAt)
<1>0. \A i \in 1 .. 14 : i \in {1, 2, 3, 4, 5, 6, 7, 8, 9, 10, 11, 12, 13, 14}
  OBVIOUS
<1>1. Len(wday_tab) = 14 /\ 14 \in Nat
  BY DEF wday_tab
<1>2. /\ wday_tab[1].s = Words[WdayAt[1]] /\ wday_tab[2].s = Words[WdayAt[2]]
      /\ wday_tab[3].s = Words[WdayAt[3]] /\ wday_tab[4].s = Words[WdayAt[4]]
      /\ wday_tab[5].s = Words[WdayAt[5]] /\ wday_tab[6].s = Words[WdayAt[6]]
      /\ wday_tab[7].s = Words[WdayAt[7]] /\ wday_tab[8].s = Words[WdayAt[8]]
      /\ wday_tab[9].s = Words[WdayAt[9]] /\ wday_tab[10].s = Words[WdayAt[10]]
      /\ wday_tab[11].s = Words[WdayAt[11]] /\ wday_tab[12].s = Words[WdayAt[12]]
      /\ wday_tab[13].s = Words[WdayAt[13]] /\ wday_tab[14].s = Words[WdayAt[14]]
  BY DEF wday_tab, Entry, Words, WdayAt
<1>3. WdayAt \in [1 .. 14 -> 1 .. 38]
  <2>1. WdayAt \in Seq(1 .. 38) /\ Len(WdayAt) = 14
    BY DEF WdayAt
  <2> QED BY <2>1, Counted
<1>4. /\ WdayAt[1] < WdayAt[2] /\ WdayAt[2] < WdayAt[3] /\ WdayAt[3] < WdayAt[4]
      /\ WdayAt[4] < WdayAt[5] /\ WdayAt[5] < WdayAt[6] /\ WdayAt[6] < WdayAt[7]
      /\ WdayAt[7] < WdayAt[8] /\ WdayAt[8] < WdayAt[9] /\ WdayAt[9] < WdayAt[10]
      /\ WdayAt[10] < WdayAt[11] /\ WdayAt[11] < WdayAt[12]
      /\ WdayAt[12] < WdayAt[13] /\ WdayAt[13] < WdayAt[14]
  BY DEF WdayAt
<1>5. \A i \in 1 .. 14 : wday_tab[i].s = Words[WdayAt[i]]
  BY <1>0, <1>2
<1>6. \A i \in 1 .. 13 : WdayAt[i] < WdayAt[i + 1]
  BY <1>0, <1>4
<1> QED BY <1>1, <1>3, <1>5, <1>6 DEF Ordered

\* Every name of a month is a word, and found with its number.
LEMMA ScanMonRight ==
  ASSUME NEW m \in 1 .. 12, NEW mon \in {ShortName[m], LongName[m]}
  PROVE  ScanMon(mon) = m - 1 /\ mon \in ToSet(Words)
<1>1. ASSUME NEW k \in 1 .. 23
      PROVE  /\ ScanMon(mon_tab[k].s) = mon_tab[k].l
             /\ mon_tab[k].s \in ToSet(Words)
  <2>1. ScanMon(mon_tab[k].s) = mon_tab[k].l
    BY MonInOrder, StrlongSearchRight DEF ScanMon
  <2>2. MonAt[k] \in 1 .. 38 /\ mon_tab[k].s = Words[MonAt[k]]
    BY MonInOrder DEF Ordered
  <2>3. MonAt[k] \in DOMAIN Words
    BY <2>2, WordsAre
  <2> QED BY <2>1, <2>2, <2>3 DEF ToSet
<1> DEFINE Right(w, k) == ScanMon(w) = k - 1 /\ w \in ToSet(Words)
<1>2. /\ Right("jan", 1) /\ Right("january", 1)
      /\ Right("feb", 2) /\ Right("february", 2)
      /\ Right("mar", 3) /\ Right("march", 3)
  <2>1. /\ mon_tab[9].s = "jan" /\ mon_tab[9].l = 0
        /\ mon_tab[10].s = "january" /\ mon_tab[10].l = 0
        /\ mon_tab[7].s = "feb" /\ mon_tab[7].l = 1
        /\ mon_tab[8].s = "february" /\ mon_tab[8].l = 1
        /\ mon_tab[15].s = "mar" /\ mon_tab[15].l = 2
        /\ mon_tab[16].s = "march" /\ mon_tab[16].l = 2
    BY DEF mon_tab, Entry
  <2>2. \A k \in {7, 8, 9, 10, 15, 16} : k \in 1 .. 23
    OBVIOUS
  <2> QED BY <1>1, <2>1, <2>2
<1>3. /\ Right("apr", 4) /\ Right("april", 4)
      /\ Right("may", 5)
      /\ Right("jun", 6) /\ Right("june", 6)
  <2>1. /\ mon_tab[1].s = "apr" /\ mon_tab[1].l = 3
        /\ mon_tab[2].s = "april" /\ mon_tab[2].l = 3
        /\ mon_tab[17].s = "may" /\ mon_tab[17].l = 4
        /\ mon_tab[13].s = "jun" /\ mon_tab[13].l = 5
        /\ mon_tab[14].s = "june" /\ mon_tab[14].l = 5
    BY DEF mon_tab, Entry
  <2>2. \A k \in {1, 2, 17, 13, 14} : k \in 1 .. 23
    OBVIOUS
  <2> QED BY <1>1, <2>1, <2>2
<1>4. /\ Right("jul", 7) /\ Right("july", 7)
      /\ Right("aug", 8) /\ Right("august", 8)
      /\ Right("sep", 9) /\ Right("september", 9)
  <2>1. /\ mon_tab[11].s = "jul" /\ mon_tab[11].l = 6
        /\ mon_tab[12].s = "july" /\ mon_tab[12].l = 6
        /\ mon_tab[3].s = "aug" /\ mon_tab[3].l = 7
        /\ mon_tab[4].s = "august" /\ mon_tab[4].l = 7
        /\ mon_tab[22].s = "sep" /\ mon_tab[22].l = 8
        /\ mon_tab[23].s = "september" /\ mon_tab[23].l = 8
    BY DEF mon_tab, Entry
  <2>2. \A k \in {11, 12, 3, 4, 22, 23} : k \in 1 .. 23
    OBVIOUS
  <2> QED BY <1>1, <2>1, <2>2
<1>5. /\ Right("oct", 10) /\ Right("october", 10)
      /\ Right("nov", 11) /\ Right("november", 11)
      /\ Right("dec", 12) /\ Right("december", 12)
  <2>1. /\ mon_tab[20].s = "oct" /\ mon_tab[20].l = 9
        /\ mon_tab[21].s = "october" /\ mon_tab[21].l = 9
        /\ mon_tab[18].s = "nov" /\ mon_tab[18].l = 10
        /\ mon_tab[19].s = "november" /\ mon_tab[19].l = 10
        /\ mon_tab[5].s = "dec" /\ mon_tab[5].l = 11
        /\ mon_tab[6].s = "december" /\ mon_tab[6].l = 11
    BY DEF mon_tab, Entry
  <2>2. \A k \in {20, 21, 18, 19, 5, 6} : k \in 1 .. 23
    OBVIOUS
  <2> QED BY <1>1, <2>1, <2>2
<1>6. /\ ShortName[1] = "jan" /\ ShortName[2] = "feb" /\ ShortName[3] = "mar"
      /\ ShortName[4] = "apr" /\ ShortName[5] = "may" /\ ShortName[6] = "jun"
      /\ ShortName[7] = "jul" /\ ShortName[8] = "aug" /\ ShortName[9] = "sep"
      /\ ShortName[10] = "oct" /\ ShortName[11] = "nov" /\ ShortName[12] = "dec"
  BY DEF ShortName
<1>7. /\ LongName[1] = "january" /\ LongName[2] = "february" /\ LongName[3] = "march"
      /\ LongName[4] = "april" /\ LongName[5] = "may" /\ LongName[6] = "june"
      /\ LongName[7] = "july" /\ LongName[8] = "august" /\ LongName[9] = "september"
      /\ LongName[10] = "october" /\ LongName[11] = "november"
      /\ LongName[12] = "december"
  BY DEF LongName
<1>8. m \in {1, 2, 3, 4, 5, 6, 7, 8, 9, 10, 11, 12}
  OBVIOUS
<1> HIDE DEF Right
<1>9. Right(ShortName[m], m) /\ Right(LongName[m], m)
  BY <1>2, <1>3, <1>4, <1>5, <1>6, <1>7, <1>8
<1>10. Right(mon, m)
  BY <1>9
<1> QED BY <1>10 DEF Right

\* So is every name of a day of the week.
LEMMA ScanWdayRight ==
  ASSUME NEW wday \in WdayNames
  PROVE  ScanWday(wday) # NotFound /\ wday \in ToSet(Words)
<1>0. DOMAIN wday_tab = 1 .. 14
  BY DEF wday_tab
<1>1. PICK k \in 1 .. 14 : wday = wday_tab[k].s
  BY <1>0 DEF WdayNames
<1>2. ScanWday(wday) = wday_tab[k].l
  BY <1>1, WdayInOrder, StrlongSearchRight DEF ScanWday
<1>3. WdayAt[k] \in 1 .. 38 /\ wday = Words[WdayAt[k]]
  BY <1>1, WdayInOrder DEF Ordered
<1>4. WdayAt[k] \in DOMAIN Words
  BY <1>3, WordsAre
<1>5. /\ wday_tab[1].l = 5 /\ wday_tab[2].l = 5 /\ wday_tab[3].l = 1
      /\ wday_tab[4].l = 1 /\ wday_tab[5].l = 6 /\ wday_tab[6].l = 6
      /\ wday_tab[7].l = 0 /\ wday_tab[8].l = 0 /\ wday_tab[9].l = 4
      /\ wday_tab[10].l = 4 /\ wday_tab[11].l = 2 /\ wday_tab[12].l = 2
      /\ wday_tab[13].l = 3 /\ wday_tab[14].l = 3
  BY DEF wday_tab, Entry
<1>6. k \in {1, 2, 3, 4, 5, 6, 7, 8, 9, 10, 11, 12, 13, 14}
  OBVIOUS
<1>7. wday_tab[k].l # NotFound
  BY <1>5, <1>6 DEF NotFound
<1> QED BY <1>2, <1>3, <1>4, <1>7 DEF ToSet

(***************************************************************************)
(* sscanf, item by item.                                                   *)
(***************************************************************************)
Signs == {"-", " ", ":", ",", Zone}
Tok == [w : ToSet(Words) \cup Signs \cup {"%d"}, n : Int]
ScanState == [at : Nat, values : Seq(Tok), going : BOOLEAN]
ScanStart == [at |-> 1, values |-> <<>>, going |-> TRUE]

Conv(item) == item \in {"%s", "%d"}
Fitting(item, tok) == IF item = "%s" THEN IsWord(tok) ELSE tok.w = item

SscanfSteps(format, text) ==
  CHOOSE f : f = [i \in 0 .. Len(format) |->
                    IF i = 0 THEN [at |-> 1, values |-> <<>>, going |-> TRUE]
                    ELSE Scan(f[i - 1], format[i], text)]

LEMMA ScanType ==
  ASSUME NEW st \in ScanState, NEW item, NEW text \in Seq(Tok)
  PROVE  Scan(st, item, text) \in ScanState
<1> DEFINE at == IF item \in {" ", "%d"} /\ WordAt(text, st.at) = " " THEN st.at + 1
                 ELSE st.at
           found == at \in DOMAIN text /\ IF item = "%s" THEN IsWord(text[at])
                                          ELSE text[at].w = item
<1>0. \A s \in Seq(Tok), z \in Tok : Append(s, z) \in Seq(Tok)
  OBVIOUS
<1>1. st.at \in Nat /\ st.values \in Seq(Tok) /\ st.going \in BOOLEAN
  BY DEF ScanState
<1>2. at \in Nat /\ at + 1 \in Nat
  <2>1. st.at + 1 \in Nat /\ (st.at + 1) + 1 \in Nat
    BY <1>1
  <2> QED BY <1>1, <2>1
<1>3. Scan(st, item, text) =
        IF ~st.going THEN st
        ELSE IF item = " " THEN [st EXCEPT !.at = at]
        ELSE IF ~found THEN [st EXCEPT !.going = FALSE]
        ELSE [st EXCEPT !.at = at + 1,
                        !.values = IF item \in {"%s", "%d"} THEN Append(@, text[at]) ELSE @]
  BY DEF Scan
<1>4. found => text[at] \in Tok
  <2> HIDE DEF at
  <2>1. at \in DOMAIN text => at \in 1 .. Len(text)
    OBVIOUS
  <2> QED BY <2>1, ElementOfSeq
<1>5. st = [at |-> st.at, values |-> st.values, going |-> st.going]
  BY DEF ScanState
<1> HIDE DEF at, found
<1>6. CASE ~st.going
  BY <1>3, <1>6
<1>7. CASE st.going /\ item = " "
  <2>1. Scan(st, item, text) = [st EXCEPT !.at = at]
    BY <1>3, <1>7
  <2> QED BY <1>2, <2>1 DEF ScanState
<1>8. CASE st.going /\ item # " " /\ ~found
  <2>1. Scan(st, item, text) = [st EXCEPT !.going = FALSE]
    BY <1>3, <1>8
  <2> QED BY <2>1 DEF ScanState
<1>9. CASE st.going /\ item # " " /\ found
  <2> DEFINE v == IF item \in {"%s", "%d"} THEN Append(st.values, text[at]) ELSE st.values
  <2>1. Scan(st, item, text) = [st EXCEPT !.at = at + 1, !.values = v]
    BY <1>3, <1>9
  <2>2. v \in Seq(Tok)
    <3>1. text[at] \in Tok
      BY <1>4, <1>9
    <3>2. Append(st.values, text[at]) \in Seq(Tok)
      BY <1>0, <1>1, <3>1, Zenon
    <3> QED BY <1>1, <3>2
  <2> HIDE DEF v
  <2> QED BY <1>2, <2>1, <2>2 DEF ScanState
<1> QED BY <1>6, <1>7, <1>8, <1>9

LEMMA SscanfStepsRight ==
  ASSUME NEW format, Len(format) \in Nat, NEW text \in Seq(Tok)
  PROVE  /\ Sscanf(format, text) = SscanfSteps(format, text)[Len(format)].values
         /\ SscanfSteps(format, text)[0] = ScanStart
         /\ \A i \in 1 .. Len(format) :
              SscanfSteps(format, text)[i]
                = Scan(SscanfSteps(format, text)[i - 1], format[i], text)
         /\ \A i \in 0 .. Len(format) : SscanfSteps(format, text)[i] \in ScanState
<1> DEFINE n == Len(format)
           S == ScanState
           step == [i \in Nat |-> [st \in S |-> Scan(st, format[i], text)]]
           Eq(f) == f = [i \in 0 .. Len(format) |->
                           IF i = 0 THEN ScanStart ELSE Scan(f[i - 1], format[i], text)]
<1>2. ScanStart \in S
  BY DEF ScanStart, ScanState
<1>3. step \in [Nat -> [S -> S]]
  BY ScanType
<1>4. Stepping(S, ScanStart, step, n)
  BY <1>2, <1>3 DEF Stepping
<1>5. PICK g : Computes(g, S, ScanStart, step, n)
  <2> HIDE DEF S, step
  <2> QED BY <1>4, Recursion
<1>6. g \in [0 .. n -> S] /\ g[0] = ScanStart
  BY <1>5 DEF Computes
<1>7. ASSUME NEW i \in 1 .. n PROVE g[i] = Scan(g[i - 1], format[i], text)
  <2>1. i - 1 \in 0 .. n /\ i \in Nat
    OBVIOUS
  <2> HIDE DEF S
  <2>2. g[i - 1] \in S
    BY <1>6, <2>1
  <2>3. g[i] = step[i][g[i - 1]]
    <3> HIDE DEF step
    <3> QED BY <1>5 DEF Computes
  <2> QED BY <2>1, <2>2, <2>3
<1>8. Eq(g)
  <2> DEFINE body(i) == IF i = 0 THEN ScanStart ELSE Scan(g[i - 1], format[i], text)
             F == [i \in 0 .. Len(format) |-> body(i)]
  <2>1. ASSUME NEW i \in 0 .. Len(format) PROVE g[i] = body(i)
    <3>1. i = 0 \/ (i \in 1 .. n /\ i # 0)
      OBVIOUS
    <3> HIDE DEF S
    <3> QED BY <1>6, <1>7, <3>1
  <2>2. g = F
    <3> HIDE DEF body
    <3>1. DOMAIN g = DOMAIN F /\ \A i \in DOMAIN F : g[i] = F[i]
      BY <1>6, <2>1
    <3>2. g = [i \in DOMAIN g |-> g[i]] /\ F = [i \in DOMAIN F |-> F[i]]
      BY <1>6
    <3> HIDE DEF F
    <3> QED BY <3>1, <3>2
  <2> QED BY <2>2, Zenon
<1>9. SscanfSteps(format, text) = CHOOSE f : Eq(f)
  BY DEF SscanfSteps, ScanStart
<1>10. Eq(SscanfSteps(format, text))
  <2> HIDE DEF Eq
  <2> QED BY <1>8, <1>9
<1> DEFINE f == SscanfSteps(format, text)
<1>11. ASSUME NEW i \in 0 .. n
       PROVE  f[i] = IF i = 0 THEN ScanStart ELSE Scan(f[i - 1], format[i], text)
  <2> HIDE DEF f
  <2>1. Eq(f)
    BY <1>10 DEF f
  <2> QED BY <2>1
<1> HIDE DEF f
<1>12. f[0] = ScanStart
  BY <1>11
<1>13. ASSUME NEW i \in 1 .. n PROVE f[i] = Scan(f[i - 1], format[i], text)
  <2>1. i \in 0 .. n /\ i # 0
    OBVIOUS
  <2> QED BY <1>11, <2>1
<1>14. \A i \in 0 .. n : f[i] \in S
  <2> DEFINE P == {i \in 0 .. n : f[i] \in S}
  <2>1. 0 \in P
    BY <1>2, <1>12
  <2>2. ASSUME NEW i \in 1 .. n, i - 1 \in P PROVE i \in P
    BY <1>13, <2>2, ScanType
  <2> HIDE DEF P
  <2>3. Inductive(P, n)
    BY <2>1, <2>2 DEF Inductive
  <2>4. \A i \in 0 .. n : i \in P
    BY <2>3, CountUp
  <2> QED BY <2>4 DEF P
<1>15. Sscanf(format, text) = f[n].values
  BY DEF Sscanf, f, SscanfSteps
<1> QED BY <1>12, <1>13, <1>14, <1>15 DEF f

LEMMA WordIs ==
  ASSUME NEW text \in Seq(Tok), NEW i \in 1 .. Len(text)
  PROVE  i \in DOMAIN text /\ WordAt(text, i) = text[i].w
BY DEF WordAt

LEMMA ScanFits ==
  ASSUME NEW st \in ScanState, NEW item, NEW text \in Seq(Tok),
         st.going, st.at \in 1 .. Len(text), Fitting(item, text[st.at])
  PROVE  Scan(st, item, text) =
           [at |-> st.at + 1, going |-> TRUE,
            values |-> IF Conv(item) THEN Append(st.values, text[st.at]) ELSE st.values]
<1> DEFINE i == st.at
           at == IF item \in {" ", "%d"} /\ WordAt(text, i) = " " THEN i + 1 ELSE i
           found == at \in DOMAIN text /\ IF item = "%s" THEN IsWord(text[at])
                                          ELSE text[at].w = item
<1>1. Scan(st, item, text) =
        IF ~st.going THEN st
        ELSE IF item = " " THEN [st EXCEPT !.at = at]
        ELSE IF ~found THEN [st EXCEPT !.going = FALSE]
        ELSE [st EXCEPT !.at = at + 1,
                        !.values = IF item \in {"%s", "%d"} THEN Append(@, text[at]) ELSE @]
  BY DEF Scan
<1>2. i \in DOMAIN text /\ WordAt(text, i) = text[i].w
  BY WordIs, Zenon
<1>3. st = [at |-> i, values |-> st.values, going |-> TRUE]
  BY DEF ScanState
<1>4. CASE item = " "
  <2>1. text[i].w = " "
    BY <1>4 DEF Fitting
  <2>2. at = i + 1
    BY <1>2, <1>4, <2>1
  <2> HIDE DEF at, found
  <2>3. Scan(st, item, text) = [st EXCEPT !.at = i + 1]
    BY <1>1, <1>4, <2>2
  <2>4. ~Conv(item)
    BY <1>4 DEF Conv
  <2> HIDE DEF i
  <2> QED BY <1>3, <2>3, <2>4 DEF i
<1>5. CASE item # " "
  <2>1. at = i
    <3>1. CASE item = "%d"
      <4>1. text[i].w = "%d"
        BY <3>1 DEF Fitting
      <4> QED BY <1>2, <4>1
    <3>2. CASE item # "%d"
      BY <1>5, <3>2
    <3> QED BY <3>1, <3>2
  <2>2. found
    BY <1>2, <2>1 DEF Fitting
  <2> DEFINE v == IF Conv(item) THEN Append(st.values, text[i]) ELSE st.values
  <2> HIDE DEF found
  <2>3. Scan(st, item, text) = [st EXCEPT !.at = i + 1, !.values = v]
    <3> HIDE DEF at
    <3> QED BY <1>1, <1>5, <2>1, <2>2 DEF Conv
  <2> HIDE DEF v
  <2>4. Scan(st, item, text) = [at |-> i + 1, going |-> TRUE, values |-> v]
    <3> HIDE DEF i, at
    <3> QED BY <1>3, <2>3
  <2> QED BY <2>4 DEF v
<1> QED BY <1>4, <1>5

LEMMA ScanFails ==
  ASSUME NEW st \in ScanState, NEW item, NEW text \in Seq(Tok),
         st.going, st.at \in 1 .. Len(text), ~Fitting(item, text[st.at]),
         item # " ", item = "%d" => text[st.at].w # " "
  PROVE  Scan(st, item, text) = [st EXCEPT !.going = FALSE]
<1> DEFINE i == st.at
           at == IF item \in {" ", "%d"} /\ WordAt(text, i) = " " THEN i + 1 ELSE i
           found == at \in DOMAIN text /\ IF item = "%s" THEN IsWord(text[at])
                                          ELSE text[at].w = item
<1>1. Scan(st, item, text) =
        IF ~st.going THEN st
        ELSE IF item = " " THEN [st EXCEPT !.at = at]
        ELSE IF ~found THEN [st EXCEPT !.going = FALSE]
        ELSE [st EXCEPT !.at = at + 1,
                        !.values = IF item \in {"%s", "%d"} THEN Append(@, text[at]) ELSE @]
  BY DEF Scan
<1>2. i \in DOMAIN text /\ WordAt(text, i) = text[i].w
  BY WordIs, Zenon
<1>3. at = i
  <2>1. ~(item \in {" ", "%d"} /\ WordAt(text, i) = " ")
    BY <1>2
  <2> QED BY <2>1, Zenon
<1>4. ~found
  BY <1>3 DEF Fitting
<1> HIDE DEF found, at
<1> QED BY <1>1, <1>4

(***************************************************************************)
(* A text that fits the format up to place p, one token for each item: the *)
(* values are the tokens of the conversions, of which cnt[i] are among the *)
(* first i items.                                                          *)
(***************************************************************************)
Numbering(cnt, format) ==
  /\ Len(format) \in Nat
  /\ cnt \in [0 .. Len(format) -> Nat] /\ cnt[0] = 0
  /\ \A i \in 1 .. Len(format) :
       cnt[i] = IF Conv(format[i]) THEN cnt[i - 1] + 1 ELSE cnt[i - 1]

Along(format, text, p) ==
  /\ p \in 0 .. Len(format) /\ p <= Len(text)
  /\ \A i \in 1 .. p : Fitting(format[i], text[i])

LEMMA AlongRight ==
  ASSUME NEW format, NEW cnt, Numbering(cnt, format), NEW text \in Seq(Tok),
         NEW p, Along(format, text, p)
  PROVE  LET st == SscanfSteps(format, text)[p]
         IN  /\ st.at = p + 1 /\ st.going /\ Len(st.values) = cnt[p]
             /\ \A j \in 1 .. p : Conv(format[j]) =>
                  cnt[j] \in 1 .. cnt[p] /\ st.values[cnt[j]] = text[j]
<1> DEFINE f == SscanfSteps(format, text)
           n == Len(format)
           Good(i) == /\ f[i].at = i + 1 /\ f[i].going /\ Len(f[i].values) = cnt[i]
                      /\ \A j \in 1 .. i : Conv(format[j]) =>
                           cnt[j] \in 1 .. cnt[i] /\ f[i].values[cnt[j]] = text[j]
           P == {i \in 0 .. p : Good(i)}
<1>1. n \in Nat /\ p \in 0 .. n /\ p <= Len(text) /\ p \in Nat /\ Len(text) \in Nat
  BY DEF Numbering, Along
<1>2. /\ f[0] = ScanStart
      /\ \A i \in 1 .. n : f[i] = Scan(f[i - 1], format[i], text)
      /\ \A i \in 0 .. n : f[i] \in ScanState
  BY <1>1, SscanfStepsRight
<1>3. /\ cnt[0] = 0 /\ \A i \in 0 .. n : cnt[i] \in Nat
      /\ \A i \in 1 .. n : cnt[i] = IF Conv(format[i]) THEN cnt[i - 1] + 1 ELSE cnt[i - 1]
  BY DEF Numbering
<1>4. \A i \in 1 .. p : Fitting(format[i], text[i])
  BY DEF Along
<1> HIDE DEF f, n
<1>5. 0 \in P
  BY <1>1, <1>2, <1>3 DEF ScanStart
<1>6. ASSUME NEW i \in 1 .. p, i - 1 \in P PROVE i \in P
  <2>1. /\ i \in 1 .. n /\ i - 1 \in 0 .. n /\ i \in 0 .. p /\ i \in 1 .. Len(text)
        /\ (i - 1) + 1 = i
    BY <1>1
  <2> DEFINE st == f[i - 1]
             nx == f[i]
             c == cnt[i - 1]
             cv == Conv(format[i])
  <2>2. st \in ScanState /\ nx = Scan(st, format[i], text)
    BY <1>2, <2>1
  <2>3. /\ st.at = i /\ st.going /\ Len(st.values) = c
        /\ \A j \in 1 .. i - 1 : Conv(format[j]) =>
             cnt[j] \in 1 .. c /\ st.values[cnt[j]] = text[j]
    BY <1>6, <2>1
  <2>4. c \in Nat /\ cnt[i] = IF cv THEN c + 1 ELSE c
    BY <1>3, <2>1
  <2> HIDE DEF st, nx, c
  <2>5. nx = [at |-> i + 1, going |-> TRUE,
              values |-> IF cv THEN Append(st.values, text[i]) ELSE st.values]
    <3>1. PICK item : item = format[i]
      OBVIOUS
    <3>2. st.going /\ st.at \in 1 .. Len(text) /\ Fitting(item, text[st.at])
      BY <1>4, <2>1, <2>3, <3>1
    <3>3. Scan(st, item, text) =
            [at |-> st.at + 1, going |-> TRUE,
             values |-> IF Conv(item) THEN Append(st.values, text[st.at]) ELSE st.values]
      BY <2>2, <3>2, ScanFits
    <3> QED BY <2>2, <2>3, <3>1, <3>3
  <2>6. st.values \in Seq(Tok) /\ text[i] \in Tok
    BY <2>1, <2>2, ElementOfSeq DEF ScanState
  <2>7. ASSUME NEW j \in 1 .. i, Conv(format[j])
        PROVE  cnt[j] \in 1 .. cnt[i] /\ nx.values[cnt[j]] = text[j]
    <3>1. CASE j = i
      <4>1. cv /\ cnt[i] = c + 1 /\ nx.values = Append(st.values, text[i])
        BY <2>4, <2>5, <2>7, <3>1
      <4>2. Append(st.values, text[i])[c + 1] = text[i]
        BY <2>3, <2>4, <2>6
      <4>3. cnt[j] = c + 1 /\ text[j] = text[i]
        BY <3>1, <4>1
      <4>4. cnt[j] \in 1 .. cnt[i]
        BY <2>4, <4>1, <4>3
      <4>5. nx.values[cnt[j]] = text[j]
        BY <4>1, <4>2, <4>3, Zenon
      <4> QED BY <4>4, <4>5
    <3>2. CASE j # i
      <4>1. j \in 1 .. i - 1
        BY <1>1, <3>2
      <4>2. cnt[j] \in 1 .. c /\ st.values[cnt[j]] = text[j]
        BY <2>3, <2>7, <4>1
      <4>3. CASE cv
        <5>1. nx.values = Append(st.values, text[i]) /\ cnt[i] = c + 1
          BY <2>4, <2>5, <4>3
        <5>2. \A x \in 1 .. c : Append(st.values, text[i])[x] = st.values[x]
          BY <2>3, <2>6
        <5>3. cnt[j] \in 1 .. cnt[i]
          BY <2>4, <4>2, <5>1
        <5>4. nx.values[cnt[j]] = text[j]
          BY <4>2, <5>1, <5>2, Zenon
        <5> QED BY <5>3, <5>4
      <4>4. CASE ~cv
        BY <2>4, <2>5, <4>2, <4>4
      <4> QED BY <4>3, <4>4
    <3> QED BY <3>1, <3>2
  <2>8. Len(nx.values) = cnt[i]
    <3>1. CASE cv
      BY <2>3, <2>4, <2>5, <2>6, <3>1
    <3>2. CASE ~cv
      BY <2>3, <2>4, <2>5, <3>2
    <3> QED BY <3>1, <3>2
  <2>9. nx.at = i + 1 /\ nx.going
    BY <2>5
  <2> HIDE DEF cv
  <2>10. Good(i)
    BY <2>7, <2>8, <2>9 DEF nx
  <2> QED BY <2>1, <2>10
<1> HIDE DEF P
<1>7. Inductive(P, p)
  BY <1>5, <1>6 DEF Inductive
<1>8. p \in P
  BY <1>1, <1>7, CountUp
<1> QED BY <1>8 DEF P, f

\* The whole format.
LEMMA ReadsAll ==
  ASSUME NEW format, NEW cnt, Numbering(cnt, format), NEW text \in Seq(Tok),
         Along(format, text, Len(format))
  PROVE  LET v == Sscanf(format, text)
         IN  /\ Len(v) = cnt[Len(format)]
             /\ \A j \in 1 .. Len(format) : Conv(format[j]) => v[cnt[j]] = text[j]
<1>1. Sscanf(format, text) = SscanfSteps(format, text)[Len(format)].values
  BY SscanfStepsRight DEF Numbering
<1> QED BY <1>1, AlongRight

\* Once a token does not fit, nothing more is read.
LEMMA ReadsNoMore ==
  ASSUME NEW format, Len(format) \in Nat, NEW text \in Seq(Tok),
         NEW k \in 0 .. Len(format), ~SscanfSteps(format, text)[k].going
  PROVE  Sscanf(format, text) = SscanfSteps(format, text)[k].values
<1> DEFINE f == SscanfSteps(format, text)
           n == Len(format)
           P == {i \in 0 .. n : i >= k => f[i] = f[k]}
<1>1. /\ Sscanf(format, text) = f[n].values
      /\ \A i \in 1 .. n : f[i] = Scan(f[i - 1], format[i], text)
  BY SscanfStepsRight
<1> HIDE DEF f
<1>2. ~f[k].going
  BY DEF f
<1>3. 0 \in P
  OBVIOUS
<1>4. ASSUME NEW i \in 1 .. n, i - 1 \in P PROVE i \in P
  <2>1. CASE i - 1 >= k
    <3>1. f[i - 1] = f[k]
      BY <1>4, <2>1
    <3>2. f[i] = Scan(f[k], format[i], text)
      BY <1>1, <3>1
    <3>3. Scan(f[k], format[i], text) = f[k]
      BY <1>2 DEF Scan
    <3> QED BY <3>2, <3>3
  <2>2. CASE i = k
    BY <2>2
  <2>3. CASE ~(i - 1 >= k) /\ i # k
    BY <2>3
  <2> QED BY <2>1, <2>2, <2>3
<1> HIDE DEF P
<1>5. Inductive(P, n)
  BY <1>3, <1>4 DEF Inductive
<1>6. n \in P
  BY <1>5, CountUp
<1>7. f[n] = f[k]
  BY <1>6 DEF P
<1> QED BY <1>1, <1>7 DEF f

\* The token does not fit, and is not white space that is skipped.
Refused(item, tok) ==
  ~Fitting(item, tok) /\ item # " " /\ (item = "%d" => tok.w # " ")

LEMMA ReadsUpTo ==
  ASSUME NEW format, NEW cnt, Numbering(cnt, format), NEW text \in Seq(Tok),
         NEW p, NEW q, q = p + 1, Along(format, text, p), p < Len(format),
         p < Len(text), Refused(format[q], text[q])
  PROVE  Len(Sscanf(format, text)) = cnt[p]
<1> DEFINE f == SscanfSteps(format, text)
           st == f[p]
           item == format[q]
<1>1. /\ Len(format) \in Nat /\ p \in 0 .. Len(format) /\ Len(text) \in Nat
      /\ p < Len(format) /\ p < Len(text)
  <2>1. Len(format) \in Nat
    BY DEF Numbering
  <2>2. p \in 0 .. Len(format) /\ Len(text) \in Nat
    BY DEF Along
  <2> QED BY <2>1, <2>2
<1>2. q \in 1 .. Len(format) /\ q \in 1 .. Len(text) /\ q - 1 = p
      /\ q \in 0 .. Len(format)
  BY <1>1
<1>3. /\ \A i \in 1 .. Len(format) : f[i] = Scan(f[i - 1], format[i], text)
      /\ \A i \in 0 .. Len(format) : f[i] \in ScanState
  BY <1>1, SscanfStepsRight
<1>4. st.at = q /\ st.going /\ Len(st.values) = cnt[p]
  BY AlongRight
<1> HIDE DEF f
<1>5. st \in ScanState /\ f[q] = Scan(st, format[q], text)
  BY <1>1, <1>2, <1>3
<1> HIDE DEF st
<1>6. f[q] = [st EXCEPT !.going = FALSE]
  <2>1. /\ ~Fitting(item, text[st.at]) /\ item # " "
        /\ item = "%d" => text[st.at].w # " "
    BY <1>4, Zenon DEF Refused
  <2> HIDE DEF item
  <2>2. Scan(st, item, text) = [st EXCEPT !.going = FALSE]
    BY <1>2, <1>4, <1>5, <2>1, ScanFails
  <2> QED BY <1>5, <2>2 DEF item
<1>7. f[q].values = st.values /\ ~f[q].going
  BY <1>5, <1>6 DEF ScanState
<1>8. Sscanf(format, text) = f[q].values
  BY <1>1, <1>2, <1>7, ReadsNoMore DEF f
<1> QED BY <1>4, <1>7, <1>8

(***************************************************************************)
(* The formats: how many conversions there are up to each item.            *)
(***************************************************************************)
Count(c) == [i \in 0 .. Len(c) |-> IF i = 0 THEN 0 ELSE c[i]]

Counts(format, c, i) ==
  c[i + 1] = IF Conv(format[i + 1]) THEN c[i] + 1 ELSE c[i]

LEMMA NumberingIs ==
  ASSUME NEW format, NEW c \in Seq(Nat), Len(c) = Len(format), Len(c) # 0,
         Conv(format[1]), c[1] = 1,
         \A i \in 1 .. Len(c) - 1 : Counts(format, c, i)
  PROVE  Numbering(Count(c), format)
<1> DEFINE n == Len(c)
           cnt == Count(c)
<1>1. n \in Nat /\ \A i \in 1 .. n : c[i] \in Nat
  BY ElementOfSeq
<1> HIDE DEF n
<1>2. cnt = [i \in 0 .. n |-> IF i = 0 THEN 0 ELSE c[i]]
  BY DEF Count, n
<1>3. \A i \in 0 .. n : i = 0 \/ i \in 1 .. n
  BY <1>1
<1>4. cnt \in [0 .. n -> Nat] /\ cnt[0] = 0 /\ \A i \in 1 .. n : cnt[i] = c[i]
  <2>1. \A i \in 0 .. n : (IF i = 0 THEN 0 ELSE c[i]) \in Nat
    BY <1>1, <1>3
  <2>2. cnt[0] = 0
    BY <1>1, <1>2
  <2>3. \A i \in 1 .. n : i \in 0 .. n /\ i # 0
    BY <1>1
  <2> QED BY <1>2, <2>1, <2>2, <2>3
<1> HIDE DEF cnt
<1>5. ASSUME NEW i \in 1 .. n
      PROVE  cnt[i] = IF Conv(format[i]) THEN cnt[i - 1] + 1 ELSE cnt[i - 1]
  <2>1. CASE i = 1
    BY <1>1, <1>4, <2>1
  <2>2. CASE i # 1
    <3> DEFINE j == i - 1
    <3>1. j \in 1 .. n - 1 /\ j \in 1 .. n /\ j + 1 = i
      BY <1>1, <2>2
    <3>2. cnt[i] = c[i] /\ cnt[j] = c[j]
      BY <1>4, <3>1
    <3>3. Counts(format, c, j)
      BY <3>1 DEF n
    <3> HIDE DEF j
    <3>4. cnt[i] = IF Conv(format[i]) THEN cnt[j] + 1 ELSE cnt[j]
      BY <3>1, <3>2, <3>3 DEF Counts
    <3> QED BY <3>4 DEF j
  <2> QED BY <2>1, <2>2
<1>6. Len(format) = n
  BY DEF n
<1> QED BY <1>1, <1>4, <1>5, <1>6 DEF Numbering, cnt

DayFirstCount == <<1, 1, 2, 2, 3, 3, 4, 4, 5, 5, 6, 6, 6>>
ClockFirstCount == <<1, 1, 2, 2, 3, 3, 3, 3, 4, 4, 5, 5, 6>>
WeekdayFirstCount == <<1, 1, 1, 2, 2, 3, 3, 4, 4, 5, 5, 6, 6, 7, 7, 7>>
YearLastCount == <<1, 1, 2, 2, 3, 3, 4, 4, 5, 5, 6, 6, 6, 6, 7>>

Seps == {"-", " "}

LEMMA DayFirstNumbered ==
  ASSUME NEW sep \in Seps
  PROVE  Numbering(Count(DayFirstCount), DayFirst(sep))
<1> DEFINE format == DayFirst(sep)
           c == DayFirstCount
<1>0. /\ ~Conv("-") /\ ~Conv(" ") /\ ~Conv(":") /\ ~Conv(Zone) /\ ~Conv(",")
      /\ Conv("%d") /\ Conv("%s")
  BY DEF Conv, Zone
<1>1. ~Conv(sep)
  BY <1>0 DEF Seps
<1>2. /\ format[1] = "%d" /\ format[2] = sep /\ format[3] = "%s"
      /\ format[4] = sep /\ format[5] = "%d" /\ format[6] = " "
      /\ format[7] = "%d" /\ format[8] = ":" /\ format[9] = "%d"
      /\ format[10] = ":" /\ format[11] = "%d" /\ format[12] = " "
      /\ format[13] = Zone
  BY DEF DayFirst
<1>3. /\ c[1] = 1 /\ c[2] = c[1] /\ c[3] = c[2] + 1 /\ c[4] = c[3]
      /\ c[5] = c[4] + 1 /\ c[6] = c[5] /\ c[7] = c[6] + 1 /\ c[8] = c[7]
      /\ c[9] = c[8] + 1 /\ c[10] = c[9] /\ c[11] = c[10] + 1 /\ c[12] = c[11]
      /\ c[13] = c[12]
  BY DEF DayFirstCount
<1>4. c \in Seq(Nat) /\ Len(c) = 13
  BY DEF DayFirstCount
<1>8. Len(format) = 13
  BY DEF DayFirst
<1> HIDE DEF format, c
<1>5. /\ Conv(format[1]) /\ ~Conv(format[2]) /\ Conv(format[3])
      /\ ~Conv(format[4]) /\ Conv(format[5]) /\ ~Conv(format[6])
      /\ Conv(format[7]) /\ ~Conv(format[8]) /\ Conv(format[9])
      /\ ~Conv(format[10]) /\ Conv(format[11]) /\ ~Conv(format[12])
      /\ ~Conv(format[13])
  BY <1>0, <1>1, <1>2, Zenon
<1>6. ASSUME NEW i \in 1 .. 12 PROVE Counts(format, c, i)
  <2>1. i \in {1, 2, 3, 4, 5, 6, 7, 8, 9, 10, 11, 12}
    OBVIOUS
  <2> QED BY <1>3, <1>5, <2>1 DEF Counts
<1>7. Len(c) = Len(format) /\ Len(c) # 0 /\ Len(c) - 1 = 12
  BY <1>4, <1>8
<1> QED BY <1>3, <1>4, <1>5, <1>6, <1>7, NumberingIs DEF format, c

LEMMA ClockFirstNumbered ==
  ASSUME NEW sep \in Seps
  PROVE  Numbering(Count(ClockFirstCount), ClockFirst(sep))
<1> DEFINE format == ClockFirst(sep)
           c == ClockFirstCount
<1>0. /\ ~Conv("-") /\ ~Conv(" ") /\ ~Conv(":") /\ ~Conv(Zone) /\ ~Conv(",")
      /\ Conv("%d") /\ Conv("%s")
  BY DEF Conv, Zone
<1>1. ~Conv(sep)
  BY <1>0 DEF Seps
<1>2. /\ format[1] = "%d" /\ format[2] = ":" /\ format[3] = "%d"
      /\ format[4] = ":" /\ format[5] = "%d" /\ format[6] = " "
      /\ format[7] = Zone /\ format[8] = " " /\ format[9] = "%d"
      /\ format[10] = sep /\ format[11] = "%s" /\ format[12] = sep
      /\ format[13] = "%d"
  BY DEF ClockFirst
<1>3. /\ c[1] = 1 /\ c[2] = c[1] /\ c[3] = c[2] + 1 /\ c[4] = c[3]
      /\ c[5] = c[4] + 1 /\ c[6] = c[5] /\ c[7] = c[6] /\ c[8] = c[7]
      /\ c[9] = c[8] + 1 /\ c[10] = c[9] /\ c[11] = c[10] + 1 /\ c[12] = c[11]
      /\ c[13] = c[12] + 1
  BY DEF ClockFirstCount
<1>4. c \in Seq(Nat) /\ Len(c) = 13
  BY DEF ClockFirstCount
<1>8. Len(format) = 13
  BY DEF ClockFirst
<1> HIDE DEF format, c
<1>5. /\ Conv(format[1]) /\ ~Conv(format[2]) /\ Conv(format[3])
      /\ ~Conv(format[4]) /\ Conv(format[5]) /\ ~Conv(format[6])
      /\ ~Conv(format[7]) /\ ~Conv(format[8]) /\ Conv(format[9])
      /\ ~Conv(format[10]) /\ Conv(format[11]) /\ ~Conv(format[12])
      /\ Conv(format[13])
  BY <1>0, <1>1, <1>2, Zenon
<1>6. ASSUME NEW i \in 1 .. 12 PROVE Counts(format, c, i)
  <2>1. i \in {1, 2, 3, 4, 5, 6, 7, 8, 9, 10, 11, 12}
    OBVIOUS
  <2> QED BY <1>3, <1>5, <2>1 DEF Counts
<1>7. Len(c) = Len(format) /\ Len(c) # 0 /\ Len(c) - 1 = 12
  BY <1>4, <1>8
<1> QED BY <1>3, <1>4, <1>5, <1>6, <1>7, NumberingIs DEF format, c

LEMMA WeekdayFirstNumbered ==
  ASSUME NEW sep \in Seps
  PROVE  Numbering(Count(WeekdayFirstCount), WeekdayFirst(sep))
<1> DEFINE format == WeekdayFirst(sep)
           c == WeekdayFirstCount
<1>0. /\ ~Conv("-") /\ ~Conv(" ") /\ ~Conv(":") /\ ~Conv(Zone) /\ ~Conv(",")
      /\ Conv("%d") /\ Conv("%s")
  BY DEF Conv, Zone
<1>1. ~Conv(sep)
  BY <1>0 DEF Seps
<1>2. /\ format[1] = "%s" /\ format[2] = "," /\ format[3] = " "
      /\ format[4] = "%d" /\ format[5] = sep /\ format[6] = "%s"
      /\ format[7] = sep /\ format[8] = "%d" /\ format[9] = " "
      /\ format[10] = "%d" /\ format[11] = ":" /\ format[12] = "%d"
      /\ format[13] = ":" /\ format[14] = "%d" /\ format[15] = " "
      /\ format[16] = Zone
  BY DEF WeekdayFirst
<1>3. /\ c[1] = 1 /\ c[2] = c[1] /\ c[3] = c[2] /\ c[4] = c[3] + 1
      /\ c[5] = c[4] /\ c[6] = c[5] + 1 /\ c[7] = c[6] /\ c[8] = c[7] + 1
      /\ c[9] = c[8] /\ c[10] = c[9] + 1 /\ c[11] = c[10] /\ c[12] = c[11] + 1
      /\ c[13] = c[12] /\ c[14] = c[13] + 1 /\ c[15] = c[14] /\ c[16] = c[15]
  BY DEF WeekdayFirstCount
<1>4. c \in Seq(Nat) /\ Len(c) = 16
  BY DEF WeekdayFirstCount
<1>8. Len(format) = 16
  BY DEF WeekdayFirst
<1> HIDE DEF format, c
<1>5. /\ Conv(format[1]) /\ ~Conv(format[2]) /\ ~Conv(format[3])
      /\ Conv(format[4]) /\ ~Conv(format[5]) /\ Conv(format[6])
      /\ ~Conv(format[7]) /\ Conv(format[8]) /\ ~Conv(format[9])
      /\ Conv(format[10]) /\ ~Conv(format[11]) /\ Conv(format[12])
      /\ ~Conv(format[13]) /\ Conv(format[14]) /\ ~Conv(format[15])
      /\ ~Conv(format[16])
  BY <1>0, <1>1, <1>2, Zenon
<1>6. ASSUME NEW i \in 1 .. 15 PROVE Counts(format, c, i)
  <2>1. i \in {1, 2, 3, 4, 5, 6, 7, 8, 9, 10, 11, 12, 13, 14, 15}
    OBVIOUS
  <2> QED BY <1>3, <1>5, <2>1 DEF Counts
<1>7. Len(c) = Len(format) /\ Len(c) # 0 /\ Len(c) - 1 = 15
  BY <1>4, <1>8
<1> QED BY <1>3, <1>4, <1>5, <1>6, <1>7, NumberingIs DEF format, c

LEMMA YearLastNumbered == Numbering(Count(YearLastCount), YearLast)
<1> DEFINE format == YearLast
           c == YearLastCount
<1>0. /\ ~Conv("-") /\ ~Conv(" ") /\ ~Conv(":") /\ ~Conv(Zone) /\ ~Conv(",")
      /\ Conv("%d") /\ Conv("%s")
  BY DEF Conv, Zone
<1>2. /\ format[1] = "%s" /\ format[2] = " " /\ format[3] = "%s"
      /\ format[4] = " " /\ format[5] = "%d" /\ format[6] = " "
      /\ format[7] = "%d" /\ format[8] = ":" /\ format[9] = "%d"
      /\ format[10] = ":" /\ format[11] = "%d" /\ format[12] = " "
      /\ format[13] = Zone /\ format[14] = " " /\ format[15] = "%d"
  BY DEF YearLast
<1>3. /\ c[1] = 1 /\ c[2] = c[1] /\ c[3] = c[2] + 1 /\ c[4] = c[3]
      /\ c[5] = c[4] + 1 /\ c[6] = c[5] /\ c[7] = c[6] + 1 /\ c[8] = c[7]
      /\ c[9] = c[8] + 1 /\ c[10] = c[9] /\ c[11] = c[10] + 1 /\ c[12] = c[11]
      /\ c[13] = c[12] /\ c[14] = c[13] /\ c[15] = c[14] + 1
  BY DEF YearLastCount
<1>4. c \in Seq(Nat) /\ Len(c) = 15
  BY DEF YearLastCount
<1>8. Len(format) = 15
  BY DEF YearLast
<1> HIDE DEF format, c
<1>5. /\ Conv(format[1]) /\ ~Conv(format[2]) /\ Conv(format[3])
      /\ ~Conv(format[4]) /\ Conv(format[5]) /\ ~Conv(format[6])
      /\ Conv(format[7]) /\ ~Conv(format[8]) /\ Conv(format[9])
      /\ ~Conv(format[10]) /\ Conv(format[11]) /\ ~Conv(format[12])
      /\ ~Conv(format[13]) /\ ~Conv(format[14]) /\ Conv(format[15])
  BY <1>0, <1>2, Zenon
<1>6. ASSUME NEW i \in 1 .. 14 PROVE Counts(format, c, i)
  <2>1. i \in {1, 2, 3, 4, 5, 6, 7, 8, 9, 10, 11, 12, 13, 14}
    OBVIOUS
  <2> QED BY <1>3, <1>5, <2>1 DEF Counts
<1>7. Len(c) = Len(format) /\ Len(c) # 0 /\ Len(c) - 1 = 14
  BY <1>4, <1>8
<1> QED BY <1>3, <1>4, <1>5, <1>6, <1>7, NumberingIs DEF format, c

(***************************************************************************)
(* The texts of a date, and what sscanf reads of them.                     *)
(***************************************************************************)
Blank == " "
Numeral(z) == z \in Tok /\ z.w = "%d"
Named(z) == z \in Tok /\ IsWord(z)

LEMMA FittingRight ==
  /\ \A z : Numeral(z) => z \in Tok /\ Fitting("%d", z)
  /\ \A z : Named(z) => z \in Tok /\ Fitting("%s", z)
  /\ \A x \in Signs : Token(x) \in Tok /\ Fitting(x, Token(x))
<1>1. \A z : Numeral(z) => z \in Tok /\ Fitting("%d", z)
  BY DEF Numeral, Fitting
<1>2. \A z : Named(z) => z \in Tok /\ Fitting("%s", z)
  BY DEF Named, Fitting
<1>3. ASSUME NEW x \in Signs PROVE Token(x) \in Tok /\ Fitting(x, Token(x))
  <2>1. x # "%s"
    BY <1>3 DEF Signs, Zone
  <2>2. Token(x).w = x
    BY DEF Token
  <2>3. Token(x) \in Tok
    BY DEF Token, Tok
  <2> QED BY <2>1, <2>2, <2>3 DEF Fitting
<1> QED BY <1>1, <1>2, <1>3

\* A word is no number, and one sign is not another, nor is ":" a word.
LEMMA NotFitting ==
  /\ \A z : Named(z) => Refused("%d", z)
  /\ \A x, y \in Signs : x # y /\ x # " " => Refused(x, Token(y))
  /\ Refused("%s", Token(":")) /\ Token(":").w # " "
<1>1. ASSUME NEW x \in Signs, NEW y \in Signs, x # y, x # " "
      PROVE  Refused(x, Token(y))
  <2>1. x # "%s" /\ x # "%d"
    BY DEF Signs, Zone
  <2>2. Token(y).w = y
    BY DEF Token
  <2> QED BY <1>1, <2>1, <2>2 DEF Fitting, Refused
<1> DEFINE W == ToSet(Words)
<1>2. "%d" \notin W /\ " " \notin W /\ ":" \notin W
  <2>1. WordPlace("%d") = 0 /\ WordPlace(" ") = 0 /\ WordPlace(":") = 0
    BY DEF WordPlace
  <2>2. ASSUME NEW w \in W PROVE WordPlace(w) # 0
    <3>1. PICK i \in DOMAIN Words : Words[i] = w
      BY DEF ToSet
    <3>2. WordPlace(w) = i /\ i \in 1 .. 38
      BY <3>1, WordsAre
    <3> QED BY <3>2
  <2> HIDE DEF W
  <2> QED BY <2>1, <2>2
<1> HIDE DEF W
<1>3. ASSUME NEW z, Named(z) PROVE Refused("%d", z)
  <2>1. z.w \in W
    BY <1>3 DEF Named, IsWord, W
  <2>2. z.w # "%d" /\ z.w # " "
    BY <1>2, <2>1
  <2> QED BY <2>2 DEF Fitting, Refused
<1>4. Refused("%s", Token(":")) /\ Token(":").w # " "
  <2>1. Token(":").w = ":"
    BY DEF Token
  <2> QED BY <1>2, <2>1 DEF Fitting, Refused, IsWord, W
<1> QED BY <1>1, <1>3, <1>4

Fields(W, D, M, Y, H, I, S) ==
  /\ Named(W) /\ Named(M)
  /\ Numeral(D) /\ Numeral(Y) /\ Numeral(H) /\ Numeral(I) /\ Numeral(S)

\* The values that are read of a text.
ReadsSix(format, text, a, b, c, d, e, f) ==
  /\ text \in Seq(Tok) /\ Len(Sscanf(format, text)) = 6
  /\ Sscanf(format, text)[1] = a /\ Sscanf(format, text)[2] = b
  /\ Sscanf(format, text)[3] = c /\ Sscanf(format, text)[4] = d
  /\ Sscanf(format, text)[5] = e /\ Sscanf(format, text)[6] = f
ReadsSeven(format, text, a, b, c, d, e, f, g) ==
  /\ text \in Seq(Tok) /\ Len(Sscanf(format, text)) = 7
  /\ Sscanf(format, text)[1] = a /\ Sscanf(format, text)[2] = b
  /\ Sscanf(format, text)[3] = c /\ Sscanf(format, text)[4] = d
  /\ Sscanf(format, text)[5] = e /\ Sscanf(format, text)[6] = f
  /\ Sscanf(format, text)[7] = g

DayFirstText(sep, D, M, Y, H, I, S) ==
  <<D, Token(sep), M, Token(sep), Y, Token(" "), H, Token(":"), I, Token(":"),
    S, Token(" "), Token(Zone)>>
ClockFirstText(sep, D, M, Y, H, I, S) ==
  <<H, Token(":"), I, Token(":"), S, Token(" "), Token(Zone), Token(" "), D,
    Token(sep), M, Token(sep), Y>>
WeekdayFirstText(sep, W, D, M, Y, H, I, S) ==
  <<W, Token(","), Token(" "), D, Token(sep), M, Token(sep), Y, Token(" "), H,
    Token(":"), I, Token(":"), S, Token(" "), Token(Zone)>>
YearLastText(W, D, M, Y, H, I, S) ==
  <<W, Token(" "), M, Token(" "), D, Token(" "), H, Token(":"), I, Token(":"),
    S, Token(" "), Token(Zone), Token(" "), Y>>

LEMMA DayFirstReads ==
  ASSUME NEW sep \in Seps, NEW W, NEW D, NEW M, NEW Y, NEW H, NEW I, NEW S,
         Fields(W, D, M, Y, H, I, S)
  PROVE  ReadsSix(DayFirst(sep),
                   DayFirstText(sep, D, M, Y, H, I, S), D, M, Y, H, I, S)
<1> DEFINE format == DayFirst(sep)
           text == DayFirstText(sep, D, M, Y, H, I, S)
           c == DayFirstCount
           v == Sscanf(format, text)
<1>1. sep \in Signs /\ " " \in Signs /\ ":" \in Signs /\ "," \in Signs /\ Zone \in Signs
  BY DEF Seps, Signs
<1>2. Numeral(D) /\ Named(M) /\ Numeral(Y) /\ Numeral(H) /\ Numeral(I)
      /\ Numeral(S) /\ Named(W)
  BY DEF Fields
<1>3. /\ format[1] = "%d" /\ format[2] = sep /\ format[3] = "%s"
      /\ format[4] = sep /\ format[5] = "%d" /\ format[6] = " "
      /\ format[7] = "%d" /\ format[8] = ":" /\ format[9] = "%d"
      /\ format[10] = ":" /\ format[11] = "%d" /\ format[12] = " "
      /\ format[13] = Zone
  BY DEF DayFirst
<1>4. Len(format) = 13
  BY DEF DayFirst
<1>5. /\ text[1] = D /\ text[2] = Token(sep) /\ text[3] = M
      /\ text[4] = Token(sep) /\ text[5] = Y /\ text[6] = Token(" ")
      /\ text[7] = H /\ text[8] = Token(":") /\ text[9] = I
      /\ text[10] = Token(":") /\ text[11] = S /\ text[12] = Token(" ")
      /\ text[13] = Token(Zone)
  BY DEF DayFirstText
<1>6. text \in Seq(Tok) /\ Len(text) = 13
  <2> DEFINE Z == Token(Zone)
             b == Token(" ")
             K == Token(":")
             s == Token(sep)
  <2>1. /\ D \in Tok /\ M \in Tok /\ Y \in Tok /\ H \in Tok /\ I \in Tok /\ S \in Tok
        /\ Z \in Tok /\ b \in Tok /\ K \in Tok /\ s \in Tok
    BY <1>1, <1>2, FittingRight, Zenon
  <2>2. text = <<D, s, M, s, Y, b, H, K, I, K, S, b, Z>>
    BY DEF DayFirstText
  <2> HIDE DEF text, Z, b, K, s
  <2> QED BY <2>1, <2>2
<1>7. /\ c[1] = 1 /\ c[3] = 2 /\ c[5] = 3 /\ c[7] = 4 /\ c[9] = 5 /\ c[11] = 6
      /\ Len(c) = 13 /\ c[13] = 6
  BY DEF DayFirstCount
<1>8. Numbering(Count(c), format)
  BY DayFirstNumbered
<1> HIDE DEF format, text, c
<1>9. /\ Fitting(format[1], text[1]) /\ Fitting(format[2], text[2])
      /\ Fitting(format[3], text[3]) /\ Fitting(format[4], text[4])
      /\ Fitting(format[5], text[5]) /\ Fitting(format[6], text[6])
      /\ Fitting(format[7], text[7]) /\ Fitting(format[8], text[8])
      /\ Fitting(format[9], text[9]) /\ Fitting(format[10], text[10])
      /\ Fitting(format[11], text[11]) /\ Fitting(format[12], text[12])
      /\ Fitting(format[13], text[13])
  BY <1>1, <1>2, <1>3, <1>5, FittingRight, Zenon
<1>10. /\ Conv(format[1]) /\ Conv(format[3]) /\ Conv(format[5]) /\ Conv(format[7])
      /\ Conv(format[9]) /\ Conv(format[11])
  <2>1. Conv("%d") /\ Conv("%s")
    BY DEF Conv
  <2> QED BY <1>3, <2>1, Zenon
<1>11. Along(format, text, Len(format))
  <2>1. \A i \in 1 .. 13 : i \in {1, 2, 3, 4, 5, 6, 7, 8, 9, 10, 11, 12, 13}
    OBVIOUS
  <2>2. \A i \in 1 .. 13 : Fitting(format[i], text[i])
    BY <1>9, <2>1
  <2> QED BY <1>4, <1>6, <2>2 DEF Along
<1> DEFINE cnt == Count(c)
<1>12. /\ Len(v) = cnt[Len(format)]
       /\ \A j \in 1 .. Len(format) : Conv(format[j]) => v[cnt[j]] = text[j]
  <2> HIDE DEF cnt
  <2>1. Numbering(cnt, format) /\ text \in Seq(Tok)
    BY <1>6, <1>8 DEF cnt
  <2> QED BY <1>11, <2>1, ReadsAll
<1> HIDE DEF v
<1>13. /\ Count(c)[1] = 1 /\ Count(c)[3] = 2 /\ Count(c)[5] = 3
       /\ Count(c)[7] = 4 /\ Count(c)[9] = 5 /\ Count(c)[11] = 6
       /\ Count(c)[13] = 6
  BY <1>7 DEF Count
<1>14. /\ v[1] = text[1] /\ v[2] = text[3] /\ v[3] = text[5] /\ v[4] = text[7]
       /\ v[5] = text[9] /\ v[6] = text[11]
  BY <1>4, <1>10, <1>12, <1>13
<1>15. Len(v) = 6
  BY <1>4, <1>12, <1>13
<1>16. /\ v[1] = D /\ v[2] = M /\ v[3] = Y /\ v[4] = H /\ v[5] = I /\ v[6] = S
  BY <1>5, <1>14, Zenon
<1> QED BY <1>6, <1>15, <1>16 DEF v, format, text, ReadsSix

LEMMA ClockFirstReads ==
  ASSUME NEW sep \in Seps, NEW W, NEW D, NEW M, NEW Y, NEW H, NEW I, NEW S,
         Fields(W, D, M, Y, H, I, S)
  PROVE  ReadsSix(ClockFirst(sep),
                   ClockFirstText(sep, D, M, Y, H, I, S), H, I, S, D, M, Y)
<1> DEFINE format == ClockFirst(sep)
           text == ClockFirstText(sep, D, M, Y, H, I, S)
           c == ClockFirstCount
           v == Sscanf(format, text)
<1>1. sep \in Signs /\ " " \in Signs /\ ":" \in Signs /\ "," \in Signs /\ Zone \in Signs
  BY DEF Seps, Signs
<1>2. Numeral(D) /\ Named(M) /\ Numeral(Y) /\ Numeral(H) /\ Numeral(I)
      /\ Numeral(S) /\ Named(W)
  BY DEF Fields
<1>3. /\ format[1] = "%d" /\ format[2] = ":" /\ format[3] = "%d"
      /\ format[4] = ":" /\ format[5] = "%d" /\ format[6] = " "
      /\ format[7] = Zone /\ format[8] = " " /\ format[9] = "%d"
      /\ format[10] = sep /\ format[11] = "%s" /\ format[12] = sep
      /\ format[13] = "%d"
  BY DEF ClockFirst
<1>4. Len(format) = 13
  BY DEF ClockFirst
<1>5. /\ text[1] = H /\ text[2] = Token(":") /\ text[3] = I
      /\ text[4] = Token(":") /\ text[5] = S /\ text[6] = Token(" ")
      /\ text[7] = Token(Zone) /\ text[8] = Token(" ") /\ text[9] = D
      /\ text[10] = Token(sep) /\ text[11] = M /\ text[12] = Token(sep)
      /\ text[13] = Y
  BY DEF ClockFirstText
<1>6. text \in Seq(Tok) /\ Len(text) = 13
  <2> DEFINE Z == Token(Zone)
             b == Token(" ")
             K == Token(":")
             s == Token(sep)
  <2>1. /\ D \in Tok /\ M \in Tok /\ Y \in Tok /\ H \in Tok /\ I \in Tok /\ S \in Tok
        /\ Z \in Tok /\ b \in Tok /\ K \in Tok /\ s \in Tok
    BY <1>1, <1>2, FittingRight, Zenon
  <2>2. text = <<H, K, I, K, S, b, Z, b, D, s, M, s, Y>>
    BY DEF ClockFirstText
  <2> HIDE DEF text, Z, b, K, s
  <2> QED BY <2>1, <2>2
<1>7. /\ c[1] = 1 /\ c[3] = 2 /\ c[5] = 3 /\ c[9] = 4 /\ c[11] = 5 /\ c[13] = 6
      /\ Len(c) = 13
  BY DEF ClockFirstCount
<1>8. Numbering(Count(c), format)
  BY ClockFirstNumbered
<1> HIDE DEF format, text, c
<1>9. /\ Fitting(format[1], text[1]) /\ Fitting(format[2], text[2])
      /\ Fitting(format[3], text[3]) /\ Fitting(format[4], text[4])
      /\ Fitting(format[5], text[5]) /\ Fitting(format[6], text[6])
      /\ Fitting(format[7], text[7]) /\ Fitting(format[8], text[8])
      /\ Fitting(format[9], text[9]) /\ Fitting(format[10], text[10])
      /\ Fitting(format[11], text[11]) /\ Fitting(format[12], text[12])
      /\ Fitting(format[13], text[13])
  BY <1>1, <1>2, <1>3, <1>5, FittingRight, Zenon
<1>10. /\ Conv(format[1]) /\ Conv(format[3]) /\ Conv(format[5]) /\ Conv(format[9])
      /\ Conv(format[11]) /\ Conv(format[13])
  <2>1. Conv("%d") /\ Conv("%s")
    BY DEF Conv
  <2> QED BY <1>3, <2>1, Zenon
<1>11. Along(format, text, Len(format))
  <2>1. \A i \in 1 .. 13 : i \in {1, 2, 3, 4, 5, 6, 7, 8, 9, 10, 11, 12, 13}
    OBVIOUS
  <2>2. \A i \in 1 .. 13 : Fitting(format[i], text[i])
    BY <1>9, <2>1
  <2> QED BY <1>4, <1>6, <2>2 DEF Along
<1> DEFINE cnt == Count(c)
<1>12. /\ Len(v) = cnt[Len(format)]
       /\ \A j \in 1 .. Len(format) : Conv(format[j]) => v[cnt[j]] = text[j]
  <2> HIDE DEF cnt
  <2>1. Numbering(cnt, format) /\ text \in Seq(Tok)
    BY <1>6, <1>8 DEF cnt
  <2> QED BY <1>11, <2>1, ReadsAll
<1> HIDE DEF v
<1>13. /\ Count(c)[1] = 1 /\ Count(c)[3] = 2 /\ Count(c)[5] = 3
       /\ Count(c)[9] = 4 /\ Count(c)[11] = 5 /\ Count(c)[13] = 6
  BY <1>7 DEF Count
<1>14. /\ v[1] = text[1] /\ v[2] = text[3] /\ v[3] = text[5] /\ v[4] = text[9]
       /\ v[5] = text[11] /\ v[6] = text[13]
  BY <1>4, <1>10, <1>12, <1>13
<1>15. Len(v) = 6
  BY <1>4, <1>12, <1>13
<1>16. /\ v[1] = H /\ v[2] = I /\ v[3] = S /\ v[4] = D /\ v[5] = M /\ v[6] = Y
  BY <1>5, <1>14, Zenon
<1> QED BY <1>6, <1>15, <1>16 DEF v, format, text, ReadsSix

LEMMA WeekdayFirstReads ==
  ASSUME NEW sep \in Seps, NEW W, NEW D, NEW M, NEW Y, NEW H, NEW I, NEW S,
         Fields(W, D, M, Y, H, I, S)
  PROVE  ReadsSeven(WeekdayFirst(sep),
                   WeekdayFirstText(sep, W, D, M, Y, H, I, S), W, D, M, Y, H, I, S)
<1> DEFINE format == WeekdayFirst(sep)
           text == WeekdayFirstText(sep, W, D, M, Y, H, I, S)
           c == WeekdayFirstCount
           v == Sscanf(format, text)
<1>1. sep \in Signs /\ " " \in Signs /\ ":" \in Signs /\ "," \in Signs /\ Zone \in Signs
  BY DEF Seps, Signs
<1>2. Numeral(D) /\ Named(M) /\ Numeral(Y) /\ Numeral(H) /\ Numeral(I)
      /\ Numeral(S) /\ Named(W)
  BY DEF Fields
<1>3. /\ format[1] = "%s" /\ format[2] = "," /\ format[3] = " "
      /\ format[4] = "%d" /\ format[5] = sep /\ format[6] = "%s"
      /\ format[7] = sep /\ format[8] = "%d" /\ format[9] = " "
      /\ format[10] = "%d" /\ format[11] = ":" /\ format[12] = "%d"
      /\ format[13] = ":" /\ format[14] = "%d" /\ format[15] = " "
      /\ format[16] = Zone
  BY DEF WeekdayFirst
<1>4. Len(format) = 16
  BY DEF WeekdayFirst
<1>5. /\ text[1] = W /\ text[2] = Token(",") /\ text[3] = Token(" ")
      /\ text[4] = D /\ text[5] = Token(sep) /\ text[6] = M
      /\ text[7] = Token(sep) /\ text[8] = Y /\ text[9] = Token(" ")
      /\ text[10] = H /\ text[11] = Token(":") /\ text[12] = I
      /\ text[13] = Token(":") /\ text[14] = S /\ text[15] = Token(" ")
      /\ text[16] = Token(Zone)
  BY DEF WeekdayFirstText
<1>6. text \in Seq(Tok) /\ Len(text) = 16
  <2> DEFINE Z == Token(Zone)
             b == Token(" ")
             K == Token(":")
             k == Token(",")
             s == Token(sep)
  <2>1. /\ W \in Tok /\ D \in Tok /\ M \in Tok /\ Y \in Tok /\ H \in Tok /\ I \in Tok
        /\ S \in Tok /\ Z \in Tok /\ b \in Tok /\ K \in Tok /\ k \in Tok
        /\ s \in Tok
    BY <1>1, <1>2, FittingRight, Zenon
  <2>2. text = <<W, k, b, D, s, M, s, Y, b, H, K, I, K, S, b, Z>>
    BY DEF WeekdayFirstText
  <2> HIDE DEF text, Z, b, K, k, s
  <2> QED BY <2>1, <2>2
<1>7. /\ c[1] = 1 /\ c[4] = 2 /\ c[6] = 3 /\ c[8] = 4 /\ c[10] = 5 /\ c[12] = 6
      /\ c[14] = 7 /\ Len(c) = 16 /\ c[16] = 7
  BY DEF WeekdayFirstCount
<1>8. Numbering(Count(c), format)
  BY WeekdayFirstNumbered
<1> HIDE DEF format, text, c
<1>9. /\ Fitting(format[1], text[1]) /\ Fitting(format[2], text[2])
      /\ Fitting(format[3], text[3]) /\ Fitting(format[4], text[4])
      /\ Fitting(format[5], text[5]) /\ Fitting(format[6], text[6])
      /\ Fitting(format[7], text[7]) /\ Fitting(format[8], text[8])
      /\ Fitting(format[9], text[9]) /\ Fitting(format[10], text[10])
      /\ Fitting(format[11], text[11]) /\ Fitting(format[12], text[12])
      /\ Fitting(format[13], text[13]) /\ Fitting(format[14], text[14])
      /\ Fitting(format[15], text[15]) /\ Fitting(format[16], text[16])
  BY <1>1, <1>2, <1>3, <1>5, FittingRight, Zenon
<1>10. /\ Conv(format[1]) /\ Conv(format[4]) /\ Conv(format[6]) /\ Conv(format[8])
      /\ Conv(format[10]) /\ Conv(format[12]) /\ Conv(format[14])
  <2>1. Conv("%d") /\ Conv("%s")
    BY DEF Conv
  <2> QED BY <1>3, <2>1, Zenon
<1>11. Along(format, text, Len(format))
  <2>1. \A i \in 1 .. 16 : i \in {1, 2, 3, 4, 5, 6, 7, 8, 9, 10, 11, 12, 13, 14, 15, 16}
    OBVIOUS
  <2>2. \A i \in 1 .. 16 : Fitting(format[i], text[i])
    BY <1>9, <2>1
  <2> QED BY <1>4, <1>6, <2>2 DEF Along
<1> DEFINE cnt == Count(c)
<1>12. /\ Len(v) = cnt[Len(format)]
       /\ \A j \in 1 .. Len(format) : Conv(format[j]) => v[cnt[j]] = text[j]
  <2> HIDE DEF cnt
  <2>1. Numbering(cnt, format) /\ text \in Seq(Tok)
    BY <1>6, <1>8 DEF cnt
  <2> QED BY <1>11, <2>1, ReadsAll
<1> HIDE DEF v
<1>13. /\ Count(c)[1] = 1 /\ Count(c)[4] = 2 /\ Count(c)[6] = 3
       /\ Count(c)[8] = 4 /\ Count(c)[10] = 5 /\ Count(c)[12] = 6
       /\ Count(c)[14] = 7 /\ Count(c)[16] = 7
  BY <1>7 DEF Count
<1>14. /\ v[1] = text[1] /\ v[2] = text[4] /\ v[3] = text[6] /\ v[4] = text[8]
       /\ v[5] = text[10] /\ v[6] = text[12] /\ v[7] = text[14]
  BY <1>4, <1>10, <1>12, <1>13
<1>15. Len(v) = 7
  BY <1>4, <1>12, <1>13
<1>16. /\ v[1] = W /\ v[2] = D /\ v[3] = M /\ v[4] = Y /\ v[5] = H /\ v[6] = I
       /\ v[7] = S
  BY <1>5, <1>14, Zenon
<1> QED BY <1>6, <1>15, <1>16 DEF v, format, text, ReadsSeven

LEMMA YearLastReads ==
  ASSUME NEW W, NEW D, NEW M, NEW Y, NEW H, NEW I, NEW S,
         Fields(W, D, M, Y, H, I, S)
  PROVE  ReadsSeven(YearLast,
                   YearLastText(W, D, M, Y, H, I, S), W, M, D, H, I, S, Y)
<1> DEFINE format == YearLast
           text == YearLastText(W, D, M, Y, H, I, S)
           c == YearLastCount
           v == Sscanf(format, text)
<1>1. TRUE /\ " " \in Signs /\ ":" \in Signs /\ "," \in Signs /\ Zone \in Signs
  BY DEF Seps, Signs
<1>2. Numeral(D) /\ Named(M) /\ Numeral(Y) /\ Numeral(H) /\ Numeral(I)
      /\ Numeral(S) /\ Named(W)
  BY DEF Fields
<1>3. /\ format[1] = "%s" /\ format[2] = " " /\ format[3] = "%s"
      /\ format[4] = " " /\ format[5] = "%d" /\ format[6] = " "
      /\ format[7] = "%d" /\ format[8] = ":" /\ format[9] = "%d"
      /\ format[10] = ":" /\ format[11] = "%d" /\ format[12] = " "
      /\ format[13] = Zone /\ format[14] = " " /\ format[15] = "%d"
  BY DEF YearLast
<1>4. Len(format) = 15
  BY DEF YearLast
<1>5. /\ text[1] = W /\ text[2] = Token(" ") /\ text[3] = M
      /\ text[4] = Token(" ") /\ text[5] = D /\ text[6] = Token(" ")
      /\ text[7] = H /\ text[8] = Token(":") /\ text[9] = I
      /\ text[10] = Token(":") /\ text[11] = S /\ text[12] = Token(" ")
      /\ text[13] = Token(Zone) /\ text[14] = Token(" ") /\ text[15] = Y
  BY DEF YearLastText
<1>6. text \in Seq(Tok) /\ Len(text) = 15
  <2> DEFINE Z == Token(Zone)
             b == Token(" ")
             K == Token(":")
  <2>1. /\ W \in Tok /\ D \in Tok /\ M \in Tok /\ Y \in Tok /\ H \in Tok /\ I \in Tok
        /\ S \in Tok /\ Z \in Tok /\ b \in Tok /\ K \in Tok
    BY <1>1, <1>2, FittingRight, Zenon
  <2>2. text = <<W, b, M, b, D, b, H, K, I, K, S, b, Z, b, Y>>
    BY DEF YearLastText
  <2> HIDE DEF text, Z, b, K
  <2> QED BY <2>1, <2>2
<1>7. /\ c[1] = 1 /\ c[3] = 2 /\ c[5] = 3 /\ c[7] = 4 /\ c[9] = 5 /\ c[11] = 6
      /\ c[15] = 7 /\ Len(c) = 15
  BY DEF YearLastCount
<1>8. Numbering(Count(c), format)
  BY YearLastNumbered
<1> HIDE DEF format, text, c
<1>9. /\ Fitting(format[1], text[1]) /\ Fitting(format[2], text[2])
      /\ Fitting(format[3], text[3]) /\ Fitting(format[4], text[4])
      /\ Fitting(format[5], text[5]) /\ Fitting(format[6], text[6])
      /\ Fitting(format[7], text[7]) /\ Fitting(format[8], text[8])
      /\ Fitting(format[9], text[9]) /\ Fitting(format[10], text[10])
      /\ Fitting(format[11], text[11]) /\ Fitting(format[12], text[12])
      /\ Fitting(format[13], text[13]) /\ Fitting(format[14], text[14])
      /\ Fitting(format[15], text[15])
  BY <1>1, <1>2, <1>3, <1>5, FittingRight, Zenon
<1>10. /\ Conv(format[1]) /\ Conv(format[3]) /\ Conv(format[5]) /\ Conv(format[7])
      /\ Conv(format[9]) /\ Conv(format[11]) /\ Conv(format[15])
  <2>1. Conv("%d") /\ Conv("%s")
    BY DEF Conv
  <2> QED BY <1>3, <2>1, Zenon
<1>11. Along(format, text, Len(format))
  <2>1. \A i \in 1 .. 15 : i \in {1, 2, 3, 4, 5, 6, 7, 8, 9, 10, 11, 12, 13, 14, 15}
    OBVIOUS
  <2>2. \A i \in 1 .. 15 : Fitting(format[i], text[i])
    BY <1>9, <2>1
  <2> QED BY <1>4, <1>6, <2>2 DEF Along
<1> DEFINE cnt == Count(c)
<1>12. /\ Len(v) = cnt[Len(format)]
       /\ \A j \in 1 .. Len(format) : Conv(format[j]) => v[cnt[j]] = text[j]
  <2> HIDE DEF cnt
  <2>1. Numbering(cnt, format) /\ text \in Seq(Tok)
    BY <1>6, <1>8 DEF cnt
  <2> QED BY <1>11, <2>1, ReadsAll
<1> HIDE DEF v
<1>13. /\ Count(c)[1] = 1 /\ Count(c)[3] = 2 /\ Count(c)[5] = 3
       /\ Count(c)[7] = 4 /\ Count(c)[9] = 5 /\ Count(c)[11] = 6
       /\ Count(c)[15] = 7
  BY <1>7 DEF Count
<1>14. /\ v[1] = text[1] /\ v[2] = text[3] /\ v[3] = text[5] /\ v[4] = text[7]
       /\ v[5] = text[9] /\ v[6] = text[11] /\ v[7] = text[15]
  BY <1>4, <1>10, <1>12, <1>13
<1>15. Len(v) = 7
  BY <1>4, <1>12, <1>13
<1>16. /\ v[1] = W /\ v[2] = M /\ v[3] = D /\ v[4] = H /\ v[5] = I /\ v[6] = S
       /\ v[7] = Y
  BY <1>5, <1>14, Zenon
<1> QED BY <1>6, <1>15, <1>16 DEF v, format, text, ReadsSeven

(***************************************************************************)
(* What an earlier format reads of a later one's text.                     *)
(***************************************************************************)
\* The first item of the format refuses the first token.
LEMMA ReadsNone ==
  ASSUME NEW format, NEW cnt, Numbering(cnt, format), NEW text \in Seq(Tok),
         0 < Len(format), 0 < Len(text), Refused(format[1], text[1])
  PROVE  Len(Sscanf(format, text)) = 0
<1>1. cnt[0] = 0 /\ Len(format) \in Nat
  BY DEF Numbering
<1>2. Along(format, text, 0) /\ 1 = 0 + 1
  BY <1>1 DEF Along
<1> QED BY <1>1, <1>2, ReadsUpTo

\* The second one refuses the second, behind a conversion.
LEMMA ReadsOne ==
  ASSUME NEW format, NEW cnt, Numbering(cnt, format), NEW text \in Seq(Tok),
         1 < Len(format), 1 < Len(text), Conv(format[1]),
         Fitting(format[1], text[1]), Refused(format[2], text[2])
  PROVE  Len(Sscanf(format, text)) = 1
<1>1. cnt[1] = 1 /\ Len(format) \in Nat
  BY DEF Numbering
<1>2. Along(format, text, 1)
  BY <1>1 DEF Along
<1> DEFINE p == 1
           q == 2
<1>3. /\ Along(format, text, p) /\ q = p + 1 /\ p < Len(format) /\ p < Len(text)
      /\ Refused(format[q], text[q])
  BY <1>2
<1> HIDE DEF p, q
<1>4. Len(Sscanf(format, text)) = cnt[p]
  BY <1>3, ReadsUpTo
<1> QED BY <1>1, <1>4 DEF p

\* A blank of the format takes no colon, and the word behind it is none.
Colon(z) == z = Token(":")

LEMMA WordWanted ==
  ASSUME NEW text \in Seq(Tok), 1 < Len(text), Numeral(text[1]), Colon(text[2])
  PROVE  Len(Sscanf(DayFirst(Blank), text)) = 1
<1> DEFINE format == DayFirst(" ")
           cnt == Count(DayFirstCount)
           f == SscanfSteps(format, text)
           b == " "
           s == "%s"
<1>1. Numbering(cnt, format)
  <2>1. " " \in Seps
    BY DEF Seps
  <2> QED BY <2>1, DayFirstNumbered
<1>2. format[1] = "%d" /\ format[2] = b /\ format[3] = s
  BY DEF DayFirst
<1>3. Len(format) = 13
  BY DEF DayFirst
<1> HIDE DEF format, cnt
<1>4. Conv(format[1]) /\ Fitting(format[1], text[1])
  <2>1. Conv("%d")
    BY DEF Conv
  <2>2. Fitting("%d", text[1])
    BY FittingRight
  <2> QED BY <1>2, <2>1, <2>2, Zenon
<1>5. /\ ~Fitting(s, text[2]) /\ s # b /\ (s = "%d" => text[2].w # " ")
  BY NotFitting, Zenon DEF Refused, Colon
<1> HIDE DEF f, b, s
<1>6. cnt[1] = 1
  BY <1>1, <1>3, <1>4 DEF Numbering
<1>7. Along(format, text, 1)
  BY <1>3, <1>4 DEF Along
<1>8. f[1].at = 2 /\ f[1].going /\ Len(f[1].values) = 1
  <2> DEFINE p == 1
  <2>1. Along(format, text, p)
    BY <1>7
  <2> HIDE DEF p
  <2>2. f[p].at = p + 1 /\ f[p].going /\ Len(f[p].values) = cnt[p]
    BY <1>1, <2>1, AlongRight DEF f
  <2> QED BY <1>6, <2>2 DEF p
<1>9. /\ \A i \in 1 .. 13 : f[i] = Scan(f[i - 1], format[i], text)
      /\ \A i \in 0 .. 13 : f[i] \in ScanState
  <2>1. Len(format) \in Nat
    BY <1>3
  <2>2. /\ \A i \in 1 .. Len(format) : f[i] = Scan(f[i - 1], format[i], text)
        /\ \A i \in 0 .. Len(format) : f[i] \in ScanState
    BY <2>1, SscanfStepsRight, Zenon DEF f
  <2> QED BY <1>3, <2>2
<1>10. f[2] = Scan(f[1], b, text) /\ f[3] = Scan(f[2], s, text)
  <2>1. /\ f[2] = Scan(f[2 - 1], format[2], text)
        /\ f[3] = Scan(f[3 - 1], format[3], text)
    BY <1>9
  <2> QED BY <1>2, <2>1
<1>11. f[1] \in ScanState /\ f[2] \in ScanState /\ f[3] \in ScanState
  BY <1>9
<1>12. f[2] = [f[1] EXCEPT !.at = 2]
  <2>1. WordAt(text, 2) = text[2].w
    BY WordIs
  <2>2. WordAt(text, 2) # " "
    BY <2>1, NotFitting, Zenon DEF Colon
  <2> QED BY <1>8, <1>10, <2>2, Zenon DEF Scan, b
<1>13. f[2].at = 2 /\ f[2].going /\ f[2].values = f[1].values
  BY <1>8, <1>11, <1>12 DEF ScanState
<1>14. f[3] = [f[2] EXCEPT !.going = FALSE]
  <2>1. 2 \in 1 .. Len(text)
    OBVIOUS
  <2>2. s # " "
    BY <1>5 DEF b
  <2>3. f[2].at \in 1 .. Len(text) /\ ~Fitting(s, text[f[2].at])
    BY <1>5, <1>13, <2>1
  <2>4. s = "%d" => text[f[2].at].w # " "
    BY <1>5, <1>13, Zenon
  <2>5. Scan(f[2], s, text) = [f[2] EXCEPT !.going = FALSE]
    <3> DEFINE st == f[2]
    <3>1. /\ st \in ScanState /\ st.going /\ st.at \in 1 .. Len(text)
          /\ ~Fitting(s, text[st.at])
      BY <1>11, <1>13, <2>3
    <3>2. s = "%d" => text[st.at].w # " "
      BY <2>4
    <3> HIDE DEF st
    <3>3. Scan(st, s, text) = [st EXCEPT !.going = FALSE]
      BY <2>2, <3>1, <3>2, ScanFails, Zenon
    <3> QED BY <3>3 DEF st
  <2> QED BY <1>10, <2>5, Zenon
<1>15. ~f[3].going /\ f[3].values = f[1].values
  BY <1>11, <1>13, <1>14 DEF ScanState
<1>16. Sscanf(format, text) = f[3].values
  <2>1. 3 \in 0 .. Len(format) /\ Len(format) \in Nat
    BY <1>3
  <2> QED BY <1>15, <2>1, ReadsNoMore DEF f
<1>17. Len(Sscanf(format, text)) = 1
  BY <1>8, <1>15, <1>16
<1> QED BY <1>17, Zenon DEF format, Blank

\* The same shape with the other separator, read up to it.
LEMMA ClockFirstDashed ==
  ASSUME NEW W, NEW D, NEW M, NEW Y, NEW H, NEW I, NEW S, Fields(W, D, M, Y, H, I, S)
  PROVE  Len(Sscanf(ClockFirst("-"), ClockFirstText(Blank, D, M, Y, H, I, S))) = 4
<1> DEFINE format == ClockFirst("-")
           text == ClockFirstText(Blank, D, M, Y, H, I, S)
           c == ClockFirstCount
           cnt == Count(c)
           p == 9
           q == 10
<1>1. "-" \in Seps /\ Blank \in Seps
  BY DEF Seps, Blank
<1>2. Numbering(cnt, format)
  BY <1>1, ClockFirstNumbered
<1>3. text \in Seq(Tok)
  BY <1>1, ClockFirstReads, Zenon DEF ReadsSix
<1>4. Numeral(H) /\ Numeral(I) /\ Numeral(S) /\ Numeral(D)
  BY DEF Fields
<1>5. /\ format[1] = "%d" /\ format[2] = ":" /\ format[3] = "%d" /\ format[4] = ":"
      /\ format[5] = "%d" /\ format[6] = " " /\ format[7] = Zone /\ format[8] = " "
      /\ format[9] = "%d" /\ format[10] = "-"
  BY DEF ClockFirst
<1>6. /\ text[1] = H /\ text[2] = Token(":") /\ text[3] = I /\ text[4] = Token(":")
      /\ text[5] = S /\ text[6] = Token(" ") /\ text[7] = Token(Zone)
      /\ text[8] = Token(" ") /\ text[9] = D /\ text[10] = Token(" ")
  BY DEF ClockFirstText, Blank
<1>7. Len(format) = 13 /\ Len(text) = 13
  BY DEF ClockFirst, ClockFirstText
<1>8. c[9] = 4 /\ Len(c) = 13
  BY DEF ClockFirstCount
<1> HIDE DEF format, text, c
<1>9. cnt[9] = 4
  BY <1>8 DEF Count
<1> HIDE DEF cnt
<1>10. ":" \in Signs /\ " " \in Signs /\ Zone \in Signs /\ "-" \in Signs /\ "-" # " "
  BY DEF Signs
<1>11. /\ Fitting(format[1], text[1]) /\ Fitting(format[2], text[2])
       /\ Fitting(format[3], text[3]) /\ Fitting(format[4], text[4])
       /\ Fitting(format[5], text[5]) /\ Fitting(format[6], text[6])
       /\ Fitting(format[7], text[7]) /\ Fitting(format[8], text[8])
       /\ Fitting(format[9], text[9])
  BY <1>4, <1>5, <1>6, <1>10, FittingRight, Zenon
<1>12. Refused(format[10], text[10])
  BY <1>5, <1>6, <1>10, NotFitting, Zenon
<1>13. Along(format, text, p)
  <2>1. \A i \in 1 .. 9 : i \in {1, 2, 3, 4, 5, 6, 7, 8, 9}
    OBVIOUS
  <2>2. \A i \in 1 .. 9 : Fitting(format[i], text[i])
    BY <1>11, <2>1
  <2> QED BY <1>7, <2>2 DEF Along
<1>14. q = p + 1 /\ p < Len(format) /\ p < Len(text)
  BY <1>7
<1> HIDE DEF p, q
<1>15. Len(Sscanf(format, text)) = cnt[p]
  <2>1. Refused(format[q], text[q])
    BY <1>12 DEF q
  <2> QED BY <1>2, <1>3, <1>13, <1>14, <2>1, ReadsUpTo
<1> QED BY <1>9, <1>15 DEF p, format, text

LEMMA WeekdayFirstDashed ==
  ASSUME NEW W, NEW D, NEW M, NEW Y, NEW H, NEW I, NEW S, Fields(W, D, M, Y, H, I, S)
  PROVE  Len(Sscanf(WeekdayFirst("-"), WeekdayFirstText(Blank, W, D, M, Y, H, I, S))) = 2
<1> DEFINE format == WeekdayFirst("-")
           text == WeekdayFirstText(Blank, W, D, M, Y, H, I, S)
           c == WeekdayFirstCount
           cnt == Count(c)
           p == 4
           q == 5
<1>1. "-" \in Seps /\ Blank \in Seps
  BY DEF Seps, Blank
<1>2. Numbering(cnt, format)
  BY <1>1, WeekdayFirstNumbered
<1>3. text \in Seq(Tok)
  BY <1>1, WeekdayFirstReads, Zenon DEF ReadsSeven
<1>4. Named(W) /\ Numeral(D)
  BY DEF Fields
<1>5. /\ format[1] = "%s" /\ format[2] = "," /\ format[3] = " " /\ format[4] = "%d"
      /\ format[5] = "-"
  BY DEF WeekdayFirst
<1>6. /\ text[1] = W /\ text[2] = Token(",") /\ text[3] = Token(" ") /\ text[4] = D
      /\ text[5] = Token(" ")
  BY DEF WeekdayFirstText, Blank
<1>7. Len(format) = 16 /\ Len(text) = 16
  BY DEF WeekdayFirst, WeekdayFirstText
<1>8. c[4] = 2 /\ Len(c) = 16
  BY DEF WeekdayFirstCount
<1> HIDE DEF format, text, c
<1>9. cnt[4] = 2
  BY <1>8 DEF Count
<1> HIDE DEF cnt
<1>10. "," \in Signs /\ " " \in Signs /\ "-" \in Signs /\ "-" # " "
  BY DEF Signs
<1>11. /\ Fitting(format[1], text[1]) /\ Fitting(format[2], text[2])
       /\ Fitting(format[3], text[3]) /\ Fitting(format[4], text[4])
  BY <1>4, <1>5, <1>6, <1>10, FittingRight, Zenon
<1>12. Refused(format[5], text[5])
  BY <1>5, <1>6, <1>10, NotFitting, Zenon
<1>13. Along(format, text, p)
  <2>1. \A i \in 1 .. 4 : i \in {1, 2, 3, 4}
    OBVIOUS
  <2>2. \A i \in 1 .. 4 : Fitting(format[i], text[i])
    BY <1>11, <2>1
  <2> QED BY <1>7, <2>2 DEF Along
<1>14. q = p + 1 /\ p < Len(format) /\ p < Len(text)
  BY <1>7
<1> HIDE DEF p, q
<1>15. Len(Sscanf(format, text)) = cnt[p]
  <2>1. Refused(format[q], text[q])
    BY <1>12 DEF q
  <2> QED BY <1>2, <1>3, <1>13, <1>14, <2>1, ReadsUpTo
<1> QED BY <1>9, <1>15 DEF p, format, text

\* A word where the format begins with a number.
LEMMA NumberWanted ==
  ASSUME NEW sep \in Seps, NEW format \in {DayFirst(sep), ClockFirst(sep)},
         NEW text \in Seq(Tok), 0 < Len(text), Named(text[1])
  PROVE  Len(Sscanf(format, text)) = 0
<1>1. \E cnt : Numbering(cnt, format)
  BY DayFirstNumbered, ClockFirstNumbered, Zenon
<1>2. 0 < Len(format) /\ Len(format) \in Nat
  <2>1. Len(DayFirst(sep)) = 13 /\ Len(ClockFirst(sep)) = 13
    BY DEF DayFirst, ClockFirst
  <2>2. Len(format) = 13
    BY <2>1
  <2> QED BY <2>2
<1>3. format[1] = "%d"
  <2>1. DayFirst(sep)[1] = "%d" /\ ClockFirst(sep)[1] = "%d"
    BY DEF DayFirst, ClockFirst
  <2> QED BY <2>1
<1>4. Refused(format[1], text[1])
  BY <1>3, NotFitting, Zenon
<1> QED BY <1>1, <1>2, <1>4, ReadsNone

LEMMA LongFormats ==
  ASSUME NEW sep \in Seps
  PROVE  1 < Len(DayFirst(sep)) /\ 1 < Len(WeekdayFirst(sep))
<1>1. Len(DayFirst(sep)) = 13 /\ Len(WeekdayFirst(sep)) = 16
  BY DEF DayFirst, WeekdayFirst
<1> QED BY <1>1

\* Another sign where one is wanted second.
LEMMA DashWanted ==
  ASSUME NEW text \in Seq(Tok), 1 < Len(text), Numeral(text[1]),
         Refused("-", text[2])
  PROVE  Len(Sscanf(DayFirst("-"), text)) = 1
<1> DEFINE format == DayFirst("-")
           cnt == Count(DayFirstCount)
<1>1. Numbering(cnt, format)
  <2>1. "-" \in Seps
    BY DEF Seps
  <2> QED BY <2>1, DayFirstNumbered
<1>2. format[1] = "%d" /\ format[2] = "-"
  BY DEF DayFirst
<1>3. 1 < Len(format)
  <2>1. "-" \in Seps
    BY DEF Seps
  <2> QED BY <2>1, LongFormats
<1> HIDE DEF format, cnt
<1>4. Conv(format[1])
  <2>1. Conv("%d")
    BY DEF Conv
  <2> QED BY <1>2, <2>1, Zenon
<1>5. Fitting(format[1], text[1]) /\ Refused(format[2], text[2])
  BY <1>2, FittingRight, Zenon
<1>6. Len(Sscanf(format, text)) = 1
  BY <1>1, <1>3, <1>4, <1>5, ReadsOne, Zenon
<1> QED BY <1>6 DEF format

LEMMA CommaWanted ==
  ASSUME NEW sep \in Seps, NEW text \in Seq(Tok), 1 < Len(text), Named(text[1]),
         Refused(",", text[2])
  PROVE  Len(Sscanf(WeekdayFirst(sep), text)) = 1
<1> DEFINE format == WeekdayFirst(sep)
           cnt == Count(WeekdayFirstCount)
<1>1. Numbering(cnt, format)
  BY WeekdayFirstNumbered
<1>2. format[1] = "%s" /\ format[2] = ","
  BY DEF WeekdayFirst
<1>3. 1 < Len(format)
  BY LongFormats
<1> HIDE DEF format, cnt
<1>4. Conv(format[1])
  <2>1. Conv("%s")
    BY DEF Conv
  <2> QED BY <1>2, <2>1, Zenon
<1>5. Fitting(format[1], text[1]) /\ Refused(format[2], text[2])
  BY <1>2, FittingRight, Zenon
<1>6. Len(Sscanf(format, text)) = 1
  BY <1>1, <1>3, <1>4, <1>5, ReadsOne, Zenon
<1> QED BY <1>6 DEF format

(***************************************************************************)
(* Which of the formats a text is read by.                                 *)
(***************************************************************************)
LEMMA FormatsAre ==
  /\ Len(Formats) = 7
  /\ Formats[1] = Try(DayFirst("-"), Order(0, 1, 2, 3, 4, 5, 6), 6)
  /\ Formats[2] = Try(DayFirst(Blank), Order(0, 1, 2, 3, 4, 5, 6), 6)
  /\ Formats[3] = Try(ClockFirst("-"), Order(0, 4, 5, 6, 1, 2, 3), 6)
  /\ Formats[4] = Try(ClockFirst(Blank), Order(0, 4, 5, 6, 1, 2, 3), 6)
  /\ Formats[5] = Try(WeekdayFirst("-"), Order(1, 2, 3, 4, 5, 6, 7), 7)
  /\ Formats[6] = Try(WeekdayFirst(Blank), Order(1, 2, 3, 4, 5, 6, 7), 7)
  /\ Formats[7] = Try(YearLast, Order(1, 3, 2, 7, 4, 5, 6), 7)
BY DEF Formats, Blank

LEMMA Unfit ==
  ASSUME NEW f, NEW format, NEW at, NEW n, NEW text, f = Try(format, at, n),
         Len(Sscanf(format, text)) # n
  PROVE  ~Fits(f, text)
BY DEF Fits, Try

LEMMA FitsIf ==
  ASSUME NEW f, NEW format, NEW at, NEW n, NEW text, f = Try(format, at, n),
         NEW v, v = Sscanf(format, text), Len(v) = n,
         at.wday # 0 => ScanWday(v[at.wday].w) # NotFound,
         ScanMon(v[at.mon].w) # NotFound
  PROVE  Fits(f, text)
BY DEF Fits, Try

\* The moment of which the fields are the given tokens.
MomentOf(D, M, Y, H, I, S) ==
  TmToTime([year |-> Century(Y.n), mon |-> ScanMon(M.w), mday |-> D.n,
            hour |-> H.n, min |-> I.n, sec |-> S.n])

Reading(f, text) ==
  LET v == Sscanf(f.format, text)
      at == f.at
  IN  MomentOf(v[at.mday], v[at.mon], v[at.year], v[at.hour], v[at.min], v[at.sec])

Opens(text) == text # <<>> /\ text[1].w # " "

LEMMA ParsedBy ==
  ASSUME NEW text, Opens(text), NEW k \in 1 .. 7, Fits(Formats[k], text),
         \A j \in 1 .. k - 1 : ~Fits(Formats[j], text)
  PROVE  TdateParse(text) = Reading(Formats[k], text)
<1> DEFINE I == {i \in 1 .. Len(Formats) : Fits(Formats[i], text)}
<1>1. Len(Formats) = 7
  BY FormatsAre
<1>2. FirstFit(text) = IF I # {} THEN Min(I) ELSE 0
  BY DEF SelectInSeq, FirstFit
<1>3. k \in I /\ I \in SUBSET Nat /\ \A j \in I : j >= k
  <2>1. k \in I /\ I \in SUBSET Nat
    BY <1>1
  <2>2. ASSUME NEW j \in I PROVE j >= k
    <3>1. j \in 1 .. 7 /\ Fits(Formats[j], text)
      BY <1>1
    <3>2. j < k => j \in 1 .. k - 1
      BY <3>1
    <3>3. ~(j < k)
      BY <3>1, <3>2
    <3> QED BY <3>1, <3>3
  <2> QED BY <2>1, <2>2
<1> HIDE DEF I
<1>4. FirstFit(text) = k
  <2>1. I # {}
    BY <1>3
  <2>2. Min(I) \in I /\ Min(I) <= k
    BY <1>3, <2>1, MinRight
  <2>3. Min(I) >= k /\ Min(I) \in Nat
    BY <1>3, <2>2
  <2> QED BY <1>2, <2>1, <2>2, <2>3
<1>5. (IF text # <<>> /\ text[1].w = " " THEN Tail(text) ELSE text) = text
  BY Zenon DEF Opens
<1>6. k # 0
  OBVIOUS
<1>7. TdateParse(text) =
        LET v == Sscanf(Formats[k].format, text)
            at == Formats[k].at
        IN  TmToTime([year |-> Century(v[at.year].n), mon |-> ScanMon(v[at.mon].w),
                      mday |-> v[at.mday].n, hour |-> v[at.hour].n,
                      min |-> v[at.min].n, sec |-> v[at.sec].n])
  BY <1>4, <1>5, <1>6, Zenon DEF TdateParse
<1> QED BY <1>7, Zenon DEF Reading, MomentOf

LEMMA ReadingIs ==
  ASSUME NEW f, NEW at, NEW text, f.at = at, NEW v, v = Sscanf(f.format, text)
  PROVE  Reading(f, text) = MomentOf(v[at.mday], v[at.mon], v[at.year], v[at.hour],
                                     v[at.min], v[at.sec])
BY DEF Reading

LEMMA NotAll ==
  /\ \A n : n = 0 \/ n = 1 \/ n = 4 => n # 6
  /\ \A n : n = 0 \/ n = 1 \/ n = 2 => n # 7
OBVIOUS

\* No text is short.
LEMMA DayFirstLong ==
  ASSUME NEW sep, NEW D, NEW M, NEW Y, NEW H, NEW I, NEW S
  PROVE  0 < Len(DayFirstText(sep, D, M, Y, H, I, S)) /\ 1 < Len(DayFirstText(sep, D, M, Y, H, I, S))
<1>1. Len(DayFirstText(sep, D, M, Y, H, I, S)) = 13
  BY DEF DayFirstText
<1> QED BY <1>1

LEMMA ClockFirstLong ==
  ASSUME NEW sep, NEW D, NEW M, NEW Y, NEW H, NEW I, NEW S
  PROVE  0 < Len(ClockFirstText(sep, D, M, Y, H, I, S)) /\ 1 < Len(ClockFirstText(sep, D, M, Y, H, I, S))
<1>1. Len(ClockFirstText(sep, D, M, Y, H, I, S)) = 13
  BY DEF ClockFirstText
<1> QED BY <1>1

LEMMA WeekdayFirstLong ==
  ASSUME NEW sep, NEW W, NEW D, NEW M, NEW Y, NEW H, NEW I, NEW S
  PROVE  0 < Len(WeekdayFirstText(sep, W, D, M, Y, H, I, S)) /\ 1 < Len(WeekdayFirstText(sep, W, D, M, Y, H, I, S))
<1>1. Len(WeekdayFirstText(sep, W, D, M, Y, H, I, S)) = 16
  BY DEF WeekdayFirstText
<1> QED BY <1>1

LEMMA YearLastLong ==
  ASSUME NEW W, NEW D, NEW M, NEW Y, NEW H, NEW I, NEW S
  PROVE  0 < Len(YearLastText(W, D, M, Y, H, I, S)) /\ 1 < Len(YearLastText(W, D, M, Y, H, I, S))
<1>1. Len(YearLastText(W, D, M, Y, H, I, S)) = 15
  BY DEF YearLastText
<1> QED BY <1>1

\* Each text is read by its own format.
Legible(W, D, M, Y, H, I, S) ==
  /\ Fields(W, D, M, Y, H, I, S)
  /\ ScanWday(W.w) # NotFound /\ ScanMon(M.w) # NotFound

LEMMA OpensRight ==
  ASSUME NEW text, 1 < Len(text), NEW z, text[1] = z, Numeral(z) \/ Named(z)
  PROVE  Opens(text)
<1>1. text # <<>>
  <2>1. Len(<<>>) = 0
    OBVIOUS
  <2> QED BY <2>1
<1>2. Numeral(z) => z.w # " "
  BY DEF Numeral
<1>3. Named(z) => z.w # " "
  BY NotFitting, Zenon DEF Refused
<1> QED BY <1>1, <1>2, <1>3 DEF Opens


LEMMA Read1 ==
  ASSUME NEW W, NEW D, NEW M, NEW Y, NEW H, NEW I, NEW S,
         Legible(W, D, M, Y, H, I, S)
  PROVE  TdateParse(DayFirstText("-", D, M, Y, H, I, S))
           = MomentOf(D, M, Y, H, I, S)
<1> DEFINE text == DayFirstText("-", D, M, Y, H, I, S)
           v == Sscanf(DayFirst("-"), text)
<1>1. "-" \in Seps /\ Blank \in Seps
  BY DEF Seps, Blank
<1>2. Fields(W, D, M, Y, H, I, S) /\ ScanWday(W.w) # NotFound
      /\ ScanMon(M.w) # NotFound
  BY DEF Legible
<1>3. /\ text \in Seq(Tok) /\ Len(v) = 6
      /\ v[1] = D /\ v[2] = M /\ v[3] = Y /\ v[4] = H /\ v[5] = I /\ v[6] = S
  <2>1. ReadsSix(DayFirst("-"), text, D, M, Y, H, I, S)
    BY <1>1, <1>2, DayFirstReads, Zenon
  <2> QED BY <2>1, Zenon DEF ReadsSix
<1>4. text[1] = D /\ text[2] = Token("-")
  BY DEF DayFirstText
<1>5. 0 < Len(text) /\ 1 < Len(text)
  BY DayFirstLong
<1>6. Numeral(D) /\ Numeral(H) /\ Named(W)
  BY <1>2 DEF Fields
<1> HIDE DEF text, v
<1>7. Opens(text)
  BY <1>4, <1>5, <1>6, OpensRight, Zenon
<1> DEFINE at == Order(0, 1, 2, 3, 4, 5, 6)
<1>8. Fits(Formats[1], text)
  <2>1. Formats[1] = Try(DayFirst("-"), at, 6)
    BY FormatsAre
  <2>2. at.wday = 0 /\ at.mon = 2
    BY DEF Order
  <2> HIDE DEF at
  <2>3. ScanMon(v[at.mon].w) # NotFound
    BY <1>2, <1>3, <2>2, Zenon
  <2>4. ~(at.wday # 0)
    BY <2>2
  <2> QED BY <1>3, <2>1, <2>3, <2>4, FitsIf, Zenon DEF v
<1>9. TdateParse(text) = Reading(Formats[1], text)
  <2>1. \A j \in 1 .. 1 - 1 : ~Fits(Formats[j], text)
    OBVIOUS
  <2> QED BY <1>7, <1>8, <2>1, ParsedBy
<1>10. Reading(Formats[1], text)
        = MomentOf(v[1], v[2], v[3], v[4], v[5], v[6])
  <2> DEFINE f == Formats[1]
             format == DayFirst("-")
  <2>1. f = Try(format, at, 6)
    BY FormatsAre
  <2>2. /\ at.mday = 1 /\ at.mon = 2 /\ at.year = 3
        /\ at.hour = 4 /\ at.min = 5 /\ at.sec = 6
    BY DEF Order
  <2>3. v = Sscanf(format, text)
    BY DEF v
  <2> HIDE DEF at, f, format
  <2>4. f.at = at /\ f.format = format
    BY <2>1 DEF Try
  <2>5. Reading(f, text)
          = MomentOf(v[at.mday], v[at.mon], v[at.year], v[at.hour], v[at.min],
                     v[at.sec])
    BY <2>3, <2>4, ReadingIs, Zenon
  <2> QED BY <2>2, <2>5, Zenon DEF f
<1> QED BY <1>3, <1>9, <1>10, Zenon DEF text

LEMMA Read2 ==
  ASSUME NEW W, NEW D, NEW M, NEW Y, NEW H, NEW I, NEW S,
         Legible(W, D, M, Y, H, I, S)
  PROVE  TdateParse(DayFirstText(Blank, D, M, Y, H, I, S))
           = MomentOf(D, M, Y, H, I, S)
<1> DEFINE text == DayFirstText(Blank, D, M, Y, H, I, S)
           v == Sscanf(DayFirst(Blank), text)
<1>1. "-" \in Seps /\ Blank \in Seps
  BY DEF Seps, Blank
<1>2. Fields(W, D, M, Y, H, I, S) /\ ScanWday(W.w) # NotFound
      /\ ScanMon(M.w) # NotFound
  BY DEF Legible
<1>3. /\ text \in Seq(Tok) /\ Len(v) = 6
      /\ v[1] = D /\ v[2] = M /\ v[3] = Y /\ v[4] = H /\ v[5] = I /\ v[6] = S
  <2>1. ReadsSix(DayFirst(Blank), text, D, M, Y, H, I, S)
    BY <1>1, <1>2, DayFirstReads, Zenon
  <2> QED BY <2>1, Zenon DEF ReadsSix
<1>4. text[1] = D /\ text[2] = Token(Blank)
  BY DEF DayFirstText
<1>5. 0 < Len(text) /\ 1 < Len(text)
  BY DayFirstLong
<1>6. Numeral(D) /\ Numeral(H) /\ Named(W)
  BY <1>2 DEF Fields
<1> HIDE DEF text, v
<1>7. Opens(text)
  BY <1>4, <1>5, <1>6, OpensRight, Zenon
<1> DEFINE at == Order(0, 1, 2, 3, 4, 5, 6)
<1>8. Fits(Formats[2], text)
  <2>1. Formats[2] = Try(DayFirst(Blank), at, 6)
    BY FormatsAre
  <2>2. at.wday = 0 /\ at.mon = 2
    BY DEF Order
  <2> HIDE DEF at
  <2>3. ScanMon(v[at.mon].w) # NotFound
    BY <1>2, <1>3, <2>2, Zenon
  <2>4. ~(at.wday # 0)
    BY <2>2
  <2> QED BY <1>3, <2>1, <2>3, <2>4, FitsIf, Zenon DEF v
<1>9. ~Fits(Formats[1], text)
  <2>1. Len(Sscanf(DayFirst("-"), text)) = 1
    <3>1. "-" \in Signs /\ Blank \in Signs /\ "-" # Blank /\ "-" # " "
      BY DEF Signs, Blank
    <3>2. Refused("-", text[2])
      BY <1>4, <3>1, NotFitting, Zenon
    <3> QED BY <1>3, <1>4, <1>5, <1>6, <3>2, DashWanted, Zenon
  <2>2. Len(Sscanf(DayFirst("-"), text)) # 6
    BY <2>1, NotAll, Zenon
  <2> QED BY <2>2, FormatsAre, Unfit, Zenon
<1>10. TdateParse(text) = Reading(Formats[2], text)
  <2>1. \A j \in 1 .. 2 - 1 : j \in {1}
    OBVIOUS
  <2>2. \A j \in 1 .. 2 - 1 : ~Fits(Formats[j], text)
    BY <2>1, <1>9
  <2>3. 2 \in 1 .. 7
    OBVIOUS
  <2> QED BY <1>7, <1>8, <2>2, <2>3, ParsedBy
<1>11. Reading(Formats[2], text)
        = MomentOf(v[1], v[2], v[3], v[4], v[5], v[6])
  <2> DEFINE f == Formats[2]
             format == DayFirst(Blank)
  <2>1. f = Try(format, at, 6)
    BY FormatsAre
  <2>2. /\ at.mday = 1 /\ at.mon = 2 /\ at.year = 3
        /\ at.hour = 4 /\ at.min = 5 /\ at.sec = 6
    BY DEF Order
  <2>3. v = Sscanf(format, text)
    BY DEF v
  <2> HIDE DEF at, f, format
  <2>4. f.at = at /\ f.format = format
    BY <2>1 DEF Try
  <2>5. Reading(f, text)
          = MomentOf(v[at.mday], v[at.mon], v[at.year], v[at.hour], v[at.min],
                     v[at.sec])
    BY <2>3, <2>4, ReadingIs, Zenon
  <2> QED BY <2>2, <2>5, Zenon DEF f
<1> QED BY <1>3, <1>10, <1>11, Zenon DEF text

LEMMA Read3 ==
  ASSUME NEW W, NEW D, NEW M, NEW Y, NEW H, NEW I, NEW S,
         Legible(W, D, M, Y, H, I, S)
  PROVE  TdateParse(ClockFirstText("-", D, M, Y, H, I, S))
           = MomentOf(D, M, Y, H, I, S)
<1> DEFINE text == ClockFirstText("-", D, M, Y, H, I, S)
           v == Sscanf(ClockFirst("-"), text)
<1>1. "-" \in Seps /\ Blank \in Seps
  BY DEF Seps, Blank
<1>2. Fields(W, D, M, Y, H, I, S) /\ ScanWday(W.w) # NotFound
      /\ ScanMon(M.w) # NotFound
  BY DEF Legible
<1>3. /\ text \in Seq(Tok) /\ Len(v) = 6
      /\ v[1] = H /\ v[2] = I /\ v[3] = S /\ v[4] = D /\ v[5] = M /\ v[6] = Y
  <2>1. ReadsSix(ClockFirst("-"), text, H, I, S, D, M, Y)
    BY <1>1, <1>2, ClockFirstReads, Zenon
  <2> QED BY <2>1, Zenon DEF ReadsSix
<1>4. text[1] = H /\ text[2] = Token(":")
  BY DEF ClockFirstText
<1>5. 0 < Len(text) /\ 1 < Len(text)
  BY ClockFirstLong
<1>6. Numeral(D) /\ Numeral(H) /\ Named(W)
  BY <1>2 DEF Fields
<1> HIDE DEF text, v
<1>7. Opens(text)
  BY <1>4, <1>5, <1>6, OpensRight, Zenon
<1> DEFINE at == Order(0, 4, 5, 6, 1, 2, 3)
<1>8. Fits(Formats[3], text)
  <2>1. Formats[3] = Try(ClockFirst("-"), at, 6)
    BY FormatsAre
  <2>2. at.wday = 0 /\ at.mon = 5
    BY DEF Order
  <2> HIDE DEF at
  <2>3. ScanMon(v[at.mon].w) # NotFound
    BY <1>2, <1>3, <2>2, Zenon
  <2>4. ~(at.wday # 0)
    BY <2>2
  <2> QED BY <1>3, <2>1, <2>3, <2>4, FitsIf, Zenon DEF v
<1>9. ~Fits(Formats[1], text)
  <2>1. Len(Sscanf(DayFirst("-"), text)) = 1
    <3>1. "-" \in Signs /\ ":" \in Signs /\ "-" # ":" /\ "-" # " "
      BY DEF Signs, Blank
    <3>2. Refused("-", text[2])
      BY <1>4, <3>1, NotFitting, Zenon
    <3> QED BY <1>3, <1>4, <1>5, <1>6, <3>2, DashWanted, Zenon
  <2>2. Len(Sscanf(DayFirst("-"), text)) # 6
    BY <2>1, NotAll, Zenon
  <2> QED BY <2>2, FormatsAre, Unfit, Zenon
<1>10. ~Fits(Formats[2], text)
  <2>1. Len(Sscanf(DayFirst(Blank), text)) = 1
    BY <1>3, <1>4, <1>5, <1>6, WordWanted, Zenon DEF Colon
  <2>2. Len(Sscanf(DayFirst(Blank), text)) # 6
    BY <2>1, NotAll, Zenon
  <2> QED BY <2>2, FormatsAre, Unfit, Zenon
<1>11. TdateParse(text) = Reading(Formats[3], text)
  <2>1. \A j \in 1 .. 3 - 1 : j \in {1, 2}
    OBVIOUS
  <2>2. \A j \in 1 .. 3 - 1 : ~Fits(Formats[j], text)
    BY <2>1, <1>9, <1>10
  <2>3. 3 \in 1 .. 7
    OBVIOUS
  <2> QED BY <1>7, <1>8, <2>2, <2>3, ParsedBy
<1>12. Reading(Formats[3], text)
        = MomentOf(v[4], v[5], v[6], v[1], v[2], v[3])
  <2> DEFINE f == Formats[3]
             format == ClockFirst("-")
  <2>1. f = Try(format, at, 6)
    BY FormatsAre
  <2>2. /\ at.mday = 4 /\ at.mon = 5 /\ at.year = 6
        /\ at.hour = 1 /\ at.min = 2 /\ at.sec = 3
    BY DEF Order
  <2>3. v = Sscanf(format, text)
    BY DEF v
  <2> HIDE DEF at, f, format
  <2>4. f.at = at /\ f.format = format
    BY <2>1 DEF Try
  <2>5. Reading(f, text)
          = MomentOf(v[at.mday], v[at.mon], v[at.year], v[at.hour], v[at.min],
                     v[at.sec])
    BY <2>3, <2>4, ReadingIs, Zenon
  <2> QED BY <2>2, <2>5, Zenon DEF f
<1> QED BY <1>3, <1>11, <1>12, Zenon DEF text

LEMMA Read4 ==
  ASSUME NEW W, NEW D, NEW M, NEW Y, NEW H, NEW I, NEW S,
         Legible(W, D, M, Y, H, I, S)
  PROVE  TdateParse(ClockFirstText(Blank, D, M, Y, H, I, S))
           = MomentOf(D, M, Y, H, I, S)
<1> DEFINE text == ClockFirstText(Blank, D, M, Y, H, I, S)
           v == Sscanf(ClockFirst(Blank), text)
<1>1. "-" \in Seps /\ Blank \in Seps
  BY DEF Seps, Blank
<1>2. Fields(W, D, M, Y, H, I, S) /\ ScanWday(W.w) # NotFound
      /\ ScanMon(M.w) # NotFound
  BY DEF Legible
<1>3. /\ text \in Seq(Tok) /\ Len(v) = 6
      /\ v[1] = H /\ v[2] = I /\ v[3] = S /\ v[4] = D /\ v[5] = M /\ v[6] = Y
  <2>1. ReadsSix(ClockFirst(Blank), text, H, I, S, D, M, Y)
    BY <1>1, <1>2, ClockFirstReads, Zenon
  <2> QED BY <2>1, Zenon DEF ReadsSix
<1>4. text[1] = H /\ text[2] = Token(":")
  BY DEF ClockFirstText
<1>5. 0 < Len(text) /\ 1 < Len(text)
  BY ClockFirstLong
<1>6. Numeral(D) /\ Numeral(H) /\ Named(W)
  BY <1>2 DEF Fields
<1> HIDE DEF text, v
<1>7. Opens(text)
  BY <1>4, <1>5, <1>6, OpensRight, Zenon
<1> DEFINE at == Order(0, 4, 5, 6, 1, 2, 3)
<1>8. Fits(Formats[4], text)
  <2>1. Formats[4] = Try(ClockFirst(Blank), at, 6)
    BY FormatsAre
  <2>2. at.wday = 0 /\ at.mon = 5
    BY DEF Order
  <2> HIDE DEF at
  <2>3. ScanMon(v[at.mon].w) # NotFound
    BY <1>2, <1>3, <2>2, Zenon
  <2>4. ~(at.wday # 0)
    BY <2>2
  <2> QED BY <1>3, <2>1, <2>3, <2>4, FitsIf, Zenon DEF v
<1>9. ~Fits(Formats[1], text)
  <2>1. Len(Sscanf(DayFirst("-"), text)) = 1
    <3>1. "-" \in Signs /\ ":" \in Signs /\ "-" # ":" /\ "-" # " "
      BY DEF Signs, Blank
    <3>2. Refused("-", text[2])
      BY <1>4, <3>1, NotFitting, Zenon
    <3> QED BY <1>3, <1>4, <1>5, <1>6, <3>2, DashWanted, Zenon
  <2>2. Len(Sscanf(DayFirst("-"), text)) # 6
    BY <2>1, NotAll, Zenon
  <2> QED BY <2>2, FormatsAre, Unfit, Zenon
<1>10. ~Fits(Formats[2], text)
  <2>1. Len(Sscanf(DayFirst(Blank), text)) = 1
    BY <1>3, <1>4, <1>5, <1>6, WordWanted, Zenon DEF Colon
  <2>2. Len(Sscanf(DayFirst(Blank), text)) # 6
    BY <2>1, NotAll, Zenon
  <2> QED BY <2>2, FormatsAre, Unfit, Zenon
<1>11. ~Fits(Formats[3], text)
  <2>1. Len(Sscanf(ClockFirst("-"), text)) = 4
    BY <1>2, ClockFirstDashed, Zenon DEF text
  <2>2. Len(Sscanf(ClockFirst("-"), text)) # 6
    BY <2>1, NotAll, Zenon
  <2> QED BY <2>2, FormatsAre, Unfit, Zenon
<1>12. TdateParse(text) = Reading(Formats[4], text)
  <2>1. \A j \in 1 .. 4 - 1 : j \in {1, 2, 3}
    OBVIOUS
  <2>2. \A j \in 1 .. 4 - 1 : ~Fits(Formats[j], text)
    BY <2>1, <1>9, <1>10, <1>11
  <2>3. 4 \in 1 .. 7
    OBVIOUS
  <2> QED BY <1>7, <1>8, <2>2, <2>3, ParsedBy
<1>13. Reading(Formats[4], text)
        = MomentOf(v[4], v[5], v[6], v[1], v[2], v[3])
  <2> DEFINE f == Formats[4]
             format == ClockFirst(Blank)
  <2>1. f = Try(format, at, 6)
    BY FormatsAre
  <2>2. /\ at.mday = 4 /\ at.mon = 5 /\ at.year = 6
        /\ at.hour = 1 /\ at.min = 2 /\ at.sec = 3
    BY DEF Order
  <2>3. v = Sscanf(format, text)
    BY DEF v
  <2> HIDE DEF at, f, format
  <2>4. f.at = at /\ f.format = format
    BY <2>1 DEF Try
  <2>5. Reading(f, text)
          = MomentOf(v[at.mday], v[at.mon], v[at.year], v[at.hour], v[at.min],
                     v[at.sec])
    BY <2>3, <2>4, ReadingIs, Zenon
  <2> QED BY <2>2, <2>5, Zenon DEF f
<1> QED BY <1>3, <1>12, <1>13, Zenon DEF text

LEMMA Read5 ==
  ASSUME NEW W, NEW D, NEW M, NEW Y, NEW H, NEW I, NEW S,
         Legible(W, D, M, Y, H, I, S)
  PROVE  TdateParse(WeekdayFirstText("-", W, D, M, Y, H, I, S))
           = MomentOf(D, M, Y, H, I, S)
<1> DEFINE text == WeekdayFirstText("-", W, D, M, Y, H, I, S)
           v == Sscanf(WeekdayFirst("-"), text)
<1>1. "-" \in Seps /\ Blank \in Seps
  BY DEF Seps, Blank
<1>2. Fields(W, D, M, Y, H, I, S) /\ ScanWday(W.w) # NotFound
      /\ ScanMon(M.w) # NotFound
  BY DEF Legible
<1>3. /\ text \in Seq(Tok) /\ Len(v) = 7
      /\ v[1] = W /\ v[2] = D /\ v[3] = M /\ v[4] = Y /\ v[5] = H /\ v[6] = I /\ v[7] = S
  <2>1. ReadsSeven(WeekdayFirst("-"), text, W, D, M, Y, H, I, S)
    BY <1>1, <1>2, WeekdayFirstReads, Zenon
  <2> QED BY <2>1, Zenon DEF ReadsSeven
<1>4. text[1] = W /\ text[2] = Token(",")
  BY DEF WeekdayFirstText
<1>5. 0 < Len(text) /\ 1 < Len(text)
  BY WeekdayFirstLong
<1>6. Numeral(D) /\ Numeral(H) /\ Named(W)
  BY <1>2 DEF Fields
<1> HIDE DEF text, v
<1>7. Opens(text)
  BY <1>4, <1>5, <1>6, OpensRight, Zenon
<1> DEFINE at == Order(1, 2, 3, 4, 5, 6, 7)
<1>8. Fits(Formats[5], text)
  <2>1. Formats[5] = Try(WeekdayFirst("-"), at, 7)
    BY FormatsAre
  <2>2. at.wday = 1 /\ at.mon = 3
    BY DEF Order
  <2> HIDE DEF at
  <2>3. ScanMon(v[at.mon].w) # NotFound
    BY <1>2, <1>3, <2>2, Zenon
  <2>4. ScanWday(v[at.wday].w) # NotFound
    BY <1>2, <1>3, <2>2, Zenon
  <2> QED BY <1>3, <2>1, <2>3, <2>4, FitsIf, Zenon DEF v
<1>9. ~Fits(Formats[1], text)
  <2>1. Len(Sscanf(DayFirst("-"), text)) = 0
    BY <1>1, <1>3, <1>4, <1>5, <1>6, NumberWanted, Zenon
  <2>2. Len(Sscanf(DayFirst("-"), text)) # 6
    BY <2>1, NotAll, Zenon
  <2> QED BY <2>2, FormatsAre, Unfit, Zenon
<1>10. ~Fits(Formats[2], text)
  <2>1. Len(Sscanf(DayFirst(Blank), text)) = 0
    BY <1>1, <1>3, <1>4, <1>5, <1>6, NumberWanted, Zenon
  <2>2. Len(Sscanf(DayFirst(Blank), text)) # 6
    BY <2>1, NotAll, Zenon
  <2> QED BY <2>2, FormatsAre, Unfit, Zenon
<1>11. ~Fits(Formats[3], text)
  <2>1. Len(Sscanf(ClockFirst("-"), text)) = 0
    BY <1>1, <1>3, <1>4, <1>5, <1>6, NumberWanted, Zenon
  <2>2. Len(Sscanf(ClockFirst("-"), text)) # 6
    BY <2>1, NotAll, Zenon
  <2> QED BY <2>2, FormatsAre, Unfit, Zenon
<1>12. ~Fits(Formats[4], text)
  <2>1. Len(Sscanf(ClockFirst(Blank), text)) = 0
    BY <1>1, <1>3, <1>4, <1>5, <1>6, NumberWanted, Zenon
  <2>2. Len(Sscanf(ClockFirst(Blank), text)) # 6
    BY <2>1, NotAll, Zenon
  <2> QED BY <2>2, FormatsAre, Unfit, Zenon
<1>13. TdateParse(text) = Reading(Formats[5], text)
  <2>1. \A j \in 1 .. 5 - 1 : j \in {1, 2, 3, 4}
    OBVIOUS
  <2>2. \A j \in 1 .. 5 - 1 : ~Fits(Formats[j], text)
    BY <2>1, <1>9, <1>10, <1>11, <1>12
  <2>3. 5 \in 1 .. 7
    OBVIOUS
  <2> QED BY <1>7, <1>8, <2>2, <2>3, ParsedBy
<1>14. Reading(Formats[5], text)
        = MomentOf(v[2], v[3], v[4], v[5], v[6], v[7])
  <2> DEFINE f == Formats[5]
             format == WeekdayFirst("-")
  <2>1. f = Try(format, at, 7)
    BY FormatsAre
  <2>2. /\ at.mday = 2 /\ at.mon = 3 /\ at.year = 4
        /\ at.hour = 5 /\ at.min = 6 /\ at.sec = 7
    BY DEF Order
  <2>3. v = Sscanf(format, text)
    BY DEF v
  <2> HIDE DEF at, f, format
  <2>4. f.at = at /\ f.format = format
    BY <2>1 DEF Try
  <2>5. Reading(f, text)
          = MomentOf(v[at.mday], v[at.mon], v[at.year], v[at.hour], v[at.min],
                     v[at.sec])
    BY <2>3, <2>4, ReadingIs, Zenon
  <2> QED BY <2>2, <2>5, Zenon DEF f
<1> QED BY <1>3, <1>13, <1>14, Zenon DEF text

LEMMA Read6 ==
  ASSUME NEW W, NEW D, NEW M, NEW Y, NEW H, NEW I, NEW S,
         Legible(W, D, M, Y, H, I, S)
  PROVE  TdateParse(WeekdayFirstText(Blank, W, D, M, Y, H, I, S))
           = MomentOf(D, M, Y, H, I, S)
<1> DEFINE text == WeekdayFirstText(Blank, W, D, M, Y, H, I, S)
           v == Sscanf(WeekdayFirst(Blank), text)
<1>1. "-" \in Seps /\ Blank \in Seps
  BY DEF Seps, Blank
<1>2. Fields(W, D, M, Y, H, I, S) /\ ScanWday(W.w) # NotFound
      /\ ScanMon(M.w) # NotFound
  BY DEF Legible
<1>3. /\ text \in Seq(Tok) /\ Len(v) = 7
      /\ v[1] = W /\ v[2] = D /\ v[3] = M /\ v[4] = Y /\ v[5] = H /\ v[6] = I /\ v[7] = S
  <2>1. ReadsSeven(WeekdayFirst(Blank), text, W, D, M, Y, H, I, S)
    BY <1>1, <1>2, WeekdayFirstReads, Zenon
  <2> QED BY <2>1, Zenon DEF ReadsSeven
<1>4. text[1] = W /\ text[2] = Token(",")
  BY DEF WeekdayFirstText
<1>5. 0 < Len(text) /\ 1 < Len(text)
  BY WeekdayFirstLong
<1>6. Numeral(D) /\ Numeral(H) /\ Named(W)
  BY <1>2 DEF Fields
<1> HIDE DEF text, v
<1>7. Opens(text)
  BY <1>4, <1>5, <1>6, OpensRight, Zenon
<1> DEFINE at == Order(1, 2, 3, 4, 5, 6, 7)
<1>8. Fits(Formats[6], text)
  <2>1. Formats[6] = Try(WeekdayFirst(Blank), at, 7)
    BY FormatsAre
  <2>2. at.wday = 1 /\ at.mon = 3
    BY DEF Order
  <2> HIDE DEF at
  <2>3. ScanMon(v[at.mon].w) # NotFound
    BY <1>2, <1>3, <2>2, Zenon
  <2>4. ScanWday(v[at.wday].w) # NotFound
    BY <1>2, <1>3, <2>2, Zenon
  <2> QED BY <1>3, <2>1, <2>3, <2>4, FitsIf, Zenon DEF v
<1>9. ~Fits(Formats[1], text)
  <2>1. Len(Sscanf(DayFirst("-"), text)) = 0
    BY <1>1, <1>3, <1>4, <1>5, <1>6, NumberWanted, Zenon
  <2>2. Len(Sscanf(DayFirst("-"), text)) # 6
    BY <2>1, NotAll, Zenon
  <2> QED BY <2>2, FormatsAre, Unfit, Zenon
<1>10. ~Fits(Formats[2], text)
  <2>1. Len(Sscanf(DayFirst(Blank), text)) = 0
    BY <1>1, <1>3, <1>4, <1>5, <1>6, NumberWanted, Zenon
  <2>2. Len(Sscanf(DayFirst(Blank), text)) # 6
    BY <2>1, NotAll, Zenon
  <2> QED BY <2>2, FormatsAre, Unfit, Zenon
<1>11. ~Fits(Formats[3], text)
  <2>1. Len(Sscanf(ClockFirst("-"), text)) = 0
    BY <1>1, <1>3, <1>4, <1>5, <1>6, NumberWanted, Zenon
  <2>2. Len(Sscanf(ClockFirst("-"), text)) # 6
    BY <2>1, NotAll, Zenon
  <2> QED BY <2>2, FormatsAre, Unfit, Zenon
<1>12. ~Fits(Formats[4], text)
  <2>1. Len(Sscanf(ClockFirst(Blank), text)) = 0
    BY <1>1, <1>3, <1>4, <1>5, <1>6, NumberWanted, Zenon
  <2>2. Len(Sscanf(ClockFirst(Blank), text)) # 6
    BY <2>1, NotAll, Zenon
  <2> QED BY <2>2, FormatsAre, Unfit, Zenon
<1>13. ~Fits(Formats[5], text)
  <2>1. Len(Sscanf(WeekdayFirst("-"), text)) = 2
    BY <1>2, WeekdayFirstDashed, Zenon DEF text
  <2>2. Len(Sscanf(WeekdayFirst("-"), text)) # 7
    BY <2>1, NotAll, Zenon
  <2> QED BY <2>2, FormatsAre, Unfit, Zenon
<1>14. TdateParse(text) = Reading(Formats[6], text)
  <2>1. \A j \in 1 .. 6 - 1 : j \in {1, 2, 3, 4, 5}
    OBVIOUS
  <2>2. \A j \in 1 .. 6 - 1 : ~Fits(Formats[j], text)
    BY <2>1, <1>9, <1>10, <1>11, <1>12, <1>13
  <2>3. 6 \in 1 .. 7
    OBVIOUS
  <2> QED BY <1>7, <1>8, <2>2, <2>3, ParsedBy
<1>15. Reading(Formats[6], text)
        = MomentOf(v[2], v[3], v[4], v[5], v[6], v[7])
  <2> DEFINE f == Formats[6]
             format == WeekdayFirst(Blank)
  <2>1. f = Try(format, at, 7)
    BY FormatsAre
  <2>2. /\ at.mday = 2 /\ at.mon = 3 /\ at.year = 4
        /\ at.hour = 5 /\ at.min = 6 /\ at.sec = 7
    BY DEF Order
  <2>3. v = Sscanf(format, text)
    BY DEF v
  <2> HIDE DEF at, f, format
  <2>4. f.at = at /\ f.format = format
    BY <2>1 DEF Try
  <2>5. Reading(f, text)
          = MomentOf(v[at.mday], v[at.mon], v[at.year], v[at.hour], v[at.min],
                     v[at.sec])
    BY <2>3, <2>4, ReadingIs, Zenon
  <2> QED BY <2>2, <2>5, Zenon DEF f
<1> QED BY <1>3, <1>14, <1>15, Zenon DEF text

LEMMA Read7 ==
  ASSUME NEW W, NEW D, NEW M, NEW Y, NEW H, NEW I, NEW S,
         Legible(W, D, M, Y, H, I, S)
  PROVE  TdateParse(YearLastText(W, D, M, Y, H, I, S))
           = MomentOf(D, M, Y, H, I, S)
<1> DEFINE text == YearLastText(W, D, M, Y, H, I, S)
           v == Sscanf(YearLast, text)
<1>1. "-" \in Seps /\ Blank \in Seps
  BY DEF Seps, Blank
<1>2. Fields(W, D, M, Y, H, I, S) /\ ScanWday(W.w) # NotFound
      /\ ScanMon(M.w) # NotFound
  BY DEF Legible
<1>3. /\ text \in Seq(Tok) /\ Len(v) = 7
      /\ v[1] = W /\ v[2] = M /\ v[3] = D /\ v[4] = H /\ v[5] = I /\ v[6] = S /\ v[7] = Y
  <2>1. ReadsSeven(YearLast, text, W, M, D, H, I, S, Y)
    BY <1>1, <1>2, YearLastReads, Zenon
  <2> QED BY <2>1, Zenon DEF ReadsSeven
<1>4. text[1] = W /\ text[2] = Token(" ")
  BY DEF YearLastText
<1>5. 0 < Len(text) /\ 1 < Len(text)
  BY YearLastLong
<1>6. Numeral(D) /\ Numeral(H) /\ Named(W)
  BY <1>2 DEF Fields
<1> HIDE DEF text, v
<1>7. Opens(text)
  BY <1>4, <1>5, <1>6, OpensRight, Zenon
<1> DEFINE at == Order(1, 3, 2, 7, 4, 5, 6)
<1>8. Fits(Formats[7], text)
  <2>1. Formats[7] = Try(YearLast, at, 7)
    BY FormatsAre
  <2>2. at.wday = 1 /\ at.mon = 2
    BY DEF Order
  <2> HIDE DEF at
  <2>3. ScanMon(v[at.mon].w) # NotFound
    BY <1>2, <1>3, <2>2, Zenon
  <2>4. ScanWday(v[at.wday].w) # NotFound
    BY <1>2, <1>3, <2>2, Zenon
  <2> QED BY <1>3, <2>1, <2>3, <2>4, FitsIf, Zenon DEF v
<1>9. ~Fits(Formats[1], text)
  <2>1. Len(Sscanf(DayFirst("-"), text)) = 0
    BY <1>1, <1>3, <1>4, <1>5, <1>6, NumberWanted, Zenon
  <2>2. Len(Sscanf(DayFirst("-"), text)) # 6
    BY <2>1, NotAll, Zenon
  <2> QED BY <2>2, FormatsAre, Unfit, Zenon
<1>10. ~Fits(Formats[2], text)
  <2>1. Len(Sscanf(DayFirst(Blank), text)) = 0
    BY <1>1, <1>3, <1>4, <1>5, <1>6, NumberWanted, Zenon
  <2>2. Len(Sscanf(DayFirst(Blank), text)) # 6
    BY <2>1, NotAll, Zenon
  <2> QED BY <2>2, FormatsAre, Unfit, Zenon
<1>11. ~Fits(Formats[3], text)
  <2>1. Len(Sscanf(ClockFirst("-"), text)) = 0
    BY <1>1, <1>3, <1>4, <1>5, <1>6, NumberWanted, Zenon
  <2>2. Len(Sscanf(ClockFirst("-"), text)) # 6
    BY <2>1, NotAll, Zenon
  <2> QED BY <2>2, FormatsAre, Unfit, Zenon
<1>12. ~Fits(Formats[4], text)
  <2>1. Len(Sscanf(ClockFirst(Blank), text)) = 0
    BY <1>1, <1>3, <1>4, <1>5, <1>6, NumberWanted, Zenon
  <2>2. Len(Sscanf(ClockFirst(Blank), text)) # 6
    BY <2>1, NotAll, Zenon
  <2> QED BY <2>2, FormatsAre, Unfit, Zenon
<1>13. ~Fits(Formats[5], text)
  <2>1. Len(Sscanf(WeekdayFirst("-"), text)) = 1
    <3>1. "," \in Signs /\ " " \in Signs /\ "," # " "
      BY DEF Signs
    <3>2. Refused(",", text[2])
      BY <1>4, <3>1, NotFitting, Zenon
    <3> QED BY <1>1, <1>3, <1>4, <1>5, <1>6, <3>2, CommaWanted, Zenon
  <2>2. Len(Sscanf(WeekdayFirst("-"), text)) # 7
    BY <2>1, NotAll, Zenon
  <2> QED BY <2>2, FormatsAre, Unfit, Zenon
<1>14. ~Fits(Formats[6], text)
  <2>1. Len(Sscanf(WeekdayFirst(Blank), text)) = 1
    <3>1. "," \in Signs /\ " " \in Signs /\ "," # " "
      BY DEF Signs
    <3>2. Refused(",", text[2])
      BY <1>4, <3>1, NotFitting, Zenon
    <3> QED BY <1>1, <1>3, <1>4, <1>5, <1>6, <3>2, CommaWanted, Zenon
  <2>2. Len(Sscanf(WeekdayFirst(Blank), text)) # 7
    BY <2>1, NotAll, Zenon
  <2> QED BY <2>2, FormatsAre, Unfit, Zenon
<1>15. TdateParse(text) = Reading(Formats[7], text)
  <2>1. \A j \in 1 .. 7 - 1 : j \in {1, 2, 3, 4, 5, 6}
    OBVIOUS
  <2>2. \A j \in 1 .. 7 - 1 : ~Fits(Formats[j], text)
    BY <2>1, <1>9, <1>10, <1>11, <1>12, <1>13, <1>14
  <2>3. 7 \in 1 .. 7
    OBVIOUS
  <2> QED BY <1>7, <1>8, <2>2, <2>3, ParsedBy
<1>16. Reading(Formats[7], text)
        = MomentOf(v[3], v[2], v[7], v[4], v[5], v[6])
  <2> DEFINE f == Formats[7]
             format == YearLast
  <2>1. f = Try(format, at, 7)
    BY FormatsAre
  <2>2. /\ at.mday = 3 /\ at.mon = 2 /\ at.year = 7
        /\ at.hour = 4 /\ at.min = 5 /\ at.sec = 6
    BY DEF Order
  <2>3. v = Sscanf(format, text)
    BY DEF v
  <2> HIDE DEF at, f, format
  <2>4. f.at = at /\ f.format = format
    BY <2>1 DEF Try
  <2>5. Reading(f, text)
          = MomentOf(v[at.mday], v[at.mon], v[at.year], v[at.hour], v[at.min],
                     v[at.sec])
    BY <2>3, <2>4, ReadingIs, Zenon
  <2> QED BY <2>2, <2>5, Zenon DEF f
<1> QED BY <1>3, <1>15, <1>16, Zenon DEF text

LEMMA WrittenIs ==
  ASSUME NEW k \in 1 .. 7, NEW wday, NEW mday, NEW mon, NEW year, NEW second
  PROVE  LET W == Token(wday)  D == Number(mday)  M == Token(mon)  Y == Number(year)
             H == Number(second \div 3600)
             I == Number((second \div 60) % 60)
             S == Number(second % 60)
             text == Written(k, wday, mday, mon, year, second)
         IN
             /\ k = 1 => text = DayFirstText("-", D, M, Y, H, I, S)
             /\ k = 2 => text = DayFirstText(Blank, D, M, Y, H, I, S)
             /\ k = 3 => text = ClockFirstText("-", D, M, Y, H, I, S)
             /\ k = 4 => text = ClockFirstText(Blank, D, M, Y, H, I, S)
             /\ k = 5 => text = WeekdayFirstText("-", W, D, M, Y, H, I, S)
             /\ k = 6 => text = WeekdayFirstText(Blank, W, D, M, Y, H, I, S)
             /\ k = 7 => text = YearLastText(W, D, M, Y, H, I, S)
<1> DEFINE W == Token(wday)
           D == Number(mday)
           M == Token(mon)
           Y == Number(year)
           H == Number(second \div 3600)
           I == Number((second \div 60) % 60)
           S == Number(second % 60)
           b == Token(" ")
           c == Token(":")
           d == Token("-")
           a == Token(",")
           Z == Token(Zone)
           s == Token(IF k \in {1, 3, 5} THEN "-" ELSE " ")
           text == Written(k, wday, mday, mon, year, second)
<1>1. /\ k \in {1, 3, 5} => s = d
      /\ k \notin {1, 3, 5} => s = b
  OBVIOUS
<1>2. text = CASE k \in {1, 2} -> <<D, s, M, s, Y, b, H, c, I, c, S, b, Z>>
               [] k \in {3, 4} -> <<H, c, I, c, S, b, Z, b, D, s, M, s, Y>>
               [] k \in {5, 6} -> <<W, a, b, D, s, M, s, Y, b, H, c, I, c, S, b, Z>>
               [] k = 7 -> <<W, b, M, b, D, b, H, c, I, c, S, b, Z, b, Y>>
  BY Zenon DEF Written
<1>3. /\ DayFirstText("-", D, M, Y, H, I, S) = <<D, d, M, d, Y, b, H, c, I, c, S, b, Z>>
      /\ DayFirstText(Blank, D, M, Y, H, I, S) = <<D, b, M, b, Y, b, H, c, I, c, S, b, Z>>
      /\ ClockFirstText("-", D, M, Y, H, I, S) = <<H, c, I, c, S, b, Z, b, D, d, M, d, Y>>
      /\ ClockFirstText(Blank, D, M, Y, H, I, S) = <<H, c, I, c, S, b, Z, b, D, b, M, b, Y>>
      /\ WeekdayFirstText("-", W, D, M, Y, H, I, S) =
           <<W, a, b, D, d, M, d, Y, b, H, c, I, c, S, b, Z>>
      /\ WeekdayFirstText(Blank, W, D, M, Y, H, I, S) =
           <<W, a, b, D, b, M, b, Y, b, H, c, I, c, S, b, Z>>
      /\ YearLastText(W, D, M, Y, H, I, S) = <<W, b, M, b, D, b, H, c, I, c, S, b, Z, b, Y>>
  BY Zenon DEF Blank, DayFirstText, ClockFirstText, WeekdayFirstText, YearLastText
<1> HIDE DEF W, D, M, Y, H, I, S, a, b, c, d, s, Z, text
<1>4. k = 1 => text = DayFirstText("-", D, M, Y, H, I, S)
  <2> SUFFICES ASSUME k = 1 PROVE text = DayFirstText("-", D, M, Y, H, I, S)
    OBVIOUS
  <2>1. text = <<D, s, M, s, Y, b, H, c, I, c, S, b, Z>>
    BY <1>2
  <2>2. s = d
    BY <1>1
  <2> QED BY <1>3, <2>1, <2>2, Zenon
<1>5. k = 2 => text = DayFirstText(Blank, D, M, Y, H, I, S)
  <2> SUFFICES ASSUME k = 2 PROVE text = DayFirstText(Blank, D, M, Y, H, I, S)
    OBVIOUS
  <2>1. text = <<D, s, M, s, Y, b, H, c, I, c, S, b, Z>>
    BY <1>2
  <2>2. s = b
    BY <1>1
  <2> QED BY <1>3, <2>1, <2>2, Zenon
<1>6. k = 3 => text = ClockFirstText("-", D, M, Y, H, I, S)
  <2> SUFFICES ASSUME k = 3 PROVE text = ClockFirstText("-", D, M, Y, H, I, S)
    OBVIOUS
  <2>1. text = <<H, c, I, c, S, b, Z, b, D, s, M, s, Y>>
    BY <1>2
  <2>2. s = d
    BY <1>1
  <2> QED BY <1>3, <2>1, <2>2, Zenon
<1>7. k = 4 => text = ClockFirstText(Blank, D, M, Y, H, I, S)
  <2> SUFFICES ASSUME k = 4 PROVE text = ClockFirstText(Blank, D, M, Y, H, I, S)
    OBVIOUS
  <2>1. text = <<H, c, I, c, S, b, Z, b, D, s, M, s, Y>>
    BY <1>2
  <2>2. s = b
    BY <1>1
  <2> QED BY <1>3, <2>1, <2>2, Zenon
<1>8. k = 5 => text = WeekdayFirstText("-", W, D, M, Y, H, I, S)
  <2> SUFFICES ASSUME k = 5 PROVE text = WeekdayFirstText("-", W, D, M, Y, H, I, S)
    OBVIOUS
  <2>1. text = <<W, a, b, D, s, M, s, Y, b, H, c, I, c, S, b, Z>>
    BY <1>2
  <2>2. s = d
    BY <1>1
  <2> QED BY <1>3, <2>1, <2>2, Zenon
<1>9. k = 6 => text = WeekdayFirstText(Blank, W, D, M, Y, H, I, S)
  <2> SUFFICES ASSUME k = 6 PROVE text = WeekdayFirstText(Blank, W, D, M, Y, H, I, S)
    OBVIOUS
  <2>1. text = <<W, a, b, D, s, M, s, Y, b, H, c, I, c, S, b, Z>>
    BY <1>2
  <2>2. s = b
    BY <1>1
  <2> QED BY <1>3, <2>1, <2>2, Zenon
<1>10. k = 7 => text = YearLastText(W, D, M, Y, H, I, S)
  <2> SUFFICES ASSUME k = 7 PROVE text = YearLastText(W, D, M, Y, H, I, S)
    OBVIOUS
  <2>1. text = <<W, b, M, b, D, b, H, c, I, c, S, b, Z, b, Y>>
    BY <1>2
  <2> QED BY <1>3, <2>1, Zenon
<1> QED BY <1>4, <1>5, <1>6, <1>7, <1>8, <1>9, <1>10 DEF W, D, M, Y, H, I, S, text

LEMMA ClockParts ==
  ASSUME NEW n \in Nat
  PROVE  n \div 3600 \in Int /\ (n \div 60) % 60 \in Int /\ n % 60 \in Int
OBVIOUS

\* The broken-down time of a date and a second of the day.
TmOf(century, m, mday, second) ==
  [year |-> century, mon |-> m - 1, mday |-> mday, hour |-> second \div 3600,
   min |-> (second \div 60) % 60, sec |-> second % 60]

\* A date that is written in one of the formats is read by that one.
LEMMA ReadBack ==
  ASSUME NEW k \in 1 .. 7, NEW wday \in WdayNames, NEW m \in 1 .. 12,
         NEW mon \in {ShortName[m], LongName[m]}, NEW mday \in Int, NEW year \in Int,
         NEW second \in Nat
  PROVE  TdateParse(Written(k, wday, mday, mon, year, second))
           = TmToTime(TmOf(Century(year), m, mday, second))
<1> SUFFICES TdateParse(Written(k, wday, mday, mon, year, second))
               = TmToTime([year |-> Century(year), mon |-> m - 1, mday |-> mday,
                           hour |-> second \div 3600,
                           min |-> (second \div 60) % 60, sec |-> second % 60])
  BY DEF TmOf
<1> DEFINE W == Token(wday)
           D == Number(mday)
           M == Token(mon)
           Y == Number(year)
           H == Number(second \div 3600)
           I == Number((second \div 60) % 60)
           S == Number(second % 60)
           text == Written(k, wday, mday, mon, year, second)
<1>1. /\ W.w = wday /\ D.n = mday /\ M.w = mon /\ Y.n = year
      /\ H.n = second \div 3600 /\ I.n = (second \div 60) % 60 /\ S.n = second % 60
  BY DEF Token, Number
<1>2. ASSUME NEW n \in Int PROVE Numeral(Number(n))
  BY DEF Numeral, Number, Tok
<1>3. ASSUME NEW w \in ToSet(Words) PROVE Named(Token(w))
  BY DEF Named, Token, Tok, IsWord
<1>4. second \div 3600 \in Int /\ (second \div 60) % 60 \in Int /\ second % 60 \in Int
  BY ClockParts
<1>5. Legible(W, D, M, Y, H, I, S)
  <2>1. Numeral(D) /\ Numeral(Y) /\ Numeral(H) /\ Numeral(I) /\ Numeral(S)
    BY <1>2, <1>4
  <2>2. Named(W) /\ ScanWday(W.w) # NotFound
    BY <1>1, <1>3, ScanWdayRight
  <2>3. Named(M) /\ ScanMon(M.w) = m - 1
    BY <1>1, <1>3, ScanMonRight
  <2>4. m - 1 # NotFound
    BY DEF NotFound
  <2> QED BY <2>1, <2>2, <2>3, <2>4 DEF Legible, Fields
<1>6. ScanMon(M.w) = m - 1
  BY <1>1, ScanMonRight
<1>7. MomentOf(D, M, Y, H, I, S)
        = TmToTime([year |-> Century(year), mon |-> m - 1, mday |-> mday,
                    hour |-> second \div 3600, min |-> (second \div 60) % 60,
                    sec |-> second % 60])
  <2> HIDE DEF W, D, M, Y, H, I, S
  <2> QED BY <1>1, <1>6 DEF MomentOf
<1>8. /\ k = 1 => text = DayFirstText("-", D, M, Y, H, I, S)
      /\ k = 2 => text = DayFirstText(Blank, D, M, Y, H, I, S)
      /\ k = 3 => text = ClockFirstText("-", D, M, Y, H, I, S)
      /\ k = 4 => text = ClockFirstText(Blank, D, M, Y, H, I, S)
      /\ k = 5 => text = WeekdayFirstText("-", W, D, M, Y, H, I, S)
      /\ k = 6 => text = WeekdayFirstText(Blank, W, D, M, Y, H, I, S)
      /\ k = 7 => text = YearLastText(W, D, M, Y, H, I, S)
  BY WrittenIs
<1>9. k \in {1, 2, 3, 4, 5, 6, 7}
  OBVIOUS
<1> HIDE DEF W, D, M, Y, H, I, S, text
<1>10. TdateParse(text) = MomentOf(D, M, Y, H, I, S)
  <2>1. CASE k = 1
    <3>1. text = DayFirstText("-", D, M, Y, H, I, S)
      BY <1>8, <2>1, Zenon
    <3>2. TdateParse(DayFirstText("-", D, M, Y, H, I, S)) = MomentOf(D, M, Y, H, I, S)
      BY <1>5, Read1
    <3> QED BY <3>1, <3>2, Zenon
  <2>2. CASE k = 2
    <3>1. text = DayFirstText(Blank, D, M, Y, H, I, S)
      BY <1>8, <2>2, Zenon
    <3>2. TdateParse(DayFirstText(Blank, D, M, Y, H, I, S)) = MomentOf(D, M, Y, H, I, S)
      BY <1>5, Read2
    <3> QED BY <3>1, <3>2, Zenon
  <2>3. CASE k = 3
    <3>1. text = ClockFirstText("-", D, M, Y, H, I, S)
      BY <1>8, <2>3, Zenon
    <3>2. TdateParse(ClockFirstText("-", D, M, Y, H, I, S)) = MomentOf(D, M, Y, H, I, S)
      BY <1>5, Read3
    <3> QED BY <3>1, <3>2, Zenon
  <2>4. CASE k = 4
    <3>1. text = ClockFirstText(Blank, D, M, Y, H, I, S)
      BY <1>8, <2>4, Zenon
    <3>2. TdateParse(ClockFirstText(Blank, D, M, Y, H, I, S)) = MomentOf(D, M, Y, H, I, S)
      BY <1>5, Read4
    <3> QED BY <3>1, <3>2, Zenon
  <2>5. CASE k = 5
    <3>1. text = WeekdayFirstText("-", W, D, M, Y, H, I, S)
      BY <1>8, <2>5, Zenon
    <3>2. TdateParse(WeekdayFirstText("-", W, D, M, Y, H, I, S)) = MomentOf(D, M, Y, H, I, S)
      BY <1>5, Read5
    <3> QED BY <3>1, <3>2, Zenon
  <2>6. CASE k = 6
    <3>1. text = WeekdayFirstText(Blank, W, D, M, Y, H, I, S)
      BY <1>8, <2>6, Zenon
    <3>2. TdateParse(WeekdayFirstText(Blank, W, D, M, Y, H, I, S)) = MomentOf(D, M, Y, H, I, S)
      BY <1>5, Read6
    <3> QED BY <3>1, <3>2, Zenon
  <2>7. CASE k = 7
    <3>1. text = YearLastText(W, D, M, Y, H, I, S)
      BY <1>8, <2>7, Zenon
    <3>2. TdateParse(YearLastText(W, D, M, Y, H, I, S)) = MomentOf(D, M, Y, H, I, S)
      BY <1>5, Read7
    <3> QED BY <3>1, <3>2, Zenon
  <2> QED BY <1>9, <2>1, <2>2, <2>3, <2>4, <2>5, <2>6, <2>7
<1> QED BY <1>7, <1>10 DEF text

(***************************************************************************)
(* The calendar.                                                           *)
(***************************************************************************)
Since1900(y) == y - 1900

LEMMA CenturyRight ==
  ASSUME NEW y \in Era, NEW short \in BOOLEAN, short => InPivot(y)
  PROVE  YearGiven(y, short) \in Int /\ Century(YearGiven(y, short)) = Since1900(y)
<1> USE DEF Since1900, Era, InPivot, YearGiven
<1>1. CASE short /\ y < 2000
  <2>1. y % 100 = y - 1900
    BY <1>1
  <2> QED BY <1>1, <2>1 DEF Century
<1>2. CASE short /\ y >= 2000
  <2>1. y % 100 = y - 2000
    BY <1>2
  <2> QED BY <1>2, <2>1 DEF Century
<1>3. CASE ~short
  BY <1>3 DEF Century
<1> QED BY <1>1, <1>2, <1>3

LEMMA SecondsRight ==
  ASSUME NEW n \in Nat
  PROVE  ((n \div 3600) * 60 + ((n \div 60) % 60)) * 60 + (n % 60) = n
<1> DEFINE a == n \div 60
           s == n % 60
           K == a \div 60
           i == a % 60
<1>1. a \in Nat /\ s \in 0 .. 59 /\ n = a * 60 + s
  OBVIOUS
<1>2. K \in Nat /\ i \in 0 .. 59 /\ a = K * 60 + i
  BY <1>1
<1>3. n \div 3600 = K
  <2> DEFINE r == i * 60 + s
  <2> HIDE DEF a, s, K, i
  <2>1. n = K * 3600 + r /\ r \in 0 .. 3599
    BY <1>1, <1>2
  <2> HIDE DEF r
  <2> QED BY <1>2, <2>1
<1>4. (K * 60 + i) * 60 + s = n
  <2> HIDE DEF a, s, K, i
  <2> QED BY <1>1, <1>2
<1> QED BY <1>3, <1>4

\* The first and the last year that do not follow the rule of four are outside.
LEMMA LeapIs ==
  ASSUME NEW y \in Era
  PROVE  /\ LeapYear(y) <=> y % 4 = 0
         /\ IsLeap(y) <=> y % 4 = 0
<1>1. y % 100 = 0 <=> y = 2000
  BY DEF Era
<1>2. y % 400 = 0 <=> y = 2000
  BY DEF Era
<1>3. 2000 % 4 = 0
  OBVIOUS
<1> QED BY <1>1, <1>2, <1>3 DEF LeapYear, IsLeap

YearsOf(y) ==
  CHOOSE f : f = [i \in 1970 .. y |->
                    IF i = 1970 THEN 0 ELSE f[i - 1] + YearLength(i - 1)]
MonthsOf(y) ==
  CHOOSE f : f = [i \in 1 .. 12 |-> IF i = 1 THEN 0 ELSE f[i - 1] + DaysIn(y, i - 1)]

DaysOfYears(y) == (y - 1970) * 365 + ((y - 1969) \div 4)

LEMMA OneYear ==
  ASSUME NEW i \in Era, i - 1 \in Era
  PROVE  /\ DaysOfYears(i) \in Nat /\ DaysOfYears(i - 1) \in Nat
         /\ DaysOfYears(i) = DaysOfYears(i - 1) + YearLength(i - 1)
<1>0. i \in 1971 .. 2099
  BY DEF Era
<1>1. LeapYear(i - 1) <=> (i - 1) % 4 = 0
  <2> DEFINE j == i - 1
  <2>1. j \in Era
    OBVIOUS
  <2> HIDE DEF j
  <2>2. LeapYear(j) <=> j % 4 = 0
    BY <2>1, LeapIs
  <2> QED BY <2>2 DEF j
<1>2. CASE (i - 1) % 4 = 0
  <2>1. (i - 1969) \div 4 = ((i - 1) - 1969) \div 4 + 1
    BY <1>0, <1>2
  <2> QED BY <1>0, <1>1, <1>2, <2>1 DEF DaysOfYears, YearLength
<1>3. CASE (i - 1) % 4 # 0
  <2>1. (i - 1969) \div 4 = ((i - 1) - 1969) \div 4
    BY <1>0, <1>3
  <2> QED BY <1>0, <1>1, <1>3, <2>1 DEF DaysOfYears, YearLength
<1> QED BY <1>2, <1>3

LEMMA YearsRight ==
  ASSUME NEW y \in Era
  PROVE  YearsOf(y)[y] = DaysOfYears(y)
<1> DEFINE Eq(f) == f = [i \in 1970 .. y |->
                           IF i = 1970 THEN 0 ELSE f[i - 1] + YearLength(i - 1)]
           g == [i \in 1970 .. y |-> DaysOfYears(i)]
<1>0. y \in 1970 .. 2099
  BY DEF Era
<1>1. ASSUME NEW i \in 1970 .. y, i # 1970
      PROVE  /\ i - 1 \in 1970 .. y
             /\ DaysOfYears(i) = DaysOfYears(i - 1) + YearLength(i - 1)
  <2>1. i \in Era /\ i - 1 \in Era /\ i - 1 \in 1970 .. y
    BY <1>0, <1>1 DEF Era
  <2>2. DaysOfYears(i) = DaysOfYears(i - 1) + YearLength(i - 1)
    BY <2>1, OneYear
  <2> QED BY <2>1, <2>2
<1>2. DaysOfYears(1970) = 0
  BY DEF DaysOfYears
<1>3. Eq(g)
  <2>1. \A i \in 1970 .. y : g[i] = IF i = 1970 THEN 0 ELSE g[i - 1] + YearLength(i - 1)
    BY <1>1, <1>2
  <2> DEFINE F == [i \in 1970 .. y |->
                    IF i = 1970 THEN 0 ELSE g[i - 1] + YearLength(i - 1)]
  <2>2. DOMAIN g = DOMAIN F /\ \A i \in DOMAIN F : g[i] = F[i]
    BY <2>1
  <2>3. g = [i \in DOMAIN g |-> g[i]] /\ F = [i \in DOMAIN F |-> F[i]]
    OBVIOUS
  <2>4. g = F
    <3> HIDE DEF g, F
    <3> QED BY <2>2, <2>3
  <2> HIDE DEF g
  <2> QED BY <1>0, <2>4
<1>4. YearsOf(y) = CHOOSE f : Eq(f)
  BY DEF YearsOf
<1>5. Eq(YearsOf(y))
  <2> HIDE DEF Eq, g
  <2> QED BY <1>3, <1>4
<1> DEFINE f == YearsOf(y)
<1>6. ASSUME NEW i \in 1970 .. y
      PROVE  f[i] = IF i = 1970 THEN 0 ELSE f[i - 1] + YearLength(i - 1)
  <2> HIDE DEF f
  <2>1. Eq(f)
    BY <1>0, <1>5 DEF f
  <2> QED BY <1>0, <2>1
<1> HIDE DEF f
<1> DEFINE n == y - 1970
           P == {k \in 0 .. n : f[1970 + k] = DaysOfYears(1970 + k)}
<1>7. n \in Nat /\ 1970 + n = y
  BY <1>0
<1>8. 0 \in P
  <2>1. f[1970] = 0
    BY <1>0, <1>6
  <2> QED BY <1>0, <1>2, <2>1
<1>9. ASSUME NEW k \in 1 .. n, k - 1 \in P PROVE k \in P
  <2> DEFINE i == 1970 + k
  <2>1. i \in 1970 .. y /\ i # 1970 /\ i - 1 = 1970 + (k - 1) /\ k \in 0 .. n
    BY <1>0
  <2>2. f[i - 1] = DaysOfYears(i - 1)
    BY <1>9, <2>1
  <2> HIDE DEF i
  <2>3. f[i] = DaysOfYears(i)
    BY <1>1, <1>6, <2>1, <2>2
  <2> QED BY <2>1, <2>3 DEF i
<1>10. Inductive(P, n)
  BY <1>8, <1>9 DEF Inductive
<1> HIDE DEF P, n
<1>11. n \in P
  BY <1>7, <1>10, CountUp
<1> QED BY <1>7, <1>11 DEF P, f

DaysOfMonths(y, m) == monthtab[m] + (IF m >= 3 /\ LeapYear(y) THEN 1 ELSE 0)

LEMMA OneMonth ==
  ASSUME NEW y, NEW i \in 2 .. 12
  PROVE  DaysOfMonths(y, i) = DaysOfMonths(y, i - 1) + DaysIn(y, i - 1)
<1>1. /\ monthtab[1] = 0 /\ monthtab[2] = 31 /\ monthtab[3] = 59 /\ monthtab[4] = 90
      /\ monthtab[5] = 120 /\ monthtab[6] = 151 /\ monthtab[7] = 181
      /\ monthtab[8] = 212 /\ monthtab[9] = 243 /\ monthtab[10] = 273
      /\ monthtab[11] = 304 /\ monthtab[12] = 334
  BY DEF monthtab
<1>2. i \in {2, 3, 4, 5, 6, 7, 8, 9, 10, 11, 12}
  OBVIOUS
<1> QED BY <1>1, <1>2 DEF DaysOfMonths, DaysIn, LongMonths

LEMMA MonthsRight ==
  ASSUME NEW y, NEW m \in 1 .. 12
  PROVE  MonthsOf(y)[m] = DaysOfMonths(y, m)
<1> DEFINE Eq(f) == f = [i \in 1 .. 12 |->
                           IF i = 1 THEN 0 ELSE f[i - 1] + DaysIn(y, i - 1)]
           g == [i \in 1 .. 12 |-> DaysOfMonths(y, i)]
<1>1. \A i \in 1 .. 12 : i # 1 => i \in 2 .. 12 /\ i - 1 \in 1 .. 12
  OBVIOUS
<1>2. DaysOfMonths(y, 1) = 0
  BY DEF DaysOfMonths, monthtab
<1>3. Eq(g)
  <2>1. ASSUME NEW i \in 1 .. 12
        PROVE  g[i] = IF i = 1 THEN 0 ELSE g[i - 1] + DaysIn(y, i - 1)
    BY <1>1, <1>2, OneMonth
  <2> DEFINE F == [i \in 1 .. 12 |-> IF i = 1 THEN 0 ELSE g[i - 1] + DaysIn(y, i - 1)]
  <2>2. DOMAIN g = DOMAIN F /\ \A i \in DOMAIN F : g[i] = F[i]
    BY <2>1
  <2>3. g = [i \in DOMAIN g |-> g[i]] /\ F = [i \in DOMAIN F |-> F[i]]
    OBVIOUS
  <2>4. g = F
    <3> HIDE DEF g, F
    <3> QED BY <2>2, <2>3
  <2> QED BY <2>4, Zenon
<1>4. MonthsOf(y) = CHOOSE f : Eq(f)
  BY DEF MonthsOf
<1>5. Eq(MonthsOf(y))
  <2> HIDE DEF Eq, g
  <2> QED BY <1>3, <1>4
<1> DEFINE f == MonthsOf(y)
<1>6. ASSUME NEW i \in 1 .. 12
      PROVE  f[i] = IF i = 1 THEN 0 ELSE f[i - 1] + DaysIn(y, i - 1)
  <2> HIDE DEF f
  <2>1. Eq(f)
    BY <1>5 DEF f
  <2> QED BY <2>1
<1> HIDE DEF f
<1> DEFINE n == m - 1
           P == {k \in 0 .. n : f[k + 1] = DaysOfMonths(y, k + 1)}
<1>7. n \in Nat /\ n + 1 = m
  OBVIOUS
<1>8. 0 \in P
  <2>1. f[1] = 0
    BY <1>6
  <2> QED BY <1>2, <2>1
<1>9. ASSUME NEW k \in 1 .. n, k - 1 \in P PROVE k \in P
  <2> DEFINE i == k + 1
  <2>1. i \in 2 .. 12 /\ i - 1 = (k - 1) + 1 /\ k \in 0 .. n /\ i \in 1 .. 12 /\ i # 1
    OBVIOUS
  <2>2. f[i - 1] = DaysOfMonths(y, i - 1)
    BY <1>9, <2>1
  <2> HIDE DEF i
  <2>3. f[i] = DaysOfMonths(y, i)
    BY <1>6, <2>1, <2>2, OneMonth
  <2> QED BY <2>1, <2>3 DEF i
<1>10. Inductive(P, n)
  BY <1>8, <1>9 DEF Inductive
<1> HIDE DEF P, n
<1>11. n \in P
  BY <1>7, <1>10, CountUp
<1> QED BY <1>7, <1>11 DEF P, f

LEMMA TmToTimeRight ==
  ASSUME NEW y \in Era, NEW m \in 1 .. 12, NEW d \in 1 .. 31, NEW n \in Nat
  PROVE  TmToTime(TmOf(Since1900(y), m, d, n)) = <<DaysBefore(y, m, d), n>>
<1> SUFFICES TmToTime([year |-> y - 1900, mon |-> m - 1, mday |-> d,
                       hour |-> n \div 3600, min |-> (n \div 60) % 60,
                       sec |-> n % 60])
               = <<DaysBefore(y, m, d), n>>
  BY DEF TmOf, Since1900
<1> DEFINE tm == [year |-> y - 1900, mon |-> m - 1, mday |-> d, hour |-> n \div 3600,
                  min |-> (n \div 60) % 60, sec |-> n % 60]
<1>0. y \in 1970 .. 2099
  BY DEF Era
<1>1. DaysBefore(y, m, d) = YearsOf(y)[y] + MonthsOf(y)[m] + d - 1
  BY DEF DaysBefore, YearsOf, MonthsOf
<1>2. DaysBefore(y, m, d) = DaysOfYears(y) + DaysOfMonths(y, m) + d - 1
  <2> HIDE DEF tm
  <2>1. YearsOf(y)[y] = DaysOfYears(y)
    BY YearsRight
  <2>2. MonthsOf(y)[m] = DaysOfMonths(y, m)
    BY MonthsRight
  <2> QED BY <1>1, <2>1, <2>2
<1>3. /\ tm.year = y - 1900 /\ tm.mon = m - 1 /\ tm.mday = d
      /\ tm.hour = n \div 3600 /\ tm.min = (n \div 60) % 60 /\ tm.sec = n % 60
  OBVIOUS
<1> HIDE DEF tm
<1>4. TmToTime(tm) =
        <<(tm.year - 70) * 365 + ((tm.year - 69) \div 4) + monthtab[tm.mon + 1]
            + (IF tm.mon >= 2 /\ IsLeap(tm.year + 1900) THEN 1 ELSE 0) + tm.mday - 1,
          (tm.hour * 60 + tm.min) * 60 + tm.sec>>
  BY DEF TmToTime
<1>5. (tm.hour * 60 + tm.min) * 60 + tm.sec = n
  BY <1>3, SecondsRight
<1>6. (tm.year - 70) * 365 + ((tm.year - 69) \div 4) = DaysOfYears(y)
  <2>1. tm.year - 70 = y - 1970 /\ tm.year - 69 = y - 1969
    BY <1>0, <1>3
  <2> QED BY <2>1 DEF DaysOfYears
<1>7. monthtab[tm.mon + 1] + (IF tm.mon >= 2 /\ IsLeap(tm.year + 1900) THEN 1 ELSE 0)
        = DaysOfMonths(y, m)
  <2>1. tm.mon + 1 = m /\ (tm.mon >= 2 <=> m >= 3) /\ tm.year + 1900 = y
    BY <1>0, <1>3
  <2>2. IsLeap(y) <=> LeapYear(y)
    BY LeapIs
  <2> QED BY <2>1, <2>2 DEF DaysOfMonths
<1>8. DaysOfYears(y) \in Int /\ monthtab[m] \in Int
  <2>1. m \in {1, 2, 3, 4, 5, 6, 7, 8, 9, 10, 11, 12}
    OBVIOUS
  <2>2. monthtab[m] \in Int
    BY <2>1 DEF monthtab
  <2> QED BY <1>0, <2>2 DEF DaysOfYears
<1>9. (tm.year - 70) * 365 + ((tm.year - 69) \div 4) + monthtab[tm.mon + 1]
        + (IF tm.mon >= 2 /\ IsLeap(tm.year + 1900) THEN 1 ELSE 0) + tm.mday - 1
        = DaysBefore(y, m, d)
  <2> DEFINE A == (tm.year - 70) * 365 + ((tm.year - 69) \div 4)
             B == monthtab[tm.mon + 1]
             C == IF tm.mon >= 2 /\ IsLeap(tm.year + 1900) THEN 1 ELSE 0
  <2>1. A \in Int /\ B \in Int /\ C \in Int
    <3>1. tm.mon + 1 = m
      BY <1>3
    <3> QED BY <1>6, <1>8, <3>1
  <2>2. A = DaysOfYears(y) /\ B + C = DaysOfMonths(y, m) /\ tm.mday = d
    BY <1>3, <1>6, <1>7
  <2> HIDE DEF A, B, C
  <2>3. A + B + C + tm.mday - 1 = DaysBefore(y, m, d)
    BY <1>2, <2>1, <2>2
  <2> QED BY <2>3 DEF A, B, C
<1> QED BY <1>4, <1>5, <1>9 DEF tm

\* tdate_parse of a date that is written in one of its formats, with either way
\* to write a year and any name of a month, is the moment the calendar gives.
THEOREM DateRight ==
  ASSUME NEW k \in 1 .. 7, NEW wday \in WdayNames, NEW y \in Era,
         NEW m \in 1 .. 12, NEW d \in 1 .. 31,
         NEW mon \in {ShortName[m], LongName[m]}, NEW short \in BOOLEAN,
         short => InPivot(y), NEW second \in Nat
  PROVE  TdateParse(Written(k, wday, d, mon, YearGiven(y, short), second))
           = <<DaysBefore(y, m, d), second>>
<1> DEFINE year == YearGiven(y, short)
<1>1. year \in Int /\ Century(year) = Since1900(y)
  BY CenturyRight
<1>2. d \in Int
  OBVIOUS
<1> HIDE DEF year
<1>3. TdateParse(Written(k, wday, d, mon, year, second))
        = TmToTime(TmOf(Century(year), m, d, second))
  BY <1>1, <1>2, ReadBack
<1>4. TmToTime(TmOf(Since1900(y), m, d, second)) = <<DaysBefore(y, m, d), second>>
  BY TmToTimeRight, Zenon
<1>5. TdateParse(Written(k, wday, d, mon, year, second)) = <<DaysBefore(y, m, d), second>>
  BY <1>1, <1>3, <1>4
<1> QED BY <1>5 DEF year

(***************************************************************************)
(* The calls.                                                              *)
(***************************************************************************)
AllCalls == {NoCall} \cup MatchCalls \cup DateCalls \cup MimeCalls \cup B64Calls

LEMMA CallKept == CallSpec => [](call \in AllCalls)
<1>1. CallInit => call \in AllCalls
  BY DEF CallInit, AllCalls
<1>2. call \in AllCalls /\ [CallNext]_callVars => (call \in AllCalls)'
  BY DEF CallNext, callVars
<1> QED BY <1>1, <1>2, PTL DEF CallSpec

\* MatchAsDescribed, for every alphabet, pattern and string: a wildcard finds
\* its piece of the string whatever the pieces of the others are (match.c).
THEOREM MatchAlwaysAsDescribed == CallSpec => []MatchAsDescribed
<1>1. call \in AllCalls => MatchAsDescribed
  <2> SUFFICES ASSUME call \in AllCalls, Calling("match")
               PROVE  MatchAny(call[2], call[3]) <=> MatchDescribed(call[2], call[3])
    BY DEF MatchAsDescribed
  <2>1. call[1] = "match"
    BY DEF Calling
  <2>2. call \in MatchCalls
    BY <2>1, CallAssumption DEF AllCalls, NoCall
  <2>3. call \in {"match"} \X Seq(Chars) \X Seq(Chars)
    BY <2>2, MatchAssumption
  <2>4. call[2] \in Seq(Chars) /\ call[3] \in Seq(Chars)
    BY <2>3
  <2>5. Text(Chars, call[2]) /\ Text(Chars, call[3])
    BY <2>4, MatchAssumption DEF Text
  <2> QED BY <2>5, MatchRight
<1> QED BY <1>1, CallKept, PTL

\* DecodingRight, for every date of the years 1970 to 2099 in each format, all
\* tables and names, and all credentials: an earlier format does not take a later
\* one's text, no order of a table's entries is taken for granted, and the buffer
\* is filled but not overrun (tdate_parse.c; libhttpd.c, figure_mime, b64_decode).
THEOREM CallsAlwaysDecoded == CallSpec => []DecodingRight
<1>1. call \in AllCalls => DecodingRight
  <2> SUFFICES ASSUME call \in AllCalls PROVE DecodingRight
    OBVIOUS
  <2>1. ASSUME Calling("date")
        PROVE  TdateParse(call[2]) = <<DaysBefore(call[3], call[4], call[5]), call[6]>>
    <3>1. call \in DateCalls
      <4>1. call[1] = "date"
        BY <2>1 DEF Calling
      <4>2. \A c \in MatchCalls : c[1] = "match"
        BY MatchAssumption
      <4> QED BY <4>1, <4>2, CallAssumption DEF AllCalls, NoCall
    <3>2. GoodDateCall(call)
      BY <3>1, DecodingAssumption
    <3> DEFINE y == call[3]
               m == call[4]
               d == call[5]
               s == call[6]
    <3>3. y \in Era /\ m \in 1 .. 12 /\ d \in 1 .. 31 /\ InDay(s)
      BY <3>2 DEF GoodDateCall
    <3>4. \E k \in 1 .. 7, wday \in WdayNames, mon \in {ShortName[m], LongName[m]},
             short \in BOOLEAN :
            /\ short => InPivot(y)
            /\ call = DateCall(k, wday, y, m, d, mon, short, s)
      BY <3>2 DEF GoodDateCall
    <3>5. s \in Nat
      BY <3>3 DEF InDay
    <3> HIDE DEF y, m, d, s
    <3>6. PICK k \in 1 .. 7, wday \in WdayNames, mon \in {ShortName[m], LongName[m]},
               short \in BOOLEAN :
                 /\ short => InPivot(y)
                 /\ call = DateCall(k, wday, y, m, d, mon, short, s)
      BY <3>4
    <3> DEFINE text == Written(k, wday, d, mon, YearGiven(y, short), s)
    <3>7. call = <<"date", text, y, m, d, s>>
      BY <3>6 DEF DateCall
    <3>8. TdateParse(text) = <<DaysBefore(y, m, d), s>>
      BY <3>3, <3>5, <3>6, DateRight
    <3> HIDE DEF text
    <3>9. call[2] = text
      BY <3>7
    <3>10. TdateParse(call[2]) = <<DaysBefore(y, m, d), s>>
      BY <3>8, <3>9
    <3> QED BY <3>10 DEF y, m, d, s
  <2>2. ASSUME Calling("mime")
        PROVE  FigureMime(InitMime(call[2]), InitMime(call[3]), call[4])
                 = MimeDescribed(call[2], call[3], call[4])
    <3>1. call \in MimeCalls
      <4>1. call[1] = "mime"
        BY <2>2 DEF Calling
      <4>2. \A c \in MatchCalls : c[1] = "match"
        BY MatchAssumption
      <4> QED BY <4>1, <4>2, CallAssumption DEF AllCalls, NoCall
    <3>2. /\ GoodTable(call[2]) /\ GoodTable(call[3])
          /\ call[4] \in Seq(CStrings) \ {<<>>}
      BY <3>1, DecodingAssumption DEF GoodMimeCall
    <3> QED BY <3>2, MimeRight, Zenon
  <2>3. ASSUME Calling("b64")
        PROVE  B64Decode(Encode(call[2]), call[3])
                 = SubSeq(call[2], 1, IF Len(call[2]) < call[3] THEN Len(call[2])
                                      ELSE call[3])
    <3>1. call \in B64Calls
      <4>1. call[1] = "b64"
        BY <2>3 DEF Calling
      <4>2. \A c \in MatchCalls : c[1] = "match"
        BY MatchAssumption
      <4> QED BY <4>1, <4>2, CallAssumption DEF AllCalls, NoCall
    <3>2. call[2] \in Seq(0 .. 255) /\ call[3] \in Nat
      BY <3>1, DecodingAssumption
    <3>3. B64Decode(Encode(call[2]), call[3])
            = SubSeq(call[2], 1, Least(Len(call[2]), call[3]))
      BY <3>2, B64Right
    <3>4. Least(Len(call[2]), call[3])
            = IF Len(call[2]) < call[3] THEN Len(call[2]) ELSE call[3]
      BY <3>2 DEF Least
    <3> QED BY <3>3, <3>4, Zenon
  <2> QED BY <2>1, <2>2, <2>3, Zenon DEF DecodingRight
<1> QED BY <1>1, CallKept, PTL
=============================================================================
