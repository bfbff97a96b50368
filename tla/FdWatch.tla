------------------------------ MODULE FdWatch ------------------------------
(***************************************************************************)
(* fdwatch.c with the poll() back end, the one compiled on Linux: the      *)
(* array given to poll() is dense, so deleting a descriptor moves the last *)
(* entry, with its results, into the hole, and adding one reuses whatever  *)
(* results the entry after the last still has.                             *)
(*                                                                         *)
(* Abstracted: revents is what poll_check_fd makes of its bits: POLLERR    *)
(* first, then the event, POLLHUP and POLLNVAL counting as the one asked   *)
(* for; poll_rfdidx is its entries from next_ridx to nreturned - 1; a call *)
(* with a descriptor out of range, or watched or unwatched twice, is       *)
(* logged and changes nothing.                                             *)
(***************************************************************************)
EXTENDS Integers, Sequences, FiniteSets

CONSTANTS
  nfiles,               \* descriptors the process may have
  Client                \* client data

ASSUME NfilesAssumption == nfiles \in Nat \ {0}

Fd == 0 .. nfiles - 1
Revents == {"NONE", "IN", "OUT", "ERR"}
NoFd == -1

VARIABLES
  fd_rw, fd_data,
  pollfds,              \* entries [fd, events, revents]
  npoll_fds,
  poll_fdidx,           \* index in pollfds of each descriptor, or -1
  poll_rfdidx,          \* descriptors found ready, not yet returned
  asked                 \* history: watched since before the last poll()

pollVars == <<pollfds, npoll_fds, poll_fdidx>>
fvars == <<fd_rw, fd_data, pollVars, poll_rfdidx, asked>>

\* malloc leaves the results of the entries uninitialized.
FdInit ==
  /\ fd_rw = [fd \in Fd |-> "NONE"]
  /\ fd_data = [fd \in Fd |-> "NULL"]
  /\ \E junk \in [Fd -> Revents] :
       pollfds = [i \in Fd |-> [fd |-> NoFd, events |-> "NONE", revents |-> junk[i]]]
  /\ npoll_fds = 0
  /\ poll_fdidx = [fd \in Fd |-> -1]
  /\ poll_rfdidx = <<>>
  /\ asked = {}

Event(rw) == IF rw = "READ" THEN "IN" ELSE "OUT"

(***************************************************************************)
(* fdwatch_add_fd and poll_add_fd.                                         *)
(***************************************************************************)
PollAddFd(fd, rw) ==
  IF npoll_fds >= nfiles THEN UNCHANGED pollVars
  ELSE /\ pollfds' = [pollfds EXCEPT ![npoll_fds].fd = fd,
                                     ![npoll_fds].events = Event(rw)]
       /\ poll_fdidx' = [poll_fdidx EXCEPT ![fd] = npoll_fds]
       /\ npoll_fds' = npoll_fds + 1

AddFd(fd) ==
  /\ fd_rw[fd] = "NONE"
  /\ \E rw \in {"READ", "WRITE"}, client_data \in Client :
       /\ PollAddFd(fd, rw)
       /\ fd_rw' = [fd_rw EXCEPT ![fd] = rw]
       /\ fd_data' = [fd_data EXCEPT ![fd] = client_data]
  /\ UNCHANGED <<poll_rfdidx, asked>>

(***************************************************************************)
(* fdwatch_del_fd and poll_del_fd.                                         *)
(***************************************************************************)
\* Mutant: the descriptor of the entry that moves keeps its old index.
PollDelFdForgetsMoved(fd) ==
  LET idx == poll_fdidx[fd]
      last == npoll_fds - 1
  IN /\ npoll_fds' = last
     /\ pollfds' = [[pollfds EXCEPT ![idx] = pollfds[last]]
                      EXCEPT ![last].fd = NoFd]
     /\ poll_fdidx' = [poll_fdidx EXCEPT ![fd] = -1]

\* Mutant: the entry moves without its results.
PollDelFdLeavesResults(fd) ==
  LET idx == poll_fdidx[fd]
      last == npoll_fds - 1
  IN /\ npoll_fds' = last
     /\ pollfds' = [[pollfds EXCEPT ![idx].fd = pollfds[last].fd,
                                    ![idx].events = pollfds[last].events]
                      EXCEPT ![last].fd = NoFd]
     /\ poll_fdidx' = [[poll_fdidx EXCEPT ![pollfds[last].fd] = idx]
                         EXCEPT ![fd] = -1]

PollDelFd(fd) ==
  LET idx == poll_fdidx[fd]
      last == npoll_fds - 1
  IN IF idx \notin Fd THEN UNCHANGED pollVars
     ELSE /\ npoll_fds' = last
          /\ pollfds' = [[pollfds EXCEPT ![idx] = pollfds[last]]
                           EXCEPT ![last].fd = NoFd]
          /\ poll_fdidx' = [[poll_fdidx EXCEPT ![pollfds[last].fd] = idx]
                              EXCEPT ![fd] = -1]

DelFd(fd) ==
  /\ fd_rw[fd] # "NONE"
  /\ PollDelFd(fd)
  /\ fd_rw' = [fd_rw EXCEPT ![fd] = "NONE"]
  /\ fd_data' = [fd_data EXCEPT ![fd] = "NULL"]
  /\ asked' = asked \ {fd}
  /\ UNCHANGED poll_rfdidx

(***************************************************************************)
(* fdwatch and poll_watch.  poll() sets the results of the entries it is   *)
(* given: the event asked for, an error, or none.                          *)
(***************************************************************************)
Polled == 0 .. npoll_fds - 1

Ascending(s) == \A j, k \in DOMAIN s : j < k => s[j] < s[k]

\* poll_rfdidx is filled in the order of the array.
Watch ==
  /\ \E result \in [Polled -> Revents] :
       /\ \A i \in Polled : result[i] \in {pollfds[i].events, "ERR", "NONE"}
       /\ pollfds' = [i \in Fd |->
            IF i \in Polled THEN [pollfds[i] EXCEPT !.revents = result[i]]
            ELSE pollfds[i]]
       /\ LET Found == {i \in Polled : result[i] # "NONE"}
          IN \E found \in [1 .. Cardinality(Found) -> Found] :
               /\ Ascending(found)
               /\ poll_rfdidx' = [k \in DOMAIN found |-> pollfds[found[k]].fd]
  /\ asked' = {fd \in Fd : fd_rw[fd] # "NONE"}
  /\ UNCHANGED <<fd_rw, fd_data, npoll_fds, poll_fdidx>>

\* poll() is interrupted: the results of an earlier call stay.
WatchFails ==
  /\ poll_rfdidx' = <<>>
  /\ UNCHANGED <<fd_rw, fd_data, pollVars, asked>>

(***************************************************************************)
(* fdwatch_get_next_client_data.                                           *)
(***************************************************************************)
GetNextClientData ==
  /\ poll_rfdidx # <<>>
  /\ poll_rfdidx' = Tail(poll_rfdidx)
  /\ UNCHANGED <<fd_rw, fd_data, pollVars, asked>>

(***************************************************************************)
(* fdwatch_check_fd and poll_check_fd.                                     *)
(***************************************************************************)
CheckFd(fd) ==
  /\ poll_fdidx[fd] \in Fd
  /\ pollfds[poll_fdidx[fd]].revents = Event(fd_rw[fd])

FdNext ==
  \/ \E fd \in Fd : AddFd(fd) \/ DelFd(fd)
  \/ Watch \/ WatchFails \/ GetNextClientData

FdSpec == FdInit /\ [][FdNext]_fvars

-----------------------------------------------------------------------------
IsWatched(fd) == fd_rw[fd] # "NONE"

(***************************************************************************)
(* pollfds and poll_fdidx are inverse to one another over the watched      *)
(* descriptors, for whatever order descriptors come and go in: poll() is   *)
(* asked about each of them once, for its direction, and about no other,   *)
(* and none of the checks of the back end ever fails.                      *)
(***************************************************************************)
ArraysInverse ==
  /\ npoll_fds \in 0 .. nfiles
  /\ \A fd \in Fd : IsWatched(fd) <=> poll_fdidx[fd] # -1
  /\ \A fd \in Fd : IsWatched(fd) =>
       /\ poll_fdidx[fd] \in Polled
       /\ pollfds[poll_fdidx[fd]].fd = fd
       /\ pollfds[poll_fdidx[fd]].events = Event(fd_rw[fd])
  /\ \A i \in Polled :
       /\ pollfds[i].fd \in Fd
       /\ poll_fdidx[pollfds[i].fd] = i

(***************************************************************************)
(* What poll() said of a descriptor stays with it when its entry moves,    *)
(* and every descriptor found ready is handed out exactly once: the arrays *)
(* implement WatchList.                                                    *)
(***************************************************************************)
Said ==
  [fd \in Fd |-> IF fd \notin asked THEN "not asked"
                 ELSE IF CheckFd(fd) THEN "ready" ELSE "not ready"]

Pending == {poll_rfdidx[k] : k \in DOMAIN poll_rfdidx}

List == INSTANCE WatchList WITH
  watch <- [fd \in Fd |-> [rw |-> fd_rw[fd], data |-> fd_data[fd]]],
  ready <- Pending,
  said <- Said

ImplementsWatchList == List!Spec
=============================================================================
