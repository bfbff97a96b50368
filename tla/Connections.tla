---------------------------- MODULE Connections ----------------------------
(***************************************************************************)
(* The connection table of tweb (tweb.c): its free list, the file          *)
(* descriptor watch list it drives, the wakeup and linger timers it owns   *)
(* and the throttles its connections hold.  One action per outcome of each *)
(* handler that changes a connection; any handler may run at any time its  *)
(* dispatch condition holds.  Module EventLoop puts them in the order of   *)
(* the main loop.                                                          *)
(*                                                                         *)
(* Abstracted: the bytes read and written are counts of abstract units,    *)
(* the outcome of a system call is a choice of action, the rates that      *)
(* decide whether a throttle refuses a connection are a choice, and a      *)
(* timer that is scheduled may run at any later moment.                    *)
(***************************************************************************)
EXTENDS Integers, FiniteSets

CONSTANTS
  MaxConnects,          \* max_connects: slots of the connection table
  Fds,                  \* descriptors that accept() may return
  Throttles,            \* indices 0 .. numthrottles-1 of the throttle table
  MAXTHROTTLENUMS,      \* throttles one connection may hold
  IDLE_READ_TIMELIMIT,
  IDLE_SEND_TIMELIMIT,
  ReadRoom,             \* units the read buffer can grow to hold
  ReplySize             \* most units a reply (headers and file) may have

ASSUME ConnectionsAssumption ==
  /\ MaxConnects \in Nat \ {0}
  /\ -1 \notin Fds
  /\ Throttles \subseteq Nat
  /\ IsFiniteSet(Throttles)
  /\ MAXTHROTTLENUMS \in Nat
  /\ IDLE_READ_TIMELIMIT \in Nat \ {0}
  /\ IDLE_SEND_TIMELIMIT \in Nat \ {0}
  /\ ReadRoom \in Nat
  /\ ReplySize \in Nat

Conn == 0 .. MaxConnects - 1
ConnState == {"FREE", "READING", "SENDING", "PAUSING", "LINGERING"}

VARIABLES
  conn_state,           \* connects[c].conn_state
  first_free_connect,   \* head of the free list, -1 when it is empty
  next_free_connect,    \* connects[c].next_free_connect
  num_connects,         \* count of connections that are not free
  conn_fd,              \* connects[c].hc->conn_fd, -1 when closed
  watch,                \* fd_rw and fd_data of fdwatch.c
  wakeup_timer,         \* connects[c].wakeup_timer is not null
  linger_timer,         \* connects[c].linger_timer is not null
  wakeups,              \* wakeup timers scheduled in timers.c for c
  lingers,              \* linger timers scheduled in timers.c for c
  tnums,                \* throttles c holds: tnums[0 .. numtnums-1]
  num_sending,          \* throttles[t].num_sending
  should_linger,        \* connects[c].hc->should_linger
  todo,                 \* READING: room left in the read buffer;
                        \* SENDING, PAUSING: responselen + end_byte_index
                        \* - next_byte_index
  inactive,             \* now - active_at, up to the longest time limit,
                        \* while a time limit applies to the connection
  complaints            \* the paths of Complaint the code has taken

tableVars == <<first_free_connect, next_free_connect, num_connects>>
timerVars == <<wakeup_timer, linger_timer, wakeups, lingers>>
vars == <<conn_state, tableVars, conn_fd, watch, timerVars, tnums,
          num_sending, should_linger, todo, inactive, complaints>>

(***************************************************************************)
(* fdwatch.c, as its callers see it: which descriptors are watched, for    *)
(* what, and the connection given as client data.  Module FdWatch models   *)
(* the poll() arrays underneath.                                           *)
(***************************************************************************)
NotWatched == [rw |-> "NONE", data |-> -1]
WatchEntry == [rw : {"READ", "WRITE"}, data : Conn] \cup {NotWatched}

AddFd(w, fd, c, rw) ==
  IF fd \in Fds /\ w[fd] = NotWatched
    THEN [w EXCEPT ![fd] = [rw |-> rw, data |-> c]] ELSE w
DelFd(w, fd) ==
  IF fd \in Fds THEN [w EXCEPT ![fd] = NotWatched] ELSE w

(***************************************************************************)
(* What the code logs, exits on or traps on when its own books are wrong.  *)
(***************************************************************************)
Complaint ==
  {"bad fd passed to fdwatch_add_fd!", "bad fd passed to fdwatch_del_fd!",
   "replacing non-null wakeup_timer!", "replacing non-null linger_timer!",
   "the connects free list is messed up", "division by zero"}

Complain(words) == complaints' = complaints \cup words

BadAdd(w, fd) == IF fd \in Fds /\ w[fd] = NotWatched THEN {}
                 ELSE {"bad fd passed to fdwatch_add_fd!"}
BadDel(w, fd) == IF fd \in Fds /\ w[fd] # NotWatched THEN {}
                 ELSE {"bad fd passed to fdwatch_del_fd!"}

\* The watch list without c, which a pausing connection has already left.
Unwatched(c) ==
  IF conn_state[c] # "PAUSING" THEN DelFd(watch, conn_fd[c]) ELSE watch
BadUnwatch(c) ==
  IF conn_state[c] # "PAUSING" THEN BadDel(watch, conn_fd[c]) ELSE {}

(***************************************************************************)
(* Throttles.  check_throttles walks the table in index order, takes every *)
(* throttle whose pattern matches, and refuses the connection at the first *)
(* matching throttle whose rate is out of range: those taken before it     *)
(* stay taken.                                                             *)
(***************************************************************************)
Holders(t) == {c \in Conn : conn_state[c] # "FREE" /\ t \in tnums[c]}

Admits(held) == Cardinality(held) <= MAXTHROTTLENUMS
Refuses(held) ==
  /\ Cardinality(held) < MAXTHROTTLENUMS
  /\ \E r \in Throttles : \A t \in held : t < r

\* num_sending once a connection has taken every throttle of held.
Taken(held) ==
  [t \in Throttles |->
     IF t \notin held THEN num_sending[t]
     ELSE IF num_sending[t] < 0 THEN 1 ELSE num_sending[t] + 1]

\* clear_throttles, for a connection that holds held.
Released(held, sending) ==
  [t \in Throttles |-> IF t \in held THEN sending[t] - 1 ELSE sending[t]]

(***************************************************************************)
(* Closing.  linger, held and sending are the values of should_linger,     *)
(* tnums[c] and num_sending that the handler leaves before it closes.      *)
(***************************************************************************)
\* Mutant: num_connects is left alone.
PushFreeUncounted(c) ==
  /\ next_free_connect' = [next_free_connect EXCEPT ![c] = first_free_connect]
  /\ first_free_connect' = c
  /\ UNCHANGED num_connects

PushFree(c) ==
  /\ next_free_connect' = [next_free_connect EXCEPT ![c] = first_free_connect]
  /\ first_free_connect' = c
  /\ num_connects' = num_connects - 1

\* tmr_cancel on the timer a pointer names, if the pointer is not null.
CancelWakeup(c) ==
  IF wakeup_timer[c] THEN [wakeups EXCEPT ![c] = @ - 1] ELSE wakeups
CancelLinger(c) ==
  IF linger_timer[c] THEN [lingers EXCEPT ![c] = @ - 1] ELSE lingers

\* Neither what is left to transfer nor the inactivity of c is read again
\* before a new connection or a new reply sets them.
Forget(c) ==
  /\ todo' = [todo EXCEPT ![c] = 0]
  /\ inactive' = [inactive EXCEPT ![c] = 0]

ReallyClearConnection(c, linger, held, sending) ==
  /\ Forget(c)
  /\ conn_state' = [conn_state EXCEPT ![c] = "FREE"]
  /\ watch' = Unwatched(c)
  /\ Complain(BadUnwatch(c))
  /\ conn_fd' = [conn_fd EXCEPT ![c] = -1]
  /\ tnums' = [tnums EXCEPT ![c] = held]
  /\ num_sending' = Released(held, sending)
  /\ linger_timer' = [linger_timer EXCEPT ![c] = FALSE]
  /\ should_linger' = [should_linger EXCEPT ![c] = linger]
  /\ PushFree(c)

StartLingering(c, held, sending) ==
  /\ Forget(c)
  /\ conn_state' = [conn_state EXCEPT ![c] = "LINGERING"]
  /\ watch' = AddFd(Unwatched(c), conn_fd[c], c, "READ")
  /\ Complain(BadUnwatch(c) \cup BadAdd(Unwatched(c), conn_fd[c])
       \cup IF linger_timer[c] THEN {"replacing non-null linger_timer!"}
            ELSE {})
  /\ tnums' = [tnums EXCEPT ![c] = held]
  /\ num_sending' = sending
  /\ should_linger' = [should_linger EXCEPT ![c] = TRUE]
  /\ linger_timer' = [linger_timer EXCEPT ![c] = TRUE]
  /\ lingers' = [lingers EXCEPT ![c] = @ + 1]
  /\ UNCHANGED <<tableVars, conn_fd>>

ClearConnection(c, linger, held, sending) ==
  /\ wakeups' = CancelWakeup(c)
  /\ wakeup_timer' = [wakeup_timer EXCEPT ![c] = FALSE]
  /\ \/ /\ linger /\ conn_state[c] # "LINGERING"
        /\ StartLingering(c, held, sending)
     \/ /\ ~(linger /\ conn_state[c] # "LINGERING")
        /\ ReallyClearConnection(
             c, linger /\ conn_state[c] # "LINGERING", held, sending)
        /\ lingers' = CancelLinger(c)

\* Close with the request as it stands.
Close(c) == ClearConnection(c, should_linger[c], tnums[c], num_sending)

(***************************************************************************)
(* A connection becomes current when the main loop takes its descriptor    *)
(* from the ready list: fdwatch_get_next_client_data returns fd_data.      *)
(***************************************************************************)
Dispatched(c) == \E fd \in Fds : watch[fd].data = c

Init ==
  /\ conn_state = [c \in Conn |-> "FREE"]
  /\ next_free_connect =
       [c \in Conn |-> IF c = MaxConnects - 1 THEN -1 ELSE c + 1]
  /\ first_free_connect = 0
  /\ num_connects = 0
  /\ conn_fd = [c \in Conn |-> -1]
  /\ watch = [fd \in Fds |-> NotWatched]
  /\ wakeup_timer = [c \in Conn |-> FALSE]
  /\ linger_timer = [c \in Conn |-> FALSE]
  /\ wakeups = [c \in Conn |-> 0]
  /\ lingers = [c \in Conn |-> 0]
  /\ tnums = [c \in Conn |-> {}]
  /\ num_sending = [t \in Throttles |-> 0]
  /\ should_linger = [c \in Conn |-> FALSE]
  /\ todo = [c \in Conn |-> 0]
  /\ inactive = [c \in Conn |-> 0]
  /\ complaints = {}

-----------------------------------------------------------------------------
(***************************************************************************)
(* handle_newconnect, one turn of its loop.                                *)
(***************************************************************************)
FreeListOk ==
  /\ first_free_connect \in Conn
  /\ conn_state[first_free_connect] = "FREE"

Accept(c, fd) ==
  /\ conn_state' = [conn_state EXCEPT ![c] = "READING"]
  /\ first_free_connect' = next_free_connect[c]
  /\ next_free_connect' = [next_free_connect EXCEPT ![c] = -1]
  /\ num_connects' = num_connects + 1
  /\ conn_fd' = [conn_fd EXCEPT ![c] = fd]
  /\ wakeup_timer' = [wakeup_timer EXCEPT ![c] = FALSE]
  /\ linger_timer' = [linger_timer EXCEPT ![c] = FALSE]
  /\ tnums' = [tnums EXCEPT ![c] = {}]
  /\ should_linger' = [should_linger EXCEPT ![c] = FALSE]
  /\ todo' = [todo EXCEPT ![c] = ReadRoom]
  /\ inactive' = [inactive EXCEPT ![c] = 0]
  /\ watch' = AddFd(watch, fd, c, "READ")
  /\ Complain(BadAdd(watch, fd))
  /\ UNCHANGED <<wakeups, lingers, num_sending>>

\* accept() returns a descriptor that no open connection has; the code exits
\* when the table has room but its free list does not lead to a free slot.
NewConnect(fd) ==
  /\ num_connects < MaxConnects
  /\ \A d \in Conn : conn_fd[d] # fd
  /\ IF FreeListOk
       THEN Accept(first_free_connect, fd)
       ELSE /\ Complain({"the connects free list is messed up"})
            /\ UNCHANGED <<conn_state, tableVars, conn_fd, watch, timerVars,
                           tnums, num_sending, should_linger, todo, inactive>>

(***************************************************************************)
(* handle_read.                                                            *)
(***************************************************************************)
CanRead(c) == Dispatched(c) /\ conn_state[c] = "READING"

\* GR_NO_REQUEST: some bytes came, the request is not complete.
ReadMore(c) ==
  /\ CanRead(c)
  /\ \E sz \in 1 .. todo[c] : todo' = [todo EXCEPT ![c] = @ - sz]
  /\ inactive' = [inactive EXCEPT ![c] = 0]
  /\ UNCHANGED <<conn_state, tableVars, conn_fd, watch, timerVars, tnums,
                 num_sending, should_linger, complaints>>

\* The buffer is full, end of file, a read error or a malformed request.
ReadBad(c) == CanRead(c) /\ Close(c)

\* A complete request that cannot be parsed or resolved.
ReadUnparsable(c) ==
  /\ CanRead(c) /\ todo[c] > 0
  /\ \E linger \in BOOLEAN :
       ClearConnection(c, linger, tnums[c], num_sending)

\* 503: a throttle that matches the file refuses it.
ReadRefused(c) ==
  /\ CanRead(c) /\ todo[c] > 0
  /\ \E linger \in BOOLEAN, held \in SUBSET Throttles :
       /\ Refuses(held)
       /\ ClearConnection(c, linger, held, Taken(held))

\* An error page, a redirection, a CGI program, a listing, HEAD, 304 or an
\* empty file: the reply is already sent, or another process sends it.
ReadAnswered(c) ==
  /\ CanRead(c) /\ todo[c] > 0
  /\ \E linger \in BOOLEAN, held \in SUBSET Throttles :
       /\ Admits(held)
       /\ ClearConnection(c, linger, held, Taken(held))

\* A mapped file to send.
ReadStartsSending(c) ==
  /\ CanRead(c) /\ todo[c] > 0
  /\ \E linger \in BOOLEAN, held \in SUBSET Throttles, size \in 1 .. ReplySize :
       /\ Admits(held)
       /\ should_linger' = [should_linger EXCEPT ![c] = linger]
       /\ tnums' = [tnums EXCEPT ![c] = held]
       /\ num_sending' = Taken(held)
       /\ todo' = [todo EXCEPT ![c] = size]
  /\ conn_state' = [conn_state EXCEPT ![c] = "SENDING"]
  /\ inactive' = [inactive EXCEPT ![c] = 0]
  /\ LET w == DelFd(watch, conn_fd[c])
     IN /\ watch' = AddFd(w, conn_fd[c], c, "WRITE")
        /\ Complain(BadDel(watch, conn_fd[c]) \cup BadAdd(w, conn_fd[c]))
  /\ UNCHANGED <<tableVars, conn_fd, timerVars>>

(***************************************************************************)
(* handle_send.                                                            *)
(***************************************************************************)
CanSend(c) == Dispatched(c) /\ conn_state[c] = "SENDING"

\* Mutant: the descriptor of a pausing connection stays watched.
PauseWatched(c) ==
  /\ conn_state' = [conn_state EXCEPT ![c] = "PAUSING"]
  /\ wakeup_timer' = [wakeup_timer EXCEPT ![c] = TRUE]
  /\ wakeups' = [wakeups EXCEPT ![c] = @ + 1]
  /\ UNCHANGED <<tableVars, conn_fd, watch, linger_timer, lingers, tnums,
                 num_sending, should_linger, complaints>>

\* Leave the watch list until a new wakeup timer runs.
Pause(c) ==
  /\ conn_state' = [conn_state EXCEPT ![c] = "PAUSING"]
  /\ watch' = DelFd(watch, conn_fd[c])
  /\ wakeup_timer' = [wakeup_timer EXCEPT ![c] = TRUE]
  /\ wakeups' = [wakeups EXCEPT ![c] = @ + 1]
  /\ Complain(BadDel(watch, conn_fd[c])
       \cup IF wakeup_timer[c] THEN {"replacing non-null wakeup_timer!"}
            ELSE {})
  /\ UNCHANGED <<tableVars, conn_fd, linger_timer, lingers, tnums,
                 num_sending, should_linger>>

\* The write would block, or the share of the throttles is under 4 bytes a
\* second so that it asks for no byte at all.
SendBlocked(c) ==
  /\ CanSend(c)
  /\ Pause(c)
  /\ UNCHANGED <<todo, inactive>>

\* Part of the headers or of the file went out.
SendSome(c) ==
  /\ CanSend(c)
  /\ \E sz \in 1 .. todo[c] - 1 : todo' = [todo EXCEPT ![c] = @ - sz]
  /\ inactive' = [inactive EXCEPT ![c] = 0]
  /\ UNCHANGED <<conn_state, tableVars, conn_fd, watch, timerVars, tnums,
                 num_sending, should_linger, complaints>>

\* Part of the file went out, faster than the throttles allow.
SendTooFast(c) ==
  /\ CanSend(c) /\ tnums[c] # {}
  /\ \E sz \in 1 .. todo[c] - 1 : todo' = [todo EXCEPT ![c] = @ - sz]
  /\ inactive' = [inactive EXCEPT ![c] = 0]
  /\ Pause(c)

\* Everything is sent, or the write fails.
SendEnds(c) == CanSend(c) /\ Close(c)

(***************************************************************************)
(* handle_linger: end of file or an error.                                 *)
(***************************************************************************)
HandleLinger(c) ==
  /\ Dispatched(c) /\ conn_state[c] = "LINGERING"
  /\ ReallyClearConnection(c, should_linger[c], tnums[c], num_sending)
  /\ lingers' = CancelLinger(c)
  /\ UNCHANGED <<wakeup_timer, wakeups>>

\* The main loop, on a descriptor with an error event.
SomethingWentWrong(c) == Dispatched(c) /\ Close(c)

(***************************************************************************)
(* Timer callbacks.  tmr_run frees a one-shot timer after its callback.    *)
(***************************************************************************)
\* Mutant: the connection starts reading again.
WakeupToReading(c) ==
  /\ wakeups[c] > 0 /\ conn_state[c] = "PAUSING"
  /\ wakeups' = [wakeups EXCEPT ![c] = @ - 1]
  /\ wakeup_timer' = [wakeup_timer EXCEPT ![c] = FALSE]
  /\ conn_state' = [conn_state EXCEPT ![c] = "READING"]
  /\ watch' = AddFd(watch, conn_fd[c], c, "READ")
  /\ UNCHANGED <<tableVars, conn_fd, linger_timer, lingers, tnums,
                 num_sending, should_linger, todo, inactive, complaints>>

\* Mutant: c->wakeup_timer keeps pointing at the timer that has run.
WakeupKeepsPointer(c) ==
  /\ wakeups[c] > 0 /\ conn_state[c] = "PAUSING"
  /\ wakeups' = [wakeups EXCEPT ![c] = @ - 1]
  /\ conn_state' = [conn_state EXCEPT ![c] = "SENDING"]
  /\ watch' = AddFd(watch, conn_fd[c], c, "WRITE")
  /\ UNCHANGED <<tableVars, conn_fd, wakeup_timer, linger_timer, lingers,
                 tnums, num_sending, should_linger, todo, inactive, complaints>>

WakeupConnection(c) ==
  /\ wakeups[c] > 0
  /\ wakeups' = [wakeups EXCEPT ![c] = @ - 1]
  /\ wakeup_timer' = [wakeup_timer EXCEPT ![c] = FALSE]
  /\ IF conn_state[c] = "PAUSING"
       THEN /\ conn_state' = [conn_state EXCEPT ![c] = "SENDING"]
            /\ watch' = AddFd(watch, conn_fd[c], c, "WRITE")
            /\ Complain(BadAdd(watch, conn_fd[c]))
       ELSE UNCHANGED <<conn_state, watch, complaints>>
  /\ UNCHANGED <<tableVars, conn_fd, linger_timer, lingers, tnums,
                 num_sending, should_linger, todo, inactive>>

LingerClearConnection(c) ==
  /\ lingers[c] > 0
  /\ lingers' = [lingers EXCEPT ![c] = @ - 1]
  /\ ReallyClearConnection(c, should_linger[c], tnums[c], num_sending)
  /\ UNCHANGED <<wakeup_timer, wakeups>>

\* idle, for one connection of its loop.
\* Mutant: only connections that send are timed out.
OverdueSending(c) ==
  /\ conn_state[c] \in {"SENDING", "PAUSING"}
  /\ inactive[c] >= IDLE_SEND_TIMELIMIT

Overdue(c) ==
  \/ /\ conn_state[c] = "READING"
     /\ inactive[c] >= IDLE_READ_TIMELIMIT
  \/ /\ conn_state[c] \in {"SENDING", "PAUSING"}
     /\ inactive[c] >= IDLE_SEND_TIMELIMIT

Idle(c) == Overdue(c) /\ Close(c)

\* update_throttles divides the limit of every throttle that a sending
\* connection holds by the number of connections sending under it.
UpdateThrottles ==
  /\ Complain(
       IF \E c \in Conn : /\ conn_state[c] \in {"SENDING", "PAUSING"}
                          /\ \E t \in tnums[c] : num_sending[t] = 0
         THEN {"division by zero"} ELSE {})
  /\ UNCHANGED <<conn_state, tableVars, conn_fd, watch, timerVars, tnums,
                 num_sending, should_linger, todo, inactive>>

LongestLimit ==
  IF IDLE_READ_TIMELIMIT > IDLE_SEND_TIMELIMIT
    THEN IDLE_READ_TIMELIMIT ELSE IDLE_SEND_TIMELIMIT

\* A second passes in poll().
TimePasses ==
  /\ inactive' = [c \in Conn |->
       IF /\ conn_state[c] \in {"READING", "SENDING", "PAUSING"}
          /\ inactive[c] < LongestLimit
         THEN inactive[c] + 1 ELSE inactive[c]]
  /\ UNCHANGED <<conn_state, tableVars, conn_fd, watch, timerVars, tnums,
                 num_sending, should_linger, todo, complaints>>

HandleRead(c) ==
  \/ ReadMore(c) \/ ReadBad(c) \/ ReadUnparsable(c) \/ ReadRefused(c)
  \/ ReadAnswered(c) \/ ReadStartsSending(c)

HandleSend(c) ==
  \/ SendBlocked(c) \/ SendSome(c) \/ SendTooFast(c) \/ SendEnds(c)

Next ==
  \/ \E fd \in Fds : NewConnect(fd)
  \/ \E c \in Conn : \/ HandleRead(c) \/ HandleSend(c) \/ HandleLinger(c)
                     \/ SomethingWentWrong(c)
                     \/ WakeupConnection(c) \/ LingerClearConnection(c)
                     \/ Idle(c)
  \/ UpdateThrottles
  \/ TimePasses

Spec == Init /\ [][Next]_vars

-----------------------------------------------------------------------------
\* Every variable has its type.
TypeOK ==
  /\ conn_state \in [Conn -> ConnState]
  /\ first_free_connect \in Conn \cup {-1}
  /\ next_free_connect \in [Conn -> Conn \cup {-1}]
  /\ num_connects \in Int
  /\ conn_fd \in [Conn -> Fds \cup {-1}]
  /\ watch \in [Fds -> WatchEntry]
  /\ wakeup_timer \in [Conn -> BOOLEAN]
  /\ linger_timer \in [Conn -> BOOLEAN]
  /\ wakeups \in [Conn -> Int]
  /\ lingers \in [Conn -> Int]
  /\ tnums \in [Conn -> SUBSET Throttles]
  /\ num_sending \in [Throttles -> Int]
  /\ should_linger \in [Conn -> BOOLEAN]
  /\ todo \in [Conn -> Nat]
  /\ inactive \in [Conn -> Nat]
  /\ complaints \subseteq Complaint

FreeSlots == {c \in Conn : conn_state[c] = "FREE"}
InUse == Conn \ FreeSlots

(***************************************************************************)
(* The free list visits every free slot exactly once and nothing else, and *)
(* num_connects counts the others, whatever order connections were opened, *)
(* timed out, cleared by an error event or cleared by a timer               *)
(* (handle_newconnect and really_clear_connection keep both by hand).      *)
(***************************************************************************)
IsFreeList(n, s) ==
  /\ \A i, j \in 1 .. n : s[i] = s[j] => i = j
  /\ {s[i] : i \in 1 .. n} = FreeSlots
  /\ first_free_connect = IF n = 0 THEN -1 ELSE s[1]
  /\ \A i \in 1 .. n :
       next_free_connect[s[i]] = IF i = n THEN -1 ELSE s[i + 1]

FreeListSound ==
  /\ \E n \in 0 .. MaxConnects : \E s \in [1 .. n -> Conn] : IsFreeList(n, s)
  /\ num_connects = Cardinality(InUse)

(***************************************************************************)
(* A descriptor is watched exactly while its connection reads, sends or    *)
(* lingers, for the right direction and with that connection as its client *)
(* data, and no two connections share one: an event can never reach a      *)
(* slot that was freed, paused or given to another client.                 *)
(***************************************************************************)
Wanted(c) ==
  CASE conn_state[c] \in {"READING", "LINGERING"} -> "READ"
    [] conn_state[c] = "SENDING" -> "WRITE"
    [] OTHER -> "NONE"

WatchMatchesConnections ==
  /\ \A c \in Conn : conn_state[c] = "FREE" <=> conn_fd[c] = -1
  /\ \A c, d \in Conn : conn_fd[c] # -1 /\ conn_fd[c] = conn_fd[d] => c = d
  /\ \A c \in Conn : Wanted(c) # "NONE" =>
       watch[conn_fd[c]] = [rw |-> Wanted(c), data |-> c]
  /\ \A fd \in Fds : watch[fd] # NotWatched =>
       \E c \in Conn : conn_fd[c] = fd /\ Wanted(c) # "NONE"

(***************************************************************************)
(* A connection has a wakeup timer exactly while it pauses and a linger    *)
(* timer exactly while it lingers, one of each at most, and the pointers   *)
(* of the table are null exactly when the timers are gone.  A timer that   *)
(* outlives its connection would wake or clear the slot's next client.     *)
(***************************************************************************)
TimersMatchConnections ==
  \A c \in Conn :
    /\ wakeup_timer[c] <=> conn_state[c] = "PAUSING"
    /\ linger_timer[c] <=> conn_state[c] = "LINGERING"
    /\ wakeups[c] = IF wakeup_timer[c] THEN 1 ELSE 0
    /\ lingers[c] = IF linger_timer[c] THEN 1 ELSE 0

(***************************************************************************)
(* num_sending of a throttle is the number of open connections that hold   *)
(* it, however they came to close: refused half way through                *)
(* check_throttles, answered at once, timed out or lingering.              *)
(***************************************************************************)
SendingCountExact ==
  \A t \in Throttles : num_sending[t] = Cardinality(Holders(t))

(***************************************************************************)
(* None of the conditions the code logs as errors, exits on or would trap  *)
(* on arises: a messed up free list, a timer pointer overwritten while it  *)
(* is in use, a descriptor watched twice or unwatched twice, a division by *)
(* a zero num_sending in update_throttles.                                 *)
(***************************************************************************)
NoComplaints == complaints = {}

(***************************************************************************)
(* The table, its free list, the watched descriptors, the timers and the   *)
(* throttles' counts tell the same story of every connection, whichever    *)
(* way each of them came to its state.                                     *)
(***************************************************************************)
TablesAgree ==
  FreeListSound /\ WatchMatchesConnections /\ TimersMatchConnections /\ SendingCountExact

-----------------------------------------------------------------------------
(***************************************************************************)
(* What each descriptor's client sees (module Clients): every step of a    *)
(* handler or timer is a step of at most one client, forward, and the      *)
(* table never holds more than MaxConnects of them.                        *)
(***************************************************************************)
Serves(fd, states) ==
  \E c \in Conn : conn_fd[c] = fd /\ conn_state[c] \in states

ClientStage ==
  [fd \in Fds |-> CASE Serves(fd, {"READING"}) -> "request"
                    [] Serves(fd, {"SENDING", "PAUSING"}) -> "reply"
                    [] Serves(fd, {"LINGERING"}) -> "drain"
                    [] OTHER -> "closed"]

Client == INSTANCE Clients WITH stage <- ClientStage

ImplementsClients == Client!Spec
=============================================================================
