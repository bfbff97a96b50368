--------------------------- MODULE EventLoopProofs ---------------------------
(***************************************************************************)
(* Proofs about the connection table and the loop that drives it, for      *)
(* every size of the table, every set of descriptors and every throttle    *)
(* table.  First Connections: its invariants, and that it implements       *)
(* Clients.  Then EventLoop: it drives the table as Connections allows, so *)
(* that all this holds of the running server, and a server told to         *)
(* terminate takes no new client and loses none.                           *)
(***************************************************************************)
EXTENDS EventLoop, FiniteSetTheorems, TLAPS

LEMMA WatchOperations ==
  ASSUME NEW w \in [Fds -> WatchEntry], NEW fd, NEW c \in Conn,
         NEW rw \in {"READ", "WRITE"}
  PROVE  /\ AddFd(w, fd, c, rw) \in [Fds -> WatchEntry]
         /\ DelFd(w, fd) \in [Fds -> WatchEntry]
  BY DEF AddFd, DelFd, WatchEntry, NotWatched

LEMMA CountOperations ==
  ASSUME NEW f \in [Conn -> Int], NEW c \in Conn
  PROVE  /\ [f EXCEPT ![c] = @ + 1] \in [Conn -> Int]
         /\ [f EXCEPT ![c] = @ - 1] \in [Conn -> Int]
  OBVIOUS

LEMMA ThrottleOperations ==
  ASSUME num_sending \in [Throttles -> Int], NEW held
  PROVE  /\ Taken(held) \in [Throttles -> Int]
         /\ \A sending \in [Throttles -> Int] :
              Released(held, sending) \in [Throttles -> Int]
  BY DEF Taken, Released

LEMMA ReallyClearType ==
  ASSUME TypeOK, NEW c \in Conn, NEW linger \in BOOLEAN,
         NEW held \in SUBSET Throttles, NEW sending \in [Throttles -> Int],
         ReallyClearConnection(c, linger, held, sending),
         wakeup_timer' \in [Conn -> BOOLEAN], 
         wakeups' \in [Conn -> Int], lingers' \in [Conn -> Int]
  PROVE  TypeOK'
<1>1. watch' \in [Fds -> WatchEntry]
  BY WatchOperations DEF ReallyClearConnection, Unwatched, TypeOK
<1>2. num_sending' \in [Throttles -> Int]
  BY ThrottleOperations DEF ReallyClearConnection, TypeOK
<1>3. complaints' \subseteq Complaint
  BY DEF ReallyClearConnection, Complain, BadUnwatch, BadDel, Complaint, TypeOK
<1>4. /\ first_free_connect' \in Conn \cup {-1}
      /\ next_free_connect' \in [Conn -> Conn \cup {-1}]
      /\ num_connects' \in Int
  BY DEF ReallyClearConnection, PushFree, TypeOK
<1>5. /\ conn_state' \in [Conn -> ConnState]
      /\ conn_fd' \in [Conn -> Fds \cup {-1}]
      /\ tnums' \in [Conn -> SUBSET Throttles]
  BY DEF ReallyClearConnection, TypeOK, ConnState
<1>6. /\ linger_timer' \in [Conn -> BOOLEAN]
      /\ should_linger' \in [Conn -> BOOLEAN]
      /\ todo' \in [Conn -> Nat]
      /\ inactive' \in [Conn -> Nat]
  BY DEF ReallyClearConnection, Forget, TypeOK
<1>7. QED
  BY <1>1, <1>2, <1>3, <1>4, <1>5, <1>6 DEF TypeOK

LEMMA StartLingeringType ==
  ASSUME TypeOK, NEW c \in Conn,
         NEW held \in SUBSET Throttles, NEW sending \in [Throttles -> Int],
         StartLingering(c, held, sending),
         wakeup_timer' \in [Conn -> BOOLEAN], wakeups' \in [Conn -> Int]
  PROVE  TypeOK'
<1>1. watch' \in [Fds -> WatchEntry]
  BY WatchOperations DEF StartLingering, Unwatched, TypeOK
<1>2. complaints' \subseteq Complaint
  BY DEF StartLingering, Complain, BadUnwatch, BadDel, BadAdd,
     Complaint, TypeOK
<1>3. /\ conn_state' \in [Conn -> ConnState]
      /\ num_sending' \in [Throttles -> Int]
      /\ tnums' \in [Conn -> SUBSET Throttles]
  BY DEF StartLingering, TypeOK, ConnState
<1>4. lingers' \in [Conn -> Int]
  BY CountOperations DEF StartLingering, TypeOK
<1>5. /\ linger_timer' \in [Conn -> BOOLEAN]
      /\ should_linger' \in [Conn -> BOOLEAN]
      /\ todo' \in [Conn -> Nat]
      /\ inactive' \in [Conn -> Nat]
  BY DEF StartLingering, Forget, TypeOK
<1>6. QED
  BY <1>1, <1>2, <1>3, <1>4, <1>5 DEF StartLingering, tableVars, TypeOK

LEMMA ClearType ==
  ASSUME TypeOK, NEW c \in Conn, NEW linger \in BOOLEAN,
         NEW held \in SUBSET Throttles, NEW sending \in [Throttles -> Int],
         ClearConnection(c, linger, held, sending)
  PROVE  TypeOK'
<1>1. wakeup_timer' \in [Conn -> BOOLEAN] /\ wakeups' \in [Conn -> Int]
  BY DEF ClearConnection, CancelWakeup, TypeOK
<1>2. CancelLinger(c) \in [Conn -> Int]
  BY DEF CancelLinger, TypeOK
<1>3. QED
  BY <1>1, <1>2, ReallyClearType, StartLingeringType DEF ClearConnection

LEMMA InitType == Init => TypeOK
  BY ConnectionsAssumption
  DEF Init, TypeOK, Conn, ConnState, WatchEntry, NotWatched

LEMMA AcceptType ==
  ASSUME TypeOK, NEW c \in Conn, NEW fd \in Fds, Accept(c, fd)
  PROVE  TypeOK'
<1>1. watch' \in [Fds -> WatchEntry]
  BY WatchOperations DEF Accept, TypeOK
<1>2. complaints' \subseteq Complaint
  BY DEF Accept, Complain, BadAdd, Complaint, TypeOK
<1>3. /\ first_free_connect' \in Conn \cup {-1}
      /\ next_free_connect' \in [Conn -> Conn \cup {-1}]
      /\ num_connects' \in Int
      /\ wakeups' \in [Conn -> Int]
      /\ lingers' \in [Conn -> Int]
      /\ num_sending' \in [Throttles -> Int]
  BY DEF Accept, TypeOK
<1>4. /\ conn_state' \in [Conn -> ConnState]
      /\ conn_fd' \in [Conn -> Fds \cup {-1}]
      /\ tnums' \in [Conn -> SUBSET Throttles]
  BY DEF Accept, TypeOK, ConnState
<1>5. /\ wakeup_timer' \in [Conn -> BOOLEAN]
      /\ linger_timer' \in [Conn -> BOOLEAN]
      /\ should_linger' \in [Conn -> BOOLEAN]
  BY DEF Accept, TypeOK
<1>6. /\ todo' \in [Conn -> Nat]
      /\ inactive' \in [Conn -> Nat]
  BY ConnectionsAssumption DEF Accept, TypeOK
<1>7. QED
  BY <1>1, <1>2, <1>3, <1>4, <1>5, <1>6 DEF TypeOK

LEMMA PauseType ==
  ASSUME TypeOK, NEW c \in Conn, Pause(c),
         todo' \in [Conn -> Nat], inactive' \in [Conn -> Nat]
  PROVE  TypeOK'
<1>1. watch' \in [Fds -> WatchEntry]
  BY WatchOperations DEF Pause, TypeOK
<1>2. complaints' \subseteq Complaint
  BY DEF Pause, Complain, BadDel, Complaint, TypeOK
<1>3. wakeups' \in [Conn -> Int]
  BY CountOperations DEF Pause, TypeOK
<1>4. /\ conn_state' \in [Conn -> ConnState]
      /\ wakeup_timer' \in [Conn -> BOOLEAN]
  BY DEF Pause, TypeOK, ConnState
<1>5. QED
  BY <1>1, <1>2, <1>3, <1>4 DEF Pause, tableVars, TypeOK

LEMMA StartsSendingType ==
  ASSUME TypeOK, NEW c \in Conn, ReadStartsSending(c)
  PROVE  TypeOK'
<1>1. watch' \in [Fds -> WatchEntry]
  BY WatchOperations DEF ReadStartsSending, TypeOK
<1>2. complaints' \subseteq Complaint
  BY DEF ReadStartsSending, Complain, BadDel, BadAdd, Complaint, TypeOK
<1>3. num_sending' \in [Throttles -> Int]
  BY ThrottleOperations DEF ReadStartsSending, TypeOK
<1>4. /\ conn_state' \in [Conn -> ConnState]
      /\ inactive' \in [Conn -> Nat]
      /\ should_linger' \in [Conn -> BOOLEAN]
  BY DEF ReadStartsSending, TypeOK, ConnState
<1>5. tnums' \in [Conn -> SUBSET Throttles]
  BY DEF ReadStartsSending, TypeOK
<1>6. todo' \in [Conn -> Nat]
  BY ConnectionsAssumption DEF ReadStartsSending, TypeOK
<1>7. QED
  BY <1>1, <1>2, <1>3, <1>4, <1>5, <1>6
  DEF ReadStartsSending, tableVars, timerVars, TypeOK

LEMMA WakeupType ==
  ASSUME TypeOK, NEW c \in Conn, WakeupConnection(c)
  PROVE  TypeOK'
<1>1. watch' \in [Fds -> WatchEntry]
  BY WatchOperations DEF WakeupConnection, TypeOK
<1>2. complaints' \subseteq Complaint
  BY DEF WakeupConnection, Complain, BadAdd, Complaint, TypeOK
<1>3. wakeups' \in [Conn -> Int]
  BY DEF WakeupConnection, TypeOK
<1>4. /\ conn_state' \in [Conn -> ConnState]
      /\ wakeup_timer' \in [Conn -> BOOLEAN]
  BY DEF WakeupConnection, TypeOK, ConnState
<1>5. QED
  BY <1>1, <1>2, <1>3, <1>4 DEF WakeupConnection, tableVars, TypeOK

(***************************************************************************)
(* The free list.                                                          *)
(***************************************************************************)
LEMMA ConnFinite ==
  /\ IsFiniteSet(Conn) /\ Cardinality(Conn) = MaxConnects
  /\ \A S \in SUBSET Conn : IsFiniteSet(S) /\ Cardinality(S) \in Nat
<1>1. IsFiniteSet(Conn) /\ Cardinality(Conn) = MaxConnects
  BY FS_Interval, ConnectionsAssumption DEF Conn
<1>2. QED
  BY <1>1, FS_Subset, FS_CardinalityType

\* A list of distinct slots is no longer than the table.
LEMMA ListLength ==
  ASSUME NEW n \in Nat, NEW s \in [1 .. n -> Conn],
         \A i, j \in 1 .. n : s[i] = s[j] => i = j
  PROVE  n <= MaxConnects
<1>1. s \in Injection(1 .. n, Conn)
  BY DEF Injection, IsInjective
<1>2. IsFiniteSet(1 .. n) /\ Cardinality(1 .. n) = n
  BY FS_Interval
<1>3. QED
  BY <1>1, <1>2, FS_Injection, ConnFinite

LEMMA ListImage ==
  ASSUME NEW n, NEW s, NEW S,
         \A i \in 1 .. n : s[i] \in S,
         \A x \in S : \E i \in 1 .. n : s[i] = x
  PROVE  {s[i] : i \in 1 .. n} = S
  OBVIOUS

LEMMA PushKeepsFreeList ==
  ASSUME TypeOK, FreeListSound, NEW c \in Conn, conn_state[c] # "FREE",
         PushFree(c), conn_state' = [conn_state EXCEPT ![c] = "FREE"]
  PROVE  FreeListSound'
<1>1. FreeSlots' = FreeSlots \cup {c} /\ c \notin FreeSlots
  BY DEF FreeSlots, TypeOK
<1>2. num_connects' = Cardinality(InUse')
  <2>1. InUse' = InUse \ {c} /\ c \in InUse /\ IsFiniteSet(InUse)
    BY <1>1, ConnFinite DEF InUse
  <2>2. QED
    BY <2>1, FS_RemoveElement DEF PushFree, FreeListSound
<1>n. PICK n \in 0 .. MaxConnects : \E s \in [1 .. n -> Conn] : IsFreeList(n, s)
  BY DEF FreeListSound
<1>3. PICK s \in [1 .. n -> Conn] : IsFreeList(n, s)
  BY <1>n
<1> DEFINE m == n + 1
           t == [i \in 1 .. m |-> IF i = 1 THEN c ELSE s[i - 1]]
<1>4. n \in Nat /\ t \in [1 .. m -> Conn]
  BY ConnectionsAssumption
<1>5. \A i \in 1 .. n : s[i] # c
  BY <1>1, <1>3 DEF IsFreeList
<1>6. \A i, j \in 1 .. m : t[i] = t[j] => i = j
  BY <1>3, <1>4, <1>5 DEF IsFreeList
<1>7. {t[i] : i \in 1 .. m} = FreeSlots'
  <2>1. \A x \in FreeSlots : \E i \in 1 .. n : s[i] = x
    BY <1>3 DEF IsFreeList
  <2>2. \A i \in 1 .. n : s[i] \in FreeSlots
    BY <1>3 DEF IsFreeList
  <2>3. \A i \in 1 .. n : i + 1 \in 1 .. m /\ t[i + 1] = s[i]
    BY <1>4
  <2>4. 1 \in 1 .. m /\ t[1] = c
    BY <1>4
  <2>5. \A i \in 1 .. m : i # 1 => i - 1 \in 1 .. n /\ t[i] = s[i - 1]
    BY <1>4
  <2>6. \A i \in 1 .. m : t[i] \in FreeSlots'
    BY <1>1, <2>2, <2>4, <2>5
  <2>7. \A x \in FreeSlots' : \E i \in 1 .. m : t[i] = x
    <3> SUFFICES ASSUME NEW x \in FreeSlots'
                 PROVE  \E i \in 1 .. m : t[i] = x
      OBVIOUS
    <3>1. CASE x = c
      BY <3>1, <2>4
    <3>2. CASE x # c
      <4>1. PICK i \in 1 .. n : s[i] = x
        BY <1>1, <3>2, <2>1
      <4>2. QED
        BY <4>1, <2>3
    <3>3. QED
      BY <3>1, <3>2
  <2> HIDE DEF m, t
  <2>8. QED
    BY <2>6, <2>7, ListImage
<1>8. first_free_connect' = t[1]
  BY <1>4 DEF PushFree
<1>9. \A i \in 1 .. m :
        next_free_connect'[t[i]] = IF i = m THEN -1 ELSE t[i + 1]
  <2> SUFFICES ASSUME NEW i \in 1 .. m
               PROVE  next_free_connect'[t[i]] = IF i = m THEN -1 ELSE t[i + 1]
    OBVIOUS
  <2>1. CASE i = 1
    <3>1. next_free_connect'[c] = first_free_connect
      BY DEF PushFree, TypeOK
    <3>2. first_free_connect = IF n = 0 THEN -1 ELSE s[1]
      BY <1>3 DEF IsFreeList
    <3>3. QED
      BY <2>1, <1>4, <3>1, <3>2
  <2>2. CASE i # 1
    <3>1. i - 1 \in 1 .. n /\ t[i] = s[i - 1]
      BY <2>2, <1>4
    <3>2. next_free_connect'[t[i]] = next_free_connect[s[i - 1]]
      BY <3>1, <1>5 DEF PushFree, TypeOK
    <3>3. next_free_connect[s[i - 1]] = IF i - 1 = n THEN -1 ELSE s[i]
      BY <1>3, <3>1, <1>4 DEF IsFreeList
    <3>4. QED
      BY <3>1, <3>2, <3>3, <2>2, <1>4
  <2>3. QED
    BY <2>1, <2>2
<1>10. m \in 0 .. MaxConnects
  <2>1. m \in Nat /\ m >= 0
    BY <1>4
  <2> HIDE DEF m, t
  <2>2. m <= MaxConnects
    BY <1>4, <1>6, <2>1, ListLength
  <2>3. QED
    BY <2>1, <2>2, ConnectionsAssumption
<1>11. IsFreeList(m, t)'
  <2>1. m # 0
    BY <1>4
  <2> HIDE DEF m, t
  <2> QED BY <1>6, <1>7, <1>8, <1>9, <2>1 DEF IsFreeList
<1>12. QED
  BY <1>2, <1>4, <1>10, <1>11 DEF FreeListSound

\* handle_newconnect finds a free slot whenever the table has room.
LEMMA RoomMeansFreeSlot ==
  ASSUME TypeOK, FreeListSound, num_connects < MaxConnects
  PROVE  FreeListOk
<1>1. FreeSlots # {}
  <2>1. SUFFICES ASSUME FreeSlots = {} PROVE FALSE
    OBVIOUS
  <2>2. InUse = Conn
    BY <2>1 DEF InUse
  <2>3. QED
    BY <2>2, ConnFinite, ConnectionsAssumption DEF FreeListSound
<1>n. PICK n \in 0 .. MaxConnects : \E s \in [1 .. n -> Conn] : IsFreeList(n, s)
  BY DEF FreeListSound
<1>2. PICK s \in [1 .. n -> Conn] : IsFreeList(n, s)
  BY <1>n
<1>3. PICK i \in 1 .. n : s[i] \in FreeSlots
  BY <1>1, <1>2 DEF IsFreeList
<1>4. 1 \in 1 .. n /\ n # 0
  BY <1>3
<1>5. first_free_connect = s[1] /\ s[1] \in FreeSlots
  BY <1>2, <1>4 DEF IsFreeList
<1>6. QED
  BY <1>5 DEF FreeListOk, FreeSlots

LEMMA PopKeepsFreeList ==
  ASSUME TypeOK, FreeListSound, NEW c \in Conn, c = first_free_connect,
         conn_state[c] = "FREE",
         conn_state' = [conn_state EXCEPT ![c] = "READING"],
         first_free_connect' = next_free_connect[c],
         next_free_connect' = [next_free_connect EXCEPT ![c] = -1],
         num_connects' = num_connects + 1
  PROVE  FreeListSound'
<1>1. FreeSlots' = FreeSlots \ {c} /\ c \in FreeSlots
  BY DEF FreeSlots, TypeOK
<1>2. num_connects' = Cardinality(InUse')
  <2>1. InUse' = InUse \cup {c} /\ c \notin InUse /\ IsFiniteSet(InUse)
    BY <1>1, ConnFinite DEF InUse
  <2>2. QED
    BY <2>1, FS_AddElement DEF FreeListSound
<1>n. PICK n \in 0 .. MaxConnects : \E s \in [1 .. n -> Conn] : IsFreeList(n, s)
  BY DEF FreeListSound
<1>3. PICK s \in [1 .. n -> Conn] : IsFreeList(n, s)
  BY <1>n
<1> DEFINE m == n - 1
           t == [i \in 1 .. m |-> s[i + 1]]
<1>4. n # 0 /\ s[1] = c /\ m \in Nat
  <2>1. c # -1
    BY DEF Conn
  <2>2. n # 0
    BY <1>3, <2>1 DEF IsFreeList
  <2>3. QED
    BY <1>3, <2>2 DEF IsFreeList
<1>5. /\ t \in [1 .. m -> Conn] /\ m \in 0 .. MaxConnects
      /\ \A i \in 1 .. m : i + 1 \in 1 .. n /\ t[i] = s[i + 1]
      /\ \A i \in 1 .. n : i # 1 => i - 1 \in 1 .. m /\ t[i - 1] = s[i]
  BY <1>4, ConnectionsAssumption
<1>6. \A i, j \in 1 .. m : t[i] = t[j] => i = j
  <2> SUFFICES ASSUME NEW i \in 1 .. m, NEW j \in 1 .. m, t[i] = t[j]
               PROVE  i = j
    OBVIOUS
  <2>1. s[i + 1] = s[j + 1] /\ i + 1 \in 1 .. n /\ j + 1 \in 1 .. n
    BY <1>5
  <2>2. i + 1 = j + 1
    BY <2>1, <1>3 DEF IsFreeList
  <2>3. QED
    BY <2>2
<1>7. \A i \in 1 .. n : s[i] = c => i = 1
  <2>1. 1 \in 1 .. n
    BY <1>4
  <2>2. QED
    BY <2>1, <1>4, <1>3 DEF IsFreeList
<1>8. {t[i] : i \in 1 .. m} = FreeSlots'
  <2>1. \A i \in 1 .. m : t[i] \in FreeSlots'
    <3> SUFFICES ASSUME NEW i \in 1 .. m PROVE t[i] \in FreeSlots'
      OBVIOUS
    <3>1. i + 1 \in 1 .. n /\ t[i] = s[i + 1] /\ i + 1 # 1
      BY <1>5
    <3>2. s[i + 1] \in FreeSlots /\ s[i + 1] # c
      BY <3>1, <1>7, <1>3 DEF IsFreeList
    <3>3. QED
      BY <3>1, <3>2, <1>1
  <2>2. \A x \in FreeSlots' : \E i \in 1 .. m : t[i] = x
    <3> SUFFICES ASSUME NEW x \in FreeSlots'
                 PROVE  \E i \in 1 .. m : t[i] = x
      OBVIOUS
    <3>1. PICK i \in 1 .. n : s[i] = x
      BY <1>1, <1>3 DEF IsFreeList
    <3>2. i # 1
      BY <3>1, <1>1, <1>4
    <3>3. QED
      BY <3>1, <3>2, <1>5
  <2> HIDE DEF m, t
  <2>3. QED
    BY <2>1, <2>2, ListImage
<1>9. first_free_connect' = IF m = 0 THEN -1 ELSE t[1]
  <2>1. 1 \in 1 .. n
    BY <1>4
  <2>2. next_free_connect[s[1]] = IF 1 = n THEN -1 ELSE s[1 + 1]
    BY <2>1, <1>3 DEF IsFreeList
  <2>3. QED
    BY <2>2, <1>4
<1>10. \A i \in 1 .. m :
         next_free_connect'[t[i]] = IF i = m THEN -1 ELSE t[i + 1]
  <2> SUFFICES ASSUME NEW i \in 1 .. m
               PROVE  next_free_connect'[t[i]] = IF i = m THEN -1 ELSE t[i + 1]
    OBVIOUS
  <2>1. i + 1 \in 1 .. n /\ t[i] = s[i + 1] /\ s[i + 1] # c /\ s[i + 1] \in Conn
    BY <1>5, <1>7
  <2>2. next_free_connect'[t[i]] = next_free_connect[s[i + 1]]
    BY <2>1 DEF TypeOK
  <2>3. next_free_connect[s[i + 1]] = IF i + 1 = n THEN -1 ELSE s[(i + 1) + 1]
    BY <1>3, <2>1 DEF IsFreeList
  <2>4. QED
    BY <2>2, <2>3, <1>4
<1>11. IsFreeList(m, t)'
  BY <1>5, <1>6, <1>8, <1>9, <1>10 DEF IsFreeList
<1>12. QED
  BY <1>2, <1>5, <1>11 DEF FreeListSound

LEMMA SameFreeSlots ==
  ASSUME FreeListSound, FreeSlots' = FreeSlots, UNCHANGED tableVars
  PROVE  FreeListSound'
  BY DEF FreeListSound, IsFreeList, InUse, tableVars

(***************************************************************************)
(* The inductive invariant: a connection that is still reading has not     *)
(* gone through check_throttles, so that taking throttles cannot forget    *)
(* the ones it holds.                                                      *)
(***************************************************************************)
ReadingHoldsNothing ==
  \A c \in Conn : conn_state[c] = "READING" => tnums[c] = {}

IInv ==
  /\ TypeOK
  /\ FreeListSound
  /\ WatchMatchesConnections
  /\ TimersMatchConnections
  /\ SendingCountExact
  /\ ReadingHoldsNothing
  /\ NoComplaints

(***************************************************************************)
(* The watch list.                                                         *)
(***************************************************************************)
EntryOf(c, st) ==
  CASE st \in {"READING", "LINGERING"} -> [rw |-> "READ", data |-> c]
    [] st = "SENDING" -> [rw |-> "WRITE", data |-> c]
    [] OTHER -> NotWatched

LEMMA UsedDescriptor ==
  ASSUME TypeOK, WatchMatchesConnections, NEW c \in Conn,
         conn_state[c] # "FREE"
  PROVE  /\ conn_fd[c] \in Fds
         /\ watch[conn_fd[c]] = EntryOf(c, conn_state[c])
<1>1. conn_fd[c] \in Fds
  BY DEF TypeOK, WatchMatchesConnections
<1>2. CASE Wanted(c) # "NONE"
  BY <1>1, <1>2 DEF WatchMatchesConnections, EntryOf, Wanted
<1>3. CASE Wanted(c) = "NONE"
  <2>1. EntryOf(c, conn_state[c]) = NotWatched
    BY <1>3 DEF EntryOf, Wanted
  <2>2. \A d \in Conn : conn_fd[d] = conn_fd[c] => d = c
    BY <1>1, ConnectionsAssumption DEF WatchMatchesConnections
  <2>3. QED
    BY <1>1, <1>3, <2>1, <2>2 DEF WatchMatchesConnections
<1>4. QED
  BY <1>2, <1>3

LEMMA DispatchedWanted ==
  ASSUME TypeOK, WatchMatchesConnections, NEW c \in Conn, Dispatched(c)
  PROVE  Wanted(c) # "NONE" /\ conn_state[c] # "FREE"
<1>1. PICK fd \in Fds : watch[fd].data = c
  BY DEF Dispatched
<1>2. watch[fd] # NotWatched
  BY <1>1 DEF NotWatched, Conn
<1>3. PICK d \in Conn : conn_fd[d] = fd /\ Wanted(d) # "NONE"
  BY <1>2 DEF WatchMatchesConnections
<1>4. watch[fd] = [rw |-> Wanted(d), data |-> d]
  BY <1>3 DEF WatchMatchesConnections
<1>5. d = c
  BY <1>1, <1>4
<1>6. QED
  BY <1>3, <1>5 DEF Wanted

\* A connection in use changes state and its watch entry with it.
LEMMA RewatchKeepsMatch ==
  ASSUME TypeOK, WatchMatchesConnections, NEW c \in Conn,
         conn_state[c] # "FREE", NEW st \in ConnState, st # "FREE",
         conn_state' = [conn_state EXCEPT ![c] = st],
         conn_fd' = conn_fd,
         watch' = [watch EXCEPT ![conn_fd[c]] = EntryOf(c, st)]
  PROVE  WatchMatchesConnections'
<1>1. conn_fd[c] \in Fds
  BY UsedDescriptor
<1>2. \A d \in Conn : conn_fd[d] = conn_fd[c] => d = c
  BY <1>1, ConnectionsAssumption DEF WatchMatchesConnections
<1>3. \A d \in Conn : conn_state'[d] = IF d = c THEN st ELSE conn_state[d]
  BY DEF TypeOK
<1>4. \A d \in Conn : d # c => Wanted(d)' = Wanted(d)
  BY <1>3 DEF Wanted
<1>5. EntryOf(c, st) = IF Wanted(c)' = "NONE" THEN NotWatched
                       ELSE [rw |-> Wanted(c)', data |-> c]
  BY <1>3 DEF Wanted, EntryOf
<1>6. \A fd \in Fds : watch'[fd] = IF fd = conn_fd[c] THEN EntryOf(c, st)
                                   ELSE watch[fd]
  BY DEF TypeOK
<1>7. \A d \in Conn : conn_state'[d] = "FREE" <=> conn_fd'[d] = -1
  BY <1>1, <1>3, ConnectionsAssumption DEF WatchMatchesConnections
<1>8. \A d, e \in Conn :
        conn_fd'[d] # -1 /\ conn_fd'[d] = conn_fd'[e] => d = e
  BY DEF WatchMatchesConnections
<1>9. ASSUME NEW d \in Conn, Wanted(d)' # "NONE"
      PROVE  watch'[conn_fd'[d]] = [rw |-> Wanted(d)', data |-> d]
  <2>1. CASE d = c
    BY <2>1, <1>1, <1>5, <1>6, <1>9
  <2>2. CASE d # c
    <3>1. Wanted(d) # "NONE" /\ conn_state[d] # "FREE"
      BY <2>2, <1>4, <1>9 DEF Wanted
    <3>2. conn_fd[d] \in Fds /\ conn_fd[d] # conn_fd[c]
      BY <3>1, <2>2, <1>2, UsedDescriptor
    <3>3. watch[conn_fd[d]] = [rw |-> Wanted(d), data |-> d]
      BY <3>1 DEF WatchMatchesConnections
    <3>4. QED
      BY <3>2, <3>3, <2>2, <1>4, <1>6
  <2>3. QED
    BY <2>1, <2>2
<1>10. ASSUME NEW fd \in Fds, watch'[fd] # NotWatched
       PROVE  \E d \in Conn : conn_fd'[d] = fd /\ Wanted(d)' # "NONE"
  <2>1. CASE fd = conn_fd[c]
    BY <2>1, <1>5, <1>6, <1>10
  <2>2. CASE fd # conn_fd[c]
    <3>1. PICK d \in Conn : conn_fd[d] = fd /\ Wanted(d) # "NONE"
      BY <2>2, <1>6, <1>10 DEF WatchMatchesConnections
    <3>2. QED
      BY <3>1, <2>2, <1>4
  <2>3. QED
    BY <2>1, <2>2
<1>11. QED
  BY <1>7, <1>8, <1>9, <1>10 DEF WatchMatchesConnections

\* A connection in use becomes free and leaves the watch list.
LEMMA UnwatchKeepsMatch ==
  ASSUME TypeOK, WatchMatchesConnections, NEW c \in Conn,
         conn_state[c] # "FREE",
         conn_state' = [conn_state EXCEPT ![c] = "FREE"],
         conn_fd' = [conn_fd EXCEPT ![c] = -1],
         watch' = [watch EXCEPT ![conn_fd[c]] = NotWatched]
  PROVE  WatchMatchesConnections'
<1>1. conn_fd[c] \in Fds
  BY UsedDescriptor
<1>2. \A d \in Conn : conn_fd[d] = conn_fd[c] => d = c
  BY <1>1, ConnectionsAssumption DEF WatchMatchesConnections
<1>3. \A d \in Conn :
        /\ conn_state'[d] = IF d = c THEN "FREE" ELSE conn_state[d]
        /\ conn_fd'[d] = IF d = c THEN -1 ELSE conn_fd[d]
  BY DEF TypeOK
<1>4. /\ Wanted(c)' = "NONE"
      /\ \A d \in Conn : d # c => Wanted(d)' = Wanted(d)
  BY <1>3 DEF Wanted
<1>5. \A fd \in Fds : watch'[fd] = IF fd = conn_fd[c] THEN NotWatched
                                   ELSE watch[fd]
  BY DEF TypeOK
<1>6. \A d \in Conn : conn_state'[d] = "FREE" <=> conn_fd'[d] = -1
  BY <1>3 DEF WatchMatchesConnections
<1>7. \A d, e \in Conn :
        conn_fd'[d] # -1 /\ conn_fd'[d] = conn_fd'[e] => d = e
  BY <1>3 DEF WatchMatchesConnections
<1>8. ASSUME NEW d \in Conn, Wanted(d)' # "NONE"
      PROVE  watch'[conn_fd'[d]] = [rw |-> Wanted(d)', data |-> d]
  <2>1. d # c /\ Wanted(d) # "NONE" /\ conn_state[d] # "FREE"
    BY <1>4, <1>8 DEF Wanted
  <2>2. conn_fd[d] \in Fds /\ conn_fd[d] # conn_fd[c]
    BY <2>1, <1>2, UsedDescriptor
  <2>3. watch[conn_fd[d]] = [rw |-> Wanted(d), data |-> d]
    BY <2>1 DEF WatchMatchesConnections
  <2>4. QED
    BY <2>1, <2>2, <2>3, <1>3, <1>4, <1>5
<1>9. ASSUME NEW fd \in Fds, watch'[fd] # NotWatched
      PROVE  \E d \in Conn : conn_fd'[d] = fd /\ Wanted(d)' # "NONE"
  <2>1. fd # conn_fd[c] /\ watch[fd] # NotWatched
    BY <1>5, <1>9
  <2>2. PICK d \in Conn : conn_fd[d] = fd /\ Wanted(d) # "NONE"
    BY <2>1 DEF WatchMatchesConnections
  <2>3. QED
    BY <2>1, <2>2, <1>3, <1>4
<1>10. QED
  BY <1>6, <1>7, <1>8, <1>9 DEF WatchMatchesConnections

\* A free slot starts reading from a descriptor no connection has.
LEMMA AcceptKeepsMatch ==
  ASSUME TypeOK, WatchMatchesConnections, NEW c \in Conn, NEW fd \in Fds,
         conn_state[c] = "FREE", \A d \in Conn : conn_fd[d] # fd,
         conn_state' = [conn_state EXCEPT ![c] = "READING"],
         conn_fd' = [conn_fd EXCEPT ![c] = fd],
         watch' = AddFd(watch, fd, c, "READ")
  PROVE  WatchMatchesConnections' /\ watch[fd] = NotWatched
<1>1. watch[fd] = NotWatched
  BY DEF WatchMatchesConnections
<1>2. \A d \in Conn :
        /\ conn_state'[d] = IF d = c THEN "READING" ELSE conn_state[d]
        /\ conn_fd'[d] = IF d = c THEN fd ELSE conn_fd[d]
  BY DEF TypeOK
<1>3. /\ Wanted(c)' = "READ"
      /\ \A d \in Conn : d # c => Wanted(d)' = Wanted(d)
  BY <1>2 DEF Wanted
<1>4. \A g \in Fds : watch'[g] = IF g = fd THEN [rw |-> "READ", data |-> c]
                                 ELSE watch[g]
  BY <1>1 DEF AddFd, TypeOK
<1>5. \A d \in Conn : conn_state'[d] = "FREE" <=> conn_fd'[d] = -1
  BY <1>2, ConnectionsAssumption DEF WatchMatchesConnections
<1>6. \A d, e \in Conn :
        conn_fd'[d] # -1 /\ conn_fd'[d] = conn_fd'[e] => d = e
  BY <1>2 DEF WatchMatchesConnections
<1>7. ASSUME NEW d \in Conn, Wanted(d)' # "NONE"
      PROVE  watch'[conn_fd'[d]] = [rw |-> Wanted(d)', data |-> d]
  <2>1. CASE d = c
    BY <2>1, <1>2, <1>3, <1>4
  <2>2. CASE d # c
    <3>1. Wanted(d) # "NONE" /\ conn_state[d] # "FREE"
      BY <2>2, <1>3, <1>7 DEF Wanted
    <3>2. conn_fd[d] \in Fds /\ conn_fd[d] # fd
      BY <3>1, UsedDescriptor
    <3>3. watch[conn_fd[d]] = [rw |-> Wanted(d), data |-> d]
      BY <3>1 DEF WatchMatchesConnections
    <3>4. QED
      BY <3>2, <3>3, <2>2, <1>2, <1>3, <1>4
  <2>3. QED
    BY <2>1, <2>2
<1>8. ASSUME NEW g \in Fds, watch'[g] # NotWatched
      PROVE  \E d \in Conn : conn_fd'[d] = g /\ Wanted(d)' # "NONE"
  <2>1. CASE g = fd
    BY <2>1, <1>2, <1>3
  <2>2. CASE g # fd
    <3>1. PICK d \in Conn : conn_fd[d] = g /\ Wanted(d) # "NONE"
      BY <2>2, <1>4, <1>8 DEF WatchMatchesConnections
    <3>2. d # c
      BY <3>1 DEF Wanted
    <3>3. QED
      BY <3>1, <3>2, <1>2, <1>3
  <2>3. QED
    BY <2>1, <2>2
<1>9. QED
  BY <1>1, <1>5, <1>6, <1>7, <1>8 DEF WatchMatchesConnections

LEMMA UnwatchedEffect ==
  ASSUME TypeOK, WatchMatchesConnections, NEW c \in Conn,
         conn_state[c] # "FREE"
  PROVE  /\ Unwatched(c) = [watch EXCEPT ![conn_fd[c]] = NotWatched]
         /\ BadUnwatch(c) = {}
<1>1. /\ conn_fd[c] \in Fds
      /\ watch[conn_fd[c]] = EntryOf(c, conn_state[c])
  BY UsedDescriptor
<1>2. CASE conn_state[c] = "PAUSING"
  <2>1. watch[conn_fd[c]] = NotWatched
    BY <1>1, <1>2 DEF EntryOf
  <2>2. watch = [watch EXCEPT ![conn_fd[c]] = NotWatched]
    BY <1>1, <2>1 DEF TypeOK
  <2>3. QED
    BY <1>2, <2>2 DEF Unwatched, BadUnwatch
<1>3. CASE conn_state[c] # "PAUSING"
  <2>1. watch[conn_fd[c]] # NotWatched
    BY <1>1, <1>3 DEF EntryOf, NotWatched, TypeOK, ConnState
  <2>2. QED
    BY <1>1, <1>3, <2>1 DEF Unwatched, BadUnwatch, DelFd, BadDel
<1>4. QED
  BY <1>2, <1>3

LEMMA ReallyClearWatch ==
  ASSUME TypeOK, WatchMatchesConnections, NEW c \in Conn,
         conn_state[c] # "FREE", NEW linger, NEW held, NEW sending,
         ReallyClearConnection(c, linger, held, sending)
  PROVE  WatchMatchesConnections' /\ complaints' = complaints
  BY UnwatchedEffect, UnwatchKeepsMatch DEF ReallyClearConnection, Complain

LEMMA StartLingeringWatch ==
  ASSUME TypeOK, WatchMatchesConnections, NEW c \in Conn,
         conn_state[c] # "FREE", ~linger_timer[c], NEW held, NEW sending,
         StartLingering(c, held, sending)
  PROVE  WatchMatchesConnections' /\ complaints' = complaints
<1>1. conn_fd[c] \in Fds
  BY UsedDescriptor
<1> DEFINE w == [watch EXCEPT ![conn_fd[c]] = NotWatched]
<1>2. w[conn_fd[c]] = NotWatched /\ w \in [Fds -> WatchEntry]
  BY <1>1 DEF TypeOK, WatchEntry
<1>3. /\ AddFd(w, conn_fd[c], c, "READ")
           = [watch EXCEPT ![conn_fd[c]] = EntryOf(c, "LINGERING")]
      /\ BadAdd(w, conn_fd[c]) = {}
  BY <1>1, <1>2 DEF AddFd, BadAdd, EntryOf, TypeOK
<1>4. Unwatched(c) = w /\ BadUnwatch(c) = {}
  BY UnwatchedEffect
<1> HIDE DEF w
<1>5. /\ watch' = [watch EXCEPT ![conn_fd[c]] = EntryOf(c, "LINGERING")]
      /\ complaints' = complaints
  BY <1>3, <1>4 DEF StartLingering, Complain
<1>6. "LINGERING" \in ConnState
  BY DEF ConnState
<1>7. QED
  BY <1>5, <1>6, RewatchKeepsMatch DEF StartLingering

LEMMA PauseWatch ==
  ASSUME TypeOK, WatchMatchesConnections, NEW c \in Conn,
         conn_state[c] = "SENDING", ~wakeup_timer[c], Pause(c)
  PROVE  WatchMatchesConnections' /\ complaints' = complaints
<1>1. /\ conn_fd[c] \in Fds
      /\ watch[conn_fd[c]] = [rw |-> "WRITE", data |-> c]
  BY UsedDescriptor DEF EntryOf
<1>2. watch[conn_fd[c]] # NotWatched /\ EntryOf(c, "PAUSING") = NotWatched
  BY <1>1 DEF NotWatched, EntryOf
<1>3. BadDel(watch, conn_fd[c]) = {}
  BY <1>1, <1>2 DEF BadDel
<1>4. /\ watch' = [watch EXCEPT ![conn_fd[c]] = EntryOf(c, "PAUSING")]
      /\ complaints' = complaints
  BY <1>1, <1>2, <1>3 DEF Pause, Complain, DelFd
<1>5. "PAUSING" \in ConnState
  BY DEF ConnState
<1>6. QED
  BY <1>4, <1>5, RewatchKeepsMatch DEF Pause

LEMMA StartsSendingWatch ==
  ASSUME TypeOK, WatchMatchesConnections, NEW c \in Conn,
         ReadStartsSending(c)
  PROVE  WatchMatchesConnections' /\ complaints' = complaints
<1>1. /\ conn_fd[c] \in Fds
      /\ watch[conn_fd[c]] = [rw |-> "READ", data |-> c]
  BY UsedDescriptor DEF ReadStartsSending, CanRead, EntryOf
<1> DEFINE w == DelFd(watch, conn_fd[c])
<1>a. watch[conn_fd[c]] # NotWatched
  BY <1>1 DEF NotWatched
<1>2. /\ w = [watch EXCEPT ![conn_fd[c]] = NotWatched]
      /\ BadDel(watch, conn_fd[c]) = {}
      /\ w[conn_fd[c]] = NotWatched
  BY <1>1, <1>a DEF DelFd, BadDel, TypeOK
<1>3. /\ AddFd(w, conn_fd[c], c, "WRITE")
           = [watch EXCEPT ![conn_fd[c]] = EntryOf(c, "SENDING")]
      /\ BadAdd(w, conn_fd[c]) = {}
  BY <1>1, <1>2 DEF AddFd, BadAdd, EntryOf, TypeOK
<1>4. /\ watch' = [watch EXCEPT ![conn_fd[c]] = EntryOf(c, "SENDING")]
      /\ complaints' = complaints
  BY <1>2, <1>3 DEF ReadStartsSending, Complain
<1>5. "SENDING" \in ConnState
  BY DEF ConnState
<1>6. QED
  BY <1>4, <1>5, RewatchKeepsMatch DEF ReadStartsSending, CanRead

LEMMA WakeupWatch ==
  ASSUME TypeOK, WatchMatchesConnections, NEW c \in Conn,
         WakeupConnection(c)
  PROVE  WatchMatchesConnections' /\ complaints' = complaints
<1>1. CASE conn_state[c] = "PAUSING"
  <2>1. conn_fd[c] \in Fds /\ watch[conn_fd[c]] = NotWatched
    BY <1>1, UsedDescriptor DEF EntryOf
  <2>2. /\ watch' = [watch EXCEPT ![conn_fd[c]] = EntryOf(c, "SENDING")]
        /\ complaints' = complaints
    BY <1>1, <2>1 DEF WakeupConnection, Complain, AddFd, BadAdd, EntryOf
  <2>3. "SENDING" \in ConnState
    BY DEF ConnState
  <2>4. QED
    BY <1>1, <2>2, <2>3, RewatchKeepsMatch DEF WakeupConnection
<1>2. CASE conn_state[c] # "PAUSING"
  BY <1>2 DEF WakeupConnection, WatchMatchesConnections, Wanted
<1>3. QED
  BY <1>1, <1>2

(***************************************************************************)
(* Throttles.  The two circumstances in which a handler changes the        *)
(* holdings of c: it keeps what c holds, or c reads and takes held.        *)
(***************************************************************************)
Circumstance(c, held, sending) ==
  \/ held = tnums[c] /\ sending = num_sending
  \/ conn_state[c] = "READING" /\ sending = Taken(held)

LEMMA HoldersFinite ==
  ASSUME NEW t
  PROVE  IsFiniteSet(Holders(t)) /\ Cardinality(Holders(t)) \in Nat
  BY ConnFinite DEF Holders

LEMMA TakenCounts ==
  ASSUME TypeOK, SendingCountExact, NEW held, NEW t \in Throttles
  PROVE  Taken(held)[t] = IF t \in held THEN num_sending[t] + 1
                          ELSE num_sending[t]
  BY HoldersFinite DEF Taken, SendingCountExact

\* c stays in use with the throttles of held.
LEMMA HoldingKeepsCount ==
  ASSUME TypeOK, SendingCountExact, ReadingHoldsNothing, NEW c \in Conn,
         conn_state[c] # "FREE", NEW st \in ConnState, st # "FREE",
         NEW held \in SUBSET Throttles, NEW sending,
         Circumstance(c, held, sending),
         conn_state' = [conn_state EXCEPT ![c] = st],
         tnums' = [tnums EXCEPT ![c] = held],
         num_sending' = sending
  PROVE  SendingCountExact'
<1> SUFFICES ASSUME NEW t \in Throttles
             PROVE  num_sending'[t] = Cardinality(Holders(t)')
  BY DEF SendingCountExact
<1>1. num_sending[t] = Cardinality(Holders(t))
  BY DEF SendingCountExact
<1>2. \A d \in Conn : /\ conn_state'[d] = IF d = c THEN st ELSE conn_state[d]
                      /\ tnums'[d] = IF d = c THEN held ELSE tnums[d]
  BY DEF TypeOK
<1>3. CASE held = tnums[c] /\ sending = num_sending
  <2>1. Holders(t)' = Holders(t)
    BY <1>2, <1>3 DEF Holders
  <2>2. QED
    BY <1>1, <1>3, <2>1
<1>4. CASE conn_state[c] = "READING" /\ sending = Taken(held)
  <2>1. c \notin Holders(t)
    BY <1>4 DEF Holders, ReadingHoldsNothing
  <2>2. Holders(t)' = IF t \in held THEN Holders(t) \cup {c} ELSE Holders(t)
    BY <1>2, <2>1 DEF Holders
  <2>3. Cardinality(Holders(t) \cup {c}) = Cardinality(Holders(t)) + 1
    BY <2>1, HoldersFinite, FS_AddElement
  <2>4. QED
    BY <1>1, <1>4, <2>2, <2>3, TakenCounts
<1>5. QED
  BY <1>3, <1>4 DEF Circumstance

\* c is freed and the throttles of held are released.
LEMMA ReleasingKeepsCount ==
  ASSUME TypeOK, SendingCountExact, ReadingHoldsNothing, NEW c \in Conn,
         conn_state[c] # "FREE",
         NEW held \in SUBSET Throttles, NEW sending,
         Circumstance(c, held, sending),
         conn_state' = [conn_state EXCEPT ![c] = "FREE"],
         tnums' = [tnums EXCEPT ![c] = held],
         num_sending' = Released(held, sending)
  PROVE  SendingCountExact'
<1> SUFFICES ASSUME NEW t \in Throttles
             PROVE  num_sending'[t] = Cardinality(Holders(t)')
  BY DEF SendingCountExact
<1>1. num_sending[t] = Cardinality(Holders(t)) /\ num_sending[t] \in Int
  BY DEF SendingCountExact, TypeOK
<1>2. \A d \in Conn :
        /\ conn_state'[d] = IF d = c THEN "FREE" ELSE conn_state[d]
        /\ tnums'[d] = IF d = c THEN held ELSE tnums[d]
  BY DEF TypeOK
<1>3. Holders(t)' = Holders(t) \ {c}
  BY <1>2 DEF Holders
<1>4. Cardinality(Holders(t) \ {c}) =
        IF c \in Holders(t) THEN num_sending[t] - 1 ELSE num_sending[t]
  <2>1. IsFiniteSet(Holders(t))
    BY HoldersFinite
  <2>2. Cardinality(Holders(t) \ {c}) = IF c \in Holders(t)
          THEN Cardinality(Holders(t)) - 1 ELSE Cardinality(Holders(t))
    BY <2>1, FS_RemoveElement
  <2>3. QED
    BY <1>1, <2>2
<1>5. num_sending'[t] = IF t \in held THEN sending[t] - 1 ELSE sending[t]
  BY DEF Released
<1>6. CASE held = tnums[c] /\ sending = num_sending
  <2>1. c \in Holders(t) <=> t \in held
    BY <1>6 DEF Holders
  <2>2. QED
    BY <1>3, <1>4, <1>5, <1>6, <2>1
<1>7. CASE conn_state[c] = "READING" /\ sending = Taken(held)
  <2>1. c \notin Holders(t)
    BY <1>7 DEF Holders, ReadingHoldsNothing
  <2>2. QED
    BY <1>1, <1>3, <1>4, <1>5, <1>7, <2>1, TakenCounts
<1>8. QED
  BY <1>6, <1>7 DEF Circumstance

LEMMA SameHolders ==
  ASSUME SendingCountExact, UNCHANGED num_sending,
         \A t \in Throttles : Holders(t)' = Holders(t)
  PROVE  SendingCountExact'
  BY DEF SendingCountExact

-----------------------------------------------------------------------------
(***************************************************************************)
(* Each kind of step keeps the invariant.                                  *)
(***************************************************************************)
LEMMA ReallyClearKeeps ==
  ASSUME IInv, NEW c \in Conn, conn_state[c] # "FREE", TypeOK',
         NEW linger, NEW held \in SUBSET Throttles, NEW sending,
         Circumstance(c, held, sending),
         ReallyClearConnection(c, linger, held, sending),
         lingers' = CancelLinger(c), wakeups' = CancelWakeup(c),
         wakeup_timer' = [wakeup_timer EXCEPT ![c] = FALSE]
  PROVE  IInv'
<1> USE DEF IInv
<1>1. FreeListSound'
  BY PushKeepsFreeList DEF ReallyClearConnection
<1>2. WatchMatchesConnections' /\ NoComplaints'
  BY ReallyClearWatch DEF NoComplaints
<1>3. SendingCountExact'
  BY ReleasingKeepsCount DEF ReallyClearConnection
<1>4. ReadingHoldsNothing'
  BY DEF ReadingHoldsNothing, ReallyClearConnection, TypeOK
<1>5. TimersMatchConnections'
  <2>1. \A d \in Conn :
          /\ conn_state'[d] = IF d = c THEN "FREE" ELSE conn_state[d]
          /\ linger_timer'[d] <=> d # c /\ linger_timer[d]
          /\ wakeup_timer'[d] <=> d # c /\ wakeup_timer[d]
    BY DEF ReallyClearConnection, TypeOK
  <2>2. \A d \in Conn : wakeups'[d] = IF d = c THEN 0 ELSE wakeups[d]
    BY DEF TimersMatchConnections, CancelWakeup, TypeOK
  <2>3. \A d \in Conn : lingers'[d] = IF d = c THEN 0 ELSE lingers[d]
    BY DEF TimersMatchConnections, CancelLinger, ReallyClearConnection, TypeOK
  <2>4. QED
    BY <2>1, <2>2, <2>3 DEF TimersMatchConnections
<1>6. QED
  BY <1>1, <1>2, <1>3, <1>4, <1>5

LEMMA StartLingeringKeeps ==
  ASSUME IInv, NEW c \in Conn, conn_state[c] # "FREE",
         conn_state[c] # "LINGERING", TypeOK',
         NEW held \in SUBSET Throttles, NEW sending,
         Circumstance(c, held, sending),
         StartLingering(c, held, sending),
         wakeups' = CancelWakeup(c),
         wakeup_timer' = [wakeup_timer EXCEPT ![c] = FALSE]
  PROVE  IInv'
<1> USE DEF IInv
<1>1. FreeListSound'
  <2>1. FreeSlots' = FreeSlots
    BY DEF FreeSlots, StartLingering, TypeOK
  <2>2. QED
    BY <2>1, SameFreeSlots DEF StartLingering
<1>2. WatchMatchesConnections' /\ NoComplaints'
  <2>1. ~linger_timer[c]
    BY DEF TimersMatchConnections
  <2>2. QED
    BY <2>1, StartLingeringWatch DEF NoComplaints
<1>3. SendingCountExact'
  <2>1. "LINGERING" \in ConnState
    BY DEF ConnState
  <2>2. QED
    BY <2>1, HoldingKeepsCount DEF StartLingering
<1>4. ReadingHoldsNothing'
  BY DEF ReadingHoldsNothing, StartLingering, TypeOK
<1>5. TimersMatchConnections'
  <2>1. \A d \in Conn :
          /\ conn_state'[d] = IF d = c THEN "LINGERING" ELSE conn_state[d]
          /\ linger_timer'[d] <=> d = c \/ linger_timer[d]
          /\ wakeup_timer'[d] <=> d # c /\ wakeup_timer[d]
    BY DEF StartLingering, TypeOK
  <2>2. \A d \in Conn : wakeups'[d] = IF d = c THEN 0 ELSE wakeups[d]
    BY DEF TimersMatchConnections, CancelWakeup, TypeOK
  <2>a. lingers[c] = 0
    BY DEF TimersMatchConnections
  <2>3. \A d \in Conn : lingers'[d] = IF d = c THEN 1 ELSE lingers[d]
    <3>1. lingers' = [lingers EXCEPT ![c] = @ + 1] /\ lingers \in [Conn -> Int]
      BY DEF StartLingering, TypeOK
    <3> HIDE DEF IInv
    <3>2. QED
      BY <2>a, <3>1
  <2>4. QED
    BY <2>1, <2>2, <2>3 DEF TimersMatchConnections
<1>6. QED
  BY <1>1, <1>2, <1>3, <1>4, <1>5

LEMMA ClearKeeps ==
  ASSUME IInv, NEW c \in Conn, conn_state[c] # "FREE",
         NEW linger \in BOOLEAN, NEW held \in SUBSET Throttles,
         NEW sending \in [Throttles -> Int], Circumstance(c, held, sending),
         ClearConnection(c, linger, held, sending)
  PROVE  IInv'
<1>1. TypeOK'
  BY ClearType DEF IInv
<1>2. CASE linger /\ conn_state[c] # "LINGERING"
  BY <1>1, <1>2, StartLingeringKeeps DEF ClearConnection
<1>3. CASE ~(linger /\ conn_state[c] # "LINGERING")
  BY <1>1, <1>3, ReallyClearKeeps DEF ClearConnection
<1>4. QED
  BY <1>2, <1>3

LEMMA CloseKeeps ==
  ASSUME IInv, NEW c \in Conn, conn_state[c] # "FREE", Close(c)
  PROVE  IInv'
<1>1. /\ should_linger[c] \in BOOLEAN
      /\ tnums[c] \in SUBSET Throttles
      /\ num_sending \in [Throttles -> Int]
  BY DEF IInv, TypeOK
<1>2. Circumstance(c, tnums[c], num_sending)
  BY DEF Circumstance
<1>3. ClearConnection(c, should_linger[c], tnums[c], num_sending)
  BY DEF Close
<1> HIDE DEF IInv
<1>4. QED
  BY <1>1, <1>2, <1>3, ClearKeeps
LEMMA NewConnectKeeps ==
  ASSUME IInv, NEW fd \in Fds, NewConnect(fd)
  PROVE  IInv'
<1> DEFINE c == first_free_connect
<1>1. FreeListOk /\ c \in Conn /\ conn_state[c] = "FREE"
  BY RoomMeansFreeSlot DEF IInv, NewConnect, FreeListOk
<1>2. Accept(c, fd)
  BY <1>1 DEF NewConnect
<1> HIDE DEF c
<1>3. TypeOK'
  BY <1>1, <1>2, AcceptType DEF IInv
<1>4. FreeListSound'
  <2>1. c = first_free_connect
    BY DEF c
  <2>2. /\ conn_state' = [conn_state EXCEPT ![c] = "READING"]
        /\ first_free_connect' = next_free_connect[c]
        /\ next_free_connect' = [next_free_connect EXCEPT ![c] = -1]
        /\ num_connects' = num_connects + 1
    BY <1>2 DEF Accept
  <2>3. QED
    BY <1>1, <2>1, <2>2, PopKeepsFreeList DEF IInv
<1>5. WatchMatchesConnections' /\ watch[fd] = NotWatched
  <2>1. /\ conn_state' = [conn_state EXCEPT ![c] = "READING"]
        /\ conn_fd' = [conn_fd EXCEPT ![c] = fd]
        /\ watch' = AddFd(watch, fd, c, "READ")
    BY <1>2 DEF Accept
  <2>2. \A d \in Conn : conn_fd[d] # fd
    BY DEF NewConnect
  <2>3. QED
    BY <1>1, <2>1, <2>2, AcceptKeepsMatch DEF IInv
<1>6. NoComplaints'
  BY <1>2, <1>5 DEF Accept, Complain, BadAdd, NoComplaints, IInv
<1>7. \A d \in Conn :
        /\ conn_state'[d] = IF d = c THEN "READING" ELSE conn_state[d]
        /\ tnums'[d] = IF d = c THEN {} ELSE tnums[d]
        /\ wakeup_timer'[d] <=> d # c /\ wakeup_timer[d]
        /\ linger_timer'[d] <=> d # c /\ linger_timer[d]
        /\ wakeups'[d] = wakeups[d]
        /\ lingers'[d] = lingers[d]
  BY <1>2 DEF Accept, IInv, TypeOK
<1>8. TimersMatchConnections'
  BY <1>1, <1>7 DEF TimersMatchConnections, IInv
<1>9. ReadingHoldsNothing'
  BY <1>7 DEF ReadingHoldsNothing, IInv
<1>10. SendingCountExact'
  <2>1. \A t \in Throttles : Holders(t)' = Holders(t)
    BY <1>1, <1>7 DEF Holders
  <2>2. num_sending' = num_sending
    BY <1>2 DEF Accept
  <2>3. QED
    BY <2>1, <2>2, SameHolders DEF IInv
<1>11. QED
  BY <1>3, <1>4, <1>5, <1>6, <1>8, <1>9, <1>10 DEF IInv

\* The linger timer has run or its descriptor has failed.
LEMMA LingerEndsKeeps ==
  ASSUME IInv, NEW c \in Conn, conn_state[c] = "LINGERING",
         ReallyClearConnection(c, should_linger[c], tnums[c], num_sending),
         lingers' = [lingers EXCEPT ![c] = @ - 1],
         UNCHANGED <<wakeup_timer, wakeups>>
  PROVE  IInv'
<1>1. /\ linger_timer[c] /\ lingers[c] = 1 /\ ~wakeup_timer[c]
      /\ wakeup_timer \in [Conn -> BOOLEAN]
  BY DEF IInv, TimersMatchConnections, TypeOK
<1>2. lingers' = CancelLinger(c)
  BY <1>1 DEF CancelLinger
<1>3. wakeups' = CancelWakeup(c)
  BY <1>1 DEF CancelWakeup
<1>4. wakeup_timer' = [wakeup_timer EXCEPT ![c] = FALSE]
  <2>1. wakeup_timer[c] = FALSE
    BY <1>1
  <2>2. QED
    BY <1>1, <2>1
<1>5. /\ should_linger[c] \in BOOLEAN
      /\ tnums[c] \in SUBSET Throttles
      /\ num_sending \in [Throttles -> Int]
      /\ wakeups \in [Conn -> Int]
      /\ lingers' \in [Conn -> Int]
  BY CountOperations DEF IInv, TypeOK
<1>6. TypeOK'
  BY <1>1, <1>5, ReallyClearType DEF IInv
<1>7. Circumstance(c, tnums[c], num_sending)
  BY DEF Circumstance
<1> HIDE DEF IInv
<1>8. QED
  BY <1>2, <1>3, <1>4, <1>5, <1>6, <1>7, ReallyClearKeeps

LEMMA StartsSendingKeeps ==
  ASSUME IInv, NEW c \in Conn, ReadStartsSending(c)
  PROVE  IInv'
<1>1. conn_state[c] = "READING" /\ "SENDING" \in ConnState
  BY DEF ReadStartsSending, CanRead, ConnState
<1>2. PICK held \in SUBSET Throttles : /\ tnums' = [tnums EXCEPT ![c] = held]
                                       /\ num_sending' = Taken(held)
  BY DEF ReadStartsSending
<1>3. conn_state' = [conn_state EXCEPT ![c] = "SENDING"]
  BY DEF ReadStartsSending
<1>4. TypeOK'
  BY StartsSendingType DEF IInv
<1>5. FreeListSound'
  <2>1. FreeSlots' = FreeSlots
    BY <1>1, <1>3 DEF FreeSlots, IInv, TypeOK
  <2>2. QED
    BY <2>1, SameFreeSlots DEF IInv, ReadStartsSending
<1>6. WatchMatchesConnections' /\ NoComplaints'
  BY StartsSendingWatch DEF NoComplaints, IInv
<1>7. SendingCountExact'
  <2>1. Circumstance(c, held, Taken(held))
    BY <1>1 DEF Circumstance
  <2>2. QED
    BY <1>1, <1>2, <1>3, <2>1, HoldingKeepsCount DEF IInv
<1>8. ReadingHoldsNothing'
  BY <1>2, <1>3 DEF ReadingHoldsNothing, IInv, TypeOK
<1>9. TimersMatchConnections'
  BY <1>1, <1>3 DEF TimersMatchConnections, ReadStartsSending, timerVars,
     IInv, TypeOK
<1>10. QED
  BY <1>4, <1>5, <1>6, <1>7, <1>8, <1>9 DEF IInv

LEMMA PauseKeeps ==
  ASSUME IInv, NEW c \in Conn, conn_state[c] = "SENDING", Pause(c), TypeOK'
  PROVE  IInv'
<1>1. conn_state' = [conn_state EXCEPT ![c] = "PAUSING"]
  BY DEF Pause
<1>2. FreeListSound'
  <2>1. FreeSlots' = FreeSlots
    BY <1>1 DEF FreeSlots, IInv, TypeOK
  <2>2. QED
    BY <2>1, SameFreeSlots DEF IInv, Pause
<1>3. ~wakeup_timer[c] /\ wakeups[c] = 0
  BY DEF TimersMatchConnections, IInv
<1>4. WatchMatchesConnections' /\ NoComplaints'
  BY <1>3, PauseWatch DEF NoComplaints, IInv
<1>5. SendingCountExact'
  <2>1. \A t \in Throttles : Holders(t)' = Holders(t)
    BY <1>1 DEF Holders, Pause, IInv, TypeOK
  <2>2. QED
    BY <2>1, SameHolders DEF IInv, Pause
<1>6. ReadingHoldsNothing'
  BY <1>1 DEF ReadingHoldsNothing, IInv, TypeOK, Pause
<1>7. TimersMatchConnections'
  <2>1. /\ wakeup_timer' = [wakeup_timer EXCEPT ![c] = TRUE]
        /\ wakeups' = [wakeups EXCEPT ![c] = @ + 1]
        /\ UNCHANGED <<linger_timer, lingers>>
    BY DEF Pause
  <2>2. \A d \in Conn :
          /\ conn_state'[d] = IF d = c THEN "PAUSING" ELSE conn_state[d]
          /\ wakeup_timer'[d] <=> d = c \/ wakeup_timer[d]
          /\ wakeups'[d] = IF d = c THEN 1 ELSE wakeups[d]
    BY <1>1, <1>3, <2>1 DEF IInv, TypeOK
  <2>3. QED
    BY <2>1, <2>2 DEF TimersMatchConnections, IInv
<1>8. QED
  BY <1>2, <1>4, <1>5, <1>6, <1>7 DEF IInv

LEMMA WakeupKeeps ==
  ASSUME IInv, NEW c \in Conn, WakeupConnection(c)
  PROVE  IInv'
<1>1. conn_state[c] = "PAUSING" /\ wakeups[c] = 1
  BY DEF WakeupConnection, TimersMatchConnections, IInv
<1>2. conn_state' = [conn_state EXCEPT ![c] = "SENDING"]
  BY <1>1 DEF WakeupConnection
<1>3. TypeOK'
  BY WakeupType DEF IInv
<1>4. FreeListSound'
  <2>1. FreeSlots' = FreeSlots
    BY <1>1, <1>2 DEF FreeSlots, IInv, TypeOK
  <2>2. QED
    BY <2>1, SameFreeSlots DEF IInv, WakeupConnection
<1>5. WatchMatchesConnections' /\ NoComplaints'
  BY WakeupWatch DEF NoComplaints, IInv
<1>6. SendingCountExact'
  <2>1. \A t \in Throttles : Holders(t)' = Holders(t)
    BY <1>1, <1>2 DEF Holders, WakeupConnection, IInv, TypeOK
  <2>2. QED
    BY <2>1, SameHolders DEF IInv, WakeupConnection
<1>7. ReadingHoldsNothing'
  BY <1>2 DEF ReadingHoldsNothing, IInv, TypeOK, WakeupConnection
<1>8. TimersMatchConnections'
  <2>1. /\ wakeup_timer' = [wakeup_timer EXCEPT ![c] = FALSE]
        /\ wakeups' = [wakeups EXCEPT ![c] = @ - 1]
        /\ UNCHANGED <<linger_timer, lingers>>
    BY DEF WakeupConnection
  <2>2. \A d \in Conn :
          /\ conn_state'[d] = IF d = c THEN "SENDING" ELSE conn_state[d]
          /\ wakeup_timer'[d] <=> d # c /\ wakeup_timer[d]
          /\ wakeups'[d] = IF d = c THEN 0 ELSE wakeups[d]
    BY <1>1, <1>2, <2>1 DEF IInv, TypeOK
  <2>3. QED
    BY <1>1, <2>1, <2>2 DEF TimersMatchConnections, IInv
<1>9. QED
  BY <1>3, <1>4, <1>5, <1>6, <1>7, <1>8 DEF IInv

\* Steps that only move bytes, time or nothing.
LEMMA QuietKeeps ==
  ASSUME IInv, todo' \in [Conn -> Nat], inactive' \in [Conn -> Nat],
         UNCHANGED <<conn_state, tableVars, conn_fd, watch, timerVars, tnums,
                     num_sending, should_linger, complaints>>
  PROVE  IInv'
<1>1. /\ TypeOK'
      /\ FreeSlots' = FreeSlots
      /\ \A t \in Throttles : Holders(t)' = Holders(t)
  BY DEF IInv, TypeOK, FreeSlots, Holders, tableVars, timerVars
<1>2. FreeListSound'
  BY <1>1, SameFreeSlots DEF IInv
<1>3. WatchMatchesConnections' /\ NoComplaints'
  BY DEF WatchMatchesConnections, Wanted, NoComplaints, IInv
<1>4. SendingCountExact'
  BY <1>1, SameHolders DEF IInv
<1>5. ReadingHoldsNothing' /\ TimersMatchConnections'
  BY DEF ReadingHoldsNothing, TimersMatchConnections, IInv, timerVars
<1>6. QED
  BY <1>1, <1>2, <1>3, <1>4, <1>5 DEF IInv

\* A throttle that a sending connection holds is never divided by zero.
LEMMA HeldThrottleCounted ==
  ASSUME TypeOK, SendingCountExact, NEW c \in Conn, conn_state[c] # "FREE",
         NEW t \in tnums[c]
  PROVE  num_sending[t] # 0
<1>1. t \in Throttles
  BY DEF TypeOK
<1>2. c \in Holders(t)
  BY DEF Holders
<1>3. IsFiniteSet(Holders(t))
  BY HoldersFinite
<1>4. Cardinality(Holders(t)) # 0
  BY <1>2, <1>3, FS_EmptySet
<1>5. QED
  BY <1>1, <1>4 DEF SendingCountExact

LEMMA UpdateThrottlesKeeps ==
  ASSUME IInv, UpdateThrottles
  PROVE  IInv'
<1>1. \A c \in Conn : conn_state[c] \in {"SENDING", "PAUSING"} =>
        \A t \in tnums[c] : num_sending[t] # 0
  BY HeldThrottleCounted DEF IInv
<1>2. complaints' = complaints
  BY <1>1 DEF UpdateThrottles, Complain
<1>3. todo' \in [Conn -> Nat] /\ inactive' \in [Conn -> Nat]
  BY DEF UpdateThrottles, IInv, TypeOK
<1>4. QED
  BY <1>2, <1>3, QuietKeeps DEF UpdateThrottles
-----------------------------------------------------------------------------
LEMMA InitHolds == Init => IInv
<1> SUFFICES ASSUME Init PROVE IInv
  OBVIOUS
<1>1. TypeOK
  BY InitType
<1>2. FreeListSound
  <2>1. FreeSlots = Conn /\ InUse = {}
    BY DEF Init, FreeSlots, InUse
  <2>2. num_connects = Cardinality(InUse)
    BY <2>1, FS_EmptySet DEF Init
  <2> DEFINE s == [i \in 1 .. MaxConnects |-> i - 1]
  <2>3. s \in [1 .. MaxConnects -> Conn] /\ MaxConnects \in 0 .. MaxConnects
    BY ConnectionsAssumption DEF Conn
  <2>4. \A i, j \in 1 .. MaxConnects : s[i] = s[j] => i = j
    BY ConnectionsAssumption
  <2>5. {s[i] : i \in 1 .. MaxConnects} = FreeSlots
    <3>1. \A i \in 1 .. MaxConnects : s[i] \in FreeSlots
      BY <2>1, <2>3
    <3>2. \A x \in FreeSlots : \E i \in 1 .. MaxConnects : s[i] = x
      <4> SUFFICES ASSUME NEW x \in Conn
                   PROVE  \E i \in 1 .. MaxConnects : s[i] = x
        BY <2>1
      <4>1. x + 1 \in 1 .. MaxConnects /\ s[x + 1] = x
        BY ConnectionsAssumption DEF Conn
      <4>2. QED
        BY <4>1
    <3> HIDE DEF s
    <3>3. QED
      BY <3>1, <3>2, ListImage
  <2>6. first_free_connect = IF MaxConnects = 0 THEN -1 ELSE s[1]
    BY ConnectionsAssumption DEF Init
  <2>7. \A i \in 1 .. MaxConnects : next_free_connect[s[i]] =
          IF i = MaxConnects THEN -1 ELSE s[i + 1]
    BY ConnectionsAssumption, <2>3 DEF Init
  <2> HIDE DEF s
  <2>8. IsFreeList(MaxConnects, s)
    BY <2>4, <2>5, <2>6, <2>7 DEF IsFreeList
  <2>9. QED
    BY <2>2, <2>3, <2>8 DEF FreeListSound
<1>3. WatchMatchesConnections
  BY DEF Init, WatchMatchesConnections, Wanted
<1>4. TimersMatchConnections /\ ReadingHoldsNothing /\ NoComplaints
  BY DEF Init, TimersMatchConnections, ReadingHoldsNothing, NoComplaints
<1>5. SendingCountExact
  <2>1. \A t \in Throttles : Holders(t) = {}
    BY DEF Init, Holders
  <2>2. QED
    BY <2>1, FS_EmptySet DEF Init, SendingCountExact
<1>6. QED
  BY <1>1, <1>2, <1>3, <1>4, <1>5 DEF IInv

LEMMA HandleReadKeeps ==
  ASSUME IInv, NEW c \in Conn, HandleRead(c)
  PROVE  IInv'
<1>1. conn_state[c] = "READING" /\ should_linger[c] \in BOOLEAN
  BY DEF HandleRead, ReadMore, ReadBad, ReadUnparsable, ReadRefused,
     ReadAnswered, ReadStartsSending, CanRead, IInv, TypeOK
<1>2. CASE ReadMore(c)
  <2>1. todo' \in [Conn -> Nat] /\ inactive' \in [Conn -> Nat]
    BY <1>2 DEF ReadMore, IInv, TypeOK
  <2>2. QED
    BY <1>2, <2>1, QuietKeeps DEF ReadMore
<1>3. CASE ReadBad(c)
  BY <1>1, <1>3, CloseKeeps DEF ReadBad
<1>4. CASE ReadUnparsable(c)
  <2>1. PICK linger \in BOOLEAN :
          ClearConnection(c, linger, tnums[c], num_sending)
    BY <1>4 DEF ReadUnparsable
  <2>2. /\ Circumstance(c, tnums[c], num_sending)
        /\ tnums[c] \in SUBSET Throttles
        /\ num_sending \in [Throttles -> Int]
    BY DEF Circumstance, IInv, TypeOK
  <2>3. QED
    BY <1>1, <2>1, <2>2, ClearKeeps
<1>5. CASE ReadRefused(c) \/ ReadAnswered(c)
  <2>1. PICK linger \in BOOLEAN, held \in SUBSET Throttles :
          ClearConnection(c, linger, held, Taken(held))
    BY <1>5 DEF ReadRefused, ReadAnswered
  <2>2. /\ Circumstance(c, held, Taken(held))
        /\ Taken(held) \in [Throttles -> Int]
    BY <1>1, ThrottleOperations DEF Circumstance, IInv, TypeOK
  <2>3. QED
    BY <1>1, <2>1, <2>2, ClearKeeps
<1>6. CASE ReadStartsSending(c)
  BY <1>6, StartsSendingKeeps
<1>7. QED
  BY <1>2, <1>3, <1>4, <1>5, <1>6 DEF HandleRead

LEMMA HandleSendKeeps ==
  ASSUME IInv, NEW c \in Conn, HandleSend(c)
  PROVE  IInv'
<1>1. conn_state[c] = "SENDING"
  BY DEF HandleSend, SendBlocked, SendSome, SendTooFast, SendEnds, CanSend
<1>2. CASE SendBlocked(c)
  <2>1. todo' \in [Conn -> Nat] /\ inactive' \in [Conn -> Nat] /\ Pause(c)
    BY <1>2 DEF SendBlocked, IInv, TypeOK
  <2>2. QED
    BY <1>1, <2>1, PauseType, PauseKeeps DEF IInv
<1>3. CASE SendSome(c)
  <2>1. todo' \in [Conn -> Nat] /\ inactive' \in [Conn -> Nat]
    BY <1>3 DEF SendSome, IInv, TypeOK
  <2>2. QED
    BY <1>3, <2>1, QuietKeeps DEF SendSome
<1>4. CASE SendTooFast(c)
  <2>1. todo' \in [Conn -> Nat] /\ inactive' \in [Conn -> Nat] /\ Pause(c)
    BY <1>4 DEF SendTooFast, IInv, TypeOK
  <2>2. QED
    BY <1>1, <2>1, PauseType, PauseKeeps DEF IInv
<1>5. CASE SendEnds(c)
  BY <1>1, <1>5, CloseKeeps DEF SendEnds
<1>6. QED
  BY <1>2, <1>3, <1>4, <1>5 DEF HandleSend

LEMMA LingerStepsKeep ==
  ASSUME IInv, NEW c \in Conn,
         HandleLinger(c) \/ LingerClearConnection(c)
  PROVE  IInv'
<1>1. CASE HandleLinger(c)
  <2>1. conn_state[c] = "LINGERING" /\ linger_timer[c]
    BY <1>1 DEF HandleLinger, IInv, TimersMatchConnections
  <2>2. lingers' = [lingers EXCEPT ![c] = @ - 1]
    BY <1>1, <2>1 DEF HandleLinger, CancelLinger
  <2>3. QED
    BY <1>1, <2>1, <2>2, LingerEndsKeeps DEF HandleLinger
<1>2. CASE LingerClearConnection(c)
  <2>1. lingers[c] > 0
    BY <1>2 DEF LingerClearConnection
  <2>2. conn_state[c] = "LINGERING"
    BY <2>1 DEF IInv, TimersMatchConnections
  <2>3. QED
    BY <1>2, <2>2, LingerEndsKeeps DEF LingerClearConnection
<1>3. QED
  BY <1>1, <1>2

LEMMA NextKeeps == IInv /\ [Next]_vars => IInv'
<1> SUFFICES ASSUME IInv, [Next]_vars PROVE IInv'
  OBVIOUS
<1>1. ASSUME NEW fd \in Fds, NewConnect(fd) PROVE IInv'
  BY <1>1, NewConnectKeeps
<1>2. ASSUME NEW c \in Conn, HandleRead(c) PROVE IInv'
  BY <1>2, HandleReadKeeps
<1>3. ASSUME NEW c \in Conn, HandleSend(c) PROVE IInv'
  BY <1>3, HandleSendKeeps
<1>4. ASSUME NEW c \in Conn, HandleLinger(c) \/ LingerClearConnection(c)
      PROVE  IInv'
  BY <1>4, LingerStepsKeep
<1>5. ASSUME NEW c \in Conn, SomethingWentWrong(c) PROVE IInv'
  <2>1. conn_state[c] # "FREE" /\ Close(c)
    BY <1>5, DispatchedWanted DEF SomethingWentWrong, IInv
  <2>2. QED
    BY <2>1, CloseKeeps
<1>6. ASSUME NEW c \in Conn, WakeupConnection(c) PROVE IInv'
  BY <1>6, WakeupKeeps
<1>7. ASSUME NEW c \in Conn, Idle(c) PROVE IInv'
  <2>1. conn_state[c] # "FREE" /\ Close(c)
    BY <1>7 DEF Idle, Overdue
  <2>2. QED
    BY <2>1, CloseKeeps
<1>8. CASE UpdateThrottles
  BY <1>8, UpdateThrottlesKeeps
<1>9. CASE TimePasses
  <2>1. todo' \in [Conn -> Nat] /\ inactive' \in [Conn -> Nat]
    BY <1>9 DEF TimePasses, IInv, TypeOK
  <2>2. QED
    BY <1>9, <2>1, QuietKeeps DEF TimePasses
<1>10. CASE UNCHANGED vars
  <2>1. todo' \in [Conn -> Nat] /\ inactive' \in [Conn -> Nat]
    BY <1>10 DEF vars, IInv, TypeOK
  <2>2. QED
    BY <1>10, <2>1, QuietKeeps DEF vars
<1>11. QED
  BY <1>1, <1>2, <1>3, <1>4, <1>5, <1>6, <1>7, <1>8, <1>9, <1>10 DEF Next

-----------------------------------------------------------------------------
(***************************************************************************)
(* Every state the handlers and timers of tweb.c can reach satisfies the   *)
(* inductive invariant.                                                    *)
(***************************************************************************)
THEOREM Invariance == Spec => []IInv
<1>1. Init => IInv
  BY InitHolds
<1>2. IInv /\ [Next]_vars => IInv'
  BY NextKeeps
<1>3. QED
  BY <1>1, <1>2, PTL DEF Spec

\* Every variable of the connection table keeps its type.
THEOREM TypeCorrect == Spec => []TypeOK
<1>1. IInv => TypeOK
  BY DEF IInv
<1>2. QED
  BY <1>1, Invariance, PTL

\* handle_newconnect and really_clear_connection keep the free list and
\* num_connects right, for every size of the table.
THEOREM FreeListAlwaysSound == Spec => []FreeListSound
<1>1. IInv => FreeListSound
  BY DEF IInv
<1>2. QED
  BY <1>1, Invariance, PTL

\* The descriptors watched are those of the connections that read, send or
\* linger, each with its own slot as client data.
THEOREM WatchAlwaysMatches == Spec => []WatchMatchesConnections
<1>1. IInv => WatchMatchesConnections
  BY DEF IInv
<1>2. QED
  BY <1>1, Invariance, PTL

\* A wakeup or linger timer never outlives the state it belongs to.
THEOREM TimersAlwaysMatch == Spec => []TimersMatchConnections
<1>1. IInv => TimersMatchConnections
  BY DEF IInv
<1>2. QED
  BY <1>1, Invariance, PTL

\* num_sending is exact, for every throttle table.
THEOREM SendingCountAlwaysExact == Spec => []SendingCountExact
<1>1. IInv => SendingCountExact
  BY DEF IInv
<1>2. QED
  BY <1>1, Invariance, PTL

\* The table, the watched descriptors, the timers and the throttles' counts
\* agree, however many connections and throttles there are.
THEOREM TablesAlwaysAgree == Spec => []TablesAgree
<1>1. IInv => TablesAgree
  BY DEF IInv, TablesAgree
<1>2. QED
  BY <1>1, Invariance, PTL

\* The code never logs, exits on or traps on its own books being wrong.
THEOREM NeverComplains == Spec => []NoComplaints
<1>1. IInv => NoComplaints
  BY DEF IInv
<1>2. QED
  BY <1>1, Invariance, PTL

-----------------------------------------------------------------------------
(***************************************************************************)
(* Connections implements Clients.                                         *)
(***************************************************************************)
\* The stage of the client of a connection in state st.
StageName(st) ==
  CASE st = "READING" -> "request"
    [] st \in {"SENDING", "PAUSING"} -> "reply"
    [] st = "LINGERING" -> "drain"
    [] OTHER -> "closed"

LEMMA OwnDescriptor ==
  ASSUME TypeOK, WatchMatchesConnections, NEW c \in Conn,
         conn_state[c] # "FREE"
  PROVE  /\ conn_fd[c] \in Fds
         /\ \A d \in Conn : conn_fd[d] = conn_fd[c] <=> d = c
<1>1. conn_fd[c] \in Fds
  BY UsedDescriptor
<1>2. QED
  BY <1>1, ConnectionsAssumption DEF WatchMatchesConnections

LEMMA StageOfConnection ==
  ASSUME TypeOK, WatchMatchesConnections, NEW c \in Conn,
         conn_state[c] # "FREE"
  PROVE  ClientStage[conn_fd[c]] = StageName(conn_state[c])
<1>1. /\ conn_fd[c] \in Fds
      /\ \A d \in Conn : conn_fd[d] = conn_fd[c] <=> d = c
  BY OwnDescriptor
<1>2. \A S : Serves(conn_fd[c], S) <=> conn_state[c] \in S
  BY <1>1 DEF Serves
<1>3. QED
  BY <1>1, <1>2 DEF ClientStage, StageName

LEMMA StageOfNobody ==
  ASSUME NEW fd \in Fds, \A c \in Conn : conn_fd[c] # fd
  PROVE  ClientStage[fd] = "closed"
  BY DEF ClientStage, Serves

\* One connection moves on: only the stage of its own descriptor changes.
LEMMA StageStep ==
  ASSUME TypeOK, WatchMatchesConnections, NEW c \in Conn,
         conn_state[c] # "FREE", NEW st \in ConnState,
         conn_state' = [conn_state EXCEPT ![c] = st],
         \/ st # "FREE" /\ conn_fd' = conn_fd
         \/ st = "FREE" /\ conn_fd' = [conn_fd EXCEPT ![c] = -1]
  PROVE  ClientStage' =
           [ClientStage EXCEPT ![conn_fd[c]] = StageName(st)]
<1>1. /\ conn_fd[c] \in Fds /\ -1 \notin Fds
      /\ \A d \in Conn : conn_fd[d] = conn_fd[c] <=> d = c
  BY OwnDescriptor, ConnectionsAssumption
<1>2. \A d \in Conn :
        /\ conn_state'[d] = IF d = c THEN st ELSE conn_state[d]
        /\ d # c => conn_fd'[d] = conn_fd[d]
        /\ conn_fd'[c] = IF st = "FREE" THEN -1 ELSE conn_fd[c]
  BY DEF TypeOK
<1>3. ASSUME NEW fd \in Fds, fd # conn_fd[c], NEW S
      PROVE  Serves(fd, S)' <=> Serves(fd, S)
  BY <1>1, <1>2, <1>3 DEF Serves
<1>4. ASSUME NEW fd \in Fds, fd = conn_fd[c], NEW S
      PROVE  Serves(fd, S)' <=> (st # "FREE" /\ st \in S)
  <2>1. conn_fd'[c] = fd <=> st # "FREE"
    BY <1>1, <1>2, <1>4
  <2>2. \A d \in Conn : d # c => conn_fd'[d] # fd
    BY <1>1, <1>2, <1>4
  <2>3. conn_state'[c] = st
    BY <1>2
  <2>4. QED
    BY <2>1, <2>2, <2>3 DEF Serves
<1>5. ASSUME NEW fd \in Fds
      PROVE  ClientStage'[fd] =
               IF fd = conn_fd[c] THEN StageName(st) ELSE ClientStage[fd]
  <2>1. CASE fd = conn_fd[c]
    <3>1. \A S : Serves(fd, S)' <=> (st # "FREE" /\ st \in S)
      BY <1>4, <2>1
    <3>2. ClientStage'[fd] = StageName(st)
      BY <3>1 DEF ClientStage, StageName
    <3>3. QED
      BY <2>1, <3>2
  <2>2. CASE fd # conn_fd[c]
    BY <1>3, <2>2 DEF ClientStage
  <2>3. QED
    BY <2>1, <2>2
<1>6. /\ ClientStage = [fd \in Fds |-> ClientStage[fd]]
      /\ ClientStage' = [fd \in Fds |-> ClientStage'[fd]]
  BY DEF ClientStage
<1>7. QED
  BY <1>1, <1>5, <1>6

\* A closing connection drains or leaves.
LEMMA ReallyClearLeaves ==
  ASSUME IInv, NEW c \in Conn, conn_state[c] # "FREE",
         conn_state' = [conn_state EXCEPT ![c] = "FREE"],
         conn_fd' = [conn_fd EXCEPT ![c] = -1]
  PROVE  Client!Next
<1>1. conn_fd[c] \in Fds /\ "FREE" \in ConnState
  BY OwnDescriptor DEF IInv, ConnState
<1>2. ClientStage' = [ClientStage EXCEPT ![conn_fd[c]] = "closed"]
  BY <1>1, StageStep DEF IInv, StageName
<1>3. conn_state[c] \in {"READING", "SENDING", "PAUSING", "LINGERING"}
  BY DEF IInv, TypeOK, ConnState
<1>4. ClientStage[conn_fd[c]] # "closed"
  BY <1>3, StageOfConnection DEF IInv, StageName
<1>5. Client!Leave(conn_fd[c])
  BY <1>2, <1>4 DEF Client!Leave
<1>6. QED
  BY <1>1, <1>5 DEF Client!Next

LEMMA ClearSteps ==
  ASSUME IInv, NEW c \in Conn, conn_state[c] # "FREE",
         NEW linger, NEW held, NEW sending,
         ClearConnection(c, linger, held, sending)
  PROVE  Client!Next
<1>1. CASE /\ conn_state[c] # "LINGERING"
           /\ StartLingering(c, held, sending)
  <2>1. conn_fd[c] \in Fds /\ "LINGERING" \in ConnState
    BY OwnDescriptor DEF IInv, ConnState
  <2>2. /\ conn_state' = [conn_state EXCEPT ![c] = "LINGERING"]
        /\ conn_fd' = conn_fd
    BY <1>1 DEF StartLingering
  <2>3. ClientStage' = [ClientStage EXCEPT ![conn_fd[c]] = "drain"]
    BY <2>1, <2>2, StageStep DEF IInv, StageName
  <2>4. conn_state[c] \in {"READING", "SENDING", "PAUSING"}
    BY <1>1 DEF IInv, TypeOK, ConnState
  <2>5. ClientStage[conn_fd[c]] \in {"request", "reply"}
    BY <2>4, StageOfConnection DEF IInv, StageName
  <2>6. Client!Drain(conn_fd[c])
    BY <2>3, <2>5 DEF Client!Drain
  <2>7. QED
    BY <2>1, <2>6 DEF Client!Next
<1>2. CASE ReallyClearConnection(
             c, linger /\ conn_state[c] # "LINGERING", held, sending)
  BY <1>2, ReallyClearLeaves DEF ReallyClearConnection
<1>3. QED
  BY <1>1, <1>2 DEF ClearConnection

LEMMA StartsSendingReplies ==
  ASSUME IInv, NEW c \in Conn, ReadStartsSending(c)
  PROVE  Client!Next
<1>1. /\ conn_state[c] = "READING" /\ "SENDING" \in ConnState
      /\ conn_state' = [conn_state EXCEPT ![c] = "SENDING"]
      /\ conn_fd' = conn_fd
  BY DEF ReadStartsSending, CanRead, ConnState
<1>2. conn_fd[c] \in Fds
  BY <1>1, OwnDescriptor DEF IInv
<1>3. ClientStage' = [ClientStage EXCEPT ![conn_fd[c]] = "reply"]
  BY <1>1, StageStep DEF IInv, StageName
<1>4. ClientStage[conn_fd[c]] = "request"
  BY <1>1, StageOfConnection DEF IInv, StageName
<1>5. Client!Reply(conn_fd[c])
  BY <1>3, <1>4 DEF Client!Reply
<1>6. QED
  BY <1>2, <1>5 DEF Client!Next

\* SENDING and PAUSING are one stage to the client.
LEMMA PausingStutters ==
  ASSUME IInv, NEW c \in Conn, NEW st \in {"SENDING", "PAUSING"},
         conn_state[c] \in {"SENDING", "PAUSING"},
         conn_state' = [conn_state EXCEPT ![c] = st],
         conn_fd' = conn_fd
  PROVE  UNCHANGED ClientStage
<1>1. conn_fd[c] \in Fds /\ st \in ConnState
  BY OwnDescriptor DEF IInv, ConnState
<1>2. ClientStage' = [ClientStage EXCEPT ![conn_fd[c]] = "reply"]
  BY <1>1, StageStep DEF IInv, StageName
<1>3. ClientStage[conn_fd[c]] = "reply"
  BY StageOfConnection DEF IInv, StageName
<1>4. ClientStage = [fd \in Fds |-> ClientStage[fd]]
  BY DEF ClientStage
<1>5. QED
  BY <1>1, <1>2, <1>3, <1>4

LEMMA SameStages ==
  ASSUME UNCHANGED <<conn_state, conn_fd>>
  PROVE  UNCHANGED ClientStage
  BY DEF ClientStage, Serves

\* There are no more open clients than slots in use.
LEMMA OpenClients ==
  ASSUME IInv
  PROVE  /\ Cardinality(Client!Open) \in Nat
         /\ Cardinality(Client!Open) <= num_connects
<1> DEFINE f == [c \in InUse |-> conn_fd[c]]
<1>1. \A c \in InUse : c \in Conn /\ conn_state[c] # "FREE"
  BY DEF InUse, FreeSlots
<1>2. f \in [InUse -> Client!Open]
  <2> SUFFICES ASSUME NEW c \in InUse PROVE conn_fd[c] \in Client!Open
    OBVIOUS
  <2>1. conn_state[c] \in {"READING", "SENDING", "PAUSING", "LINGERING"}
    BY <1>1 DEF IInv, TypeOK, ConnState
  <2>2. conn_fd[c] \in Fds /\ ClientStage[conn_fd[c]] # "closed"
    BY <1>1, <2>1, OwnDescriptor, StageOfConnection DEF IInv, StageName
  <2>3. QED
    BY <2>2 DEF Client!Open
<1>3. \A fd \in Client!Open : \E c \in InUse : f[c] = fd
  <2> SUFFICES ASSUME NEW fd \in Client!Open
               PROVE  \E c \in InUse : f[c] = fd
    OBVIOUS
  <2>1. PICK c \in Conn : conn_fd[c] = fd
    BY StageOfNobody DEF Client!Open
  <2>2. fd # -1
    BY ConnectionsAssumption DEF Client!Open
  <2>3. c \in InUse
    BY <2>1, <2>2 DEF InUse, FreeSlots, IInv, WatchMatchesConnections
  <2>4. QED
    BY <2>1, <2>3
<1>4. f \in Surjection(InUse, Client!Open)
  BY <1>2, <1>3 DEF Surjection
<1>5. IsFiniteSet(InUse) /\ num_connects = Cardinality(InUse)
  BY ConnFinite DEF InUse, IInv, FreeListSound
<1>6. /\ IsFiniteSet(Client!Open)
      /\ Cardinality(Client!Open) <= Cardinality(InUse)
  BY <1>4, <1>5, FS_Surjection
<1>7. QED
  BY <1>5, <1>6, FS_CardinalityType

LEMMA NewConnectArrives ==
  ASSUME IInv, NEW fd \in Fds, NewConnect(fd)
  PROVE  Client!Next
<1> DEFINE c == first_free_connect
<1>1. FreeListOk /\ c \in Conn /\ conn_state[c] = "FREE"
  BY RoomMeansFreeSlot DEF IInv, NewConnect, FreeListOk
<1>2. Accept(c, fd)
  BY <1>1 DEF NewConnect
<1> HIDE DEF c
<1>3. \A d \in Conn : conn_fd[d] # fd
  BY DEF NewConnect
<1>4. \A d \in Conn :
        /\ conn_state'[d] = IF d = c THEN "READING" ELSE conn_state[d]
        /\ conn_fd'[d] = IF d = c THEN fd ELSE conn_fd[d]
  BY <1>2 DEF Accept, IInv, TypeOK
<1>5. conn_fd[c] = -1 /\ -1 \notin Fds
  BY <1>1, ConnectionsAssumption DEF IInv, WatchMatchesConnections
<1>6. ASSUME NEW e \in Fds, NEW S
      PROVE  Serves(e, S)' <=> IF e = fd THEN "READING" \in S ELSE Serves(e, S)
  <2>1. CASE e = fd
    BY <1>1, <1>3, <1>4, <2>1 DEF Serves
  <2>2. CASE e # fd
    BY <1>4, <1>5, <2>2 DEF Serves
  <2>3. QED
    BY <2>1, <2>2
<1>7. ASSUME NEW e \in Fds
      PROVE  ClientStage'[e] = IF e = fd THEN "request" ELSE ClientStage[e]
  <2>1. CASE e = fd
    BY <1>6, <2>1 DEF ClientStage
  <2>2. CASE e # fd
    BY <1>6, <2>2 DEF ClientStage
  <2>3. QED
    BY <2>1, <2>2
<1>8. /\ ClientStage = [e \in Fds |-> ClientStage[e]]
      /\ ClientStage' = [e \in Fds |-> ClientStage'[e]]
  BY DEF ClientStage
<1>9. ClientStage' = [ClientStage EXCEPT ![fd] = "request"]
  BY <1>7, <1>8
<1>10. ClientStage[fd] = "closed"
  BY <1>3, StageOfNobody
<1>11. Cardinality(Client!Open) < MaxConnects
  <2>1. /\ Cardinality(Client!Open) \in Nat
        /\ Cardinality(Client!Open) <= num_connects
    BY OpenClients
  <2>2. num_connects \in Int /\ num_connects < MaxConnects
    BY DEF NewConnect, IInv, TypeOK
  <2>3. QED
    BY <2>1, <2>2, ConnectionsAssumption
<1>12. Client!Arrive(fd)
  BY <1>9, <1>10, <1>11 DEF Client!Arrive, Client!Cardinality, Cardinality
<1>13. QED
  BY <1>12 DEF Client!Next

LEMMA CloseSteps ==
  ASSUME IInv, NEW c \in Conn, conn_state[c] # "FREE", Close(c)
  PROVE  Client!Next
  BY ClearSteps DEF Close

LEMMA HandleReadSteps ==
  ASSUME IInv, NEW c \in Conn, HandleRead(c)
  PROVE  Client!Next \/ UNCHANGED ClientStage
<1>1. conn_state[c] # "FREE"
  BY DEF HandleRead, ReadMore, ReadBad, ReadUnparsable, ReadRefused,
     ReadAnswered, ReadStartsSending, CanRead
<1>2. CASE ReadMore(c)
  BY <1>2, SameStages DEF ReadMore
<1>3. CASE ReadBad(c)
  BY <1>1, <1>3, CloseSteps DEF ReadBad
<1>4. CASE ReadUnparsable(c) \/ ReadRefused(c) \/ ReadAnswered(c)
  BY <1>1, <1>4, ClearSteps DEF ReadUnparsable, ReadRefused, ReadAnswered
<1>5. CASE ReadStartsSending(c)
  BY <1>5, StartsSendingReplies
<1>6. QED
  BY <1>2, <1>3, <1>4, <1>5 DEF HandleRead

LEMMA HandleSendSteps ==
  ASSUME IInv, NEW c \in Conn, HandleSend(c)
  PROVE  Client!Next \/ UNCHANGED ClientStage
<1>1. conn_state[c] = "SENDING"
  BY DEF HandleSend, SendBlocked, SendSome, SendTooFast, SendEnds, CanSend
<1>2. CASE SendBlocked(c) \/ SendTooFast(c)
  <2>1. /\ conn_state' = [conn_state EXCEPT ![c] = "PAUSING"]
        /\ conn_fd' = conn_fd
    BY <1>2 DEF SendBlocked, SendTooFast, Pause
  <2>2. QED
    BY <1>1, <2>1, PausingStutters
<1>3. CASE SendSome(c)
  BY <1>3, SameStages DEF SendSome
<1>4. CASE SendEnds(c)
  BY <1>1, <1>4, CloseSteps DEF SendEnds
<1>5. QED
  BY <1>2, <1>3, <1>4 DEF HandleSend

LEMMA LingerSteps ==
  ASSUME IInv, NEW c \in Conn,
         HandleLinger(c) \/ LingerClearConnection(c)
  PROVE  Client!Next
<1>1. conn_state[c] = "LINGERING"
  BY DEF HandleLinger, LingerClearConnection, IInv, TimersMatchConnections
<1>2. /\ conn_state' = [conn_state EXCEPT ![c] = "FREE"]
      /\ conn_fd' = [conn_fd EXCEPT ![c] = -1]
  BY DEF HandleLinger, LingerClearConnection, ReallyClearConnection
<1>3. QED
  BY <1>1, <1>2, ReallyClearLeaves

LEMMA WakeupSteps ==
  ASSUME IInv, NEW c \in Conn, WakeupConnection(c)
  PROVE  UNCHANGED ClientStage
<1>1. conn_state[c] = "PAUSING"
  BY DEF WakeupConnection, IInv, TimersMatchConnections
<1>2. /\ conn_state' = [conn_state EXCEPT ![c] = "SENDING"]
      /\ conn_fd' = conn_fd
  BY <1>1 DEF WakeupConnection
<1>3. QED
  BY <1>1, <1>2, PausingStutters

LEMMA NextSteps ==
  ASSUME IInv, [Next]_vars
  PROVE  [Client!Next]_ClientStage
<1>1. ASSUME NEW fd \in Fds, NewConnect(fd) PROVE Client!Next
  BY <1>1, NewConnectArrives
<1>2. ASSUME NEW c \in Conn, HandleRead(c)
      PROVE  Client!Next \/ UNCHANGED ClientStage
  BY <1>2, HandleReadSteps
<1>3. ASSUME NEW c \in Conn, HandleSend(c)
      PROVE  Client!Next \/ UNCHANGED ClientStage
  BY <1>3, HandleSendSteps
<1>4. ASSUME NEW c \in Conn, HandleLinger(c) \/ LingerClearConnection(c)
      PROVE  Client!Next
  BY <1>4, LingerSteps
<1>5. ASSUME NEW c \in Conn, SomethingWentWrong(c) \/ Idle(c)
      PROVE  Client!Next
  <2>1. conn_state[c] # "FREE" /\ Close(c)
    BY <1>5, DispatchedWanted DEF SomethingWentWrong, Idle, Overdue, IInv
  <2>2. QED
    BY <2>1, CloseSteps
<1>6. ASSUME NEW c \in Conn, WakeupConnection(c) PROVE UNCHANGED ClientStage
  BY <1>6, WakeupSteps
<1>7. CASE UpdateThrottles \/ TimePasses \/ UNCHANGED vars
  BY <1>7, SameStages DEF UpdateThrottles, TimePasses, vars
<1>8. QED
  BY <1>1, <1>2, <1>3, <1>4, <1>5, <1>6, <1>7 DEF Next

LEMMA InitStages ==
  ASSUME Init
  PROVE  Client!Init
<1>1. \A c \in Conn : conn_fd[c] = -1
  BY DEF Init
<1>2. \A fd \in Fds : ClientStage[fd] = "closed"
  BY <1>1, ConnectionsAssumption, StageOfNobody
<1>3. ClientStage = [fd \in Fds |-> ClientStage[fd]]
  BY DEF ClientStage
<1>4. QED
  BY <1>2, <1>3 DEF Client!Init

-----------------------------------------------------------------------------
(***************************************************************************)
(* The connection table implements the abstract view of its clients: at    *)
(* most MaxConnects descriptors are open, each goes through its stages in  *)
(* order, and no step of one handler or timer moves two clients.           *)
(***************************************************************************)
THEOREM ClientsImplemented == Spec => ImplementsClients
<1>1. Init => Client!Init
  BY InitStages
<1>2. IInv /\ [Next]_vars => [Client!Next]_ClientStage
  BY NextSteps
<1>3. QED
  BY <1>1, <1>2, Invariance, PTL DEF Spec, ImplementsClients, Client!Spec

(***************************************************************************)
(* The inductive invariant of the loop: while a listen socket is still to  *)
(* be handled the loop is in the accept phase or will return to it from    *)
(* the timers, so that terminate, set when a service pass has ended, finds *)
(* none.                                                                   *)
(***************************************************************************)
LoopType ==
  /\ loop \in LoopPoint
  /\ ready \subseteq Fds
  /\ listening \in 0 .. Listeners
  /\ after_timers \in {"poll", "accept", "serve", "check"}
  /\ cnum \in Conn
  /\ accepted \in BOOLEAN
  /\ got_usr1 \in BOOLEAN
  /\ terminate \in BOOLEAN

LoopBooks ==
  /\ loop # "exited" /\ listening # 0 =>
       \/ loop = "accept"
       \/ loop \in {"timers", "idle"} /\ after_timers = "accept"
  /\ after_timers # "poll" => loop \in {"timers", "idle", "exited"}
  /\ loop # "exited" /\ terminate => loop # "accept" /\ after_timers # "accept"
  /\ loop = "exited" => num_connects = 0

LoopIInv == LoopType /\ LoopBooks

\* Every step but a timer or a handler, by what it does to the loop.
LEMMA LoopTypeKept ==
  ASSUME LoopType, LoopNext
  PROVE  LoopType'
<1> USE ListenersAssumption
<1>1. CASE Poll \/ PollSecond
  <2>1. PICK fds \in SUBSET WatchedFds :
          \E n \in 0 .. (IF terminate THEN 0 ELSE Listeners) : Returned(fds, n)
    BY <1>1 DEF Poll, PollSecond
  <2>2. PICK n \in 0 .. (IF terminate THEN 0 ELSE Listeners) : Returned(fds, n)
    BY <2>1
  <2>3. n \in 0 .. Listeners /\ fds \subseteq Fds
    BY DEF WatchedFds
  <2>4. loop' \in LoopPoint /\ after_timers' = "poll" /\ cnum' = cnum
    BY <2>2 DEF Returned, LoopPoint
  <2>5. accepted' \in BOOLEAN /\ got_usr1' = got_usr1 /\ terminate' = terminate
    BY <2>2 DEF Returned
  <2>6. ready' \subseteq Fds
    BY <2>2, <2>3 DEF Returned
  <2>7. listening' \in 0 .. Listeners
    BY <2>2, <2>3 DEF Returned
  <2>8. QED
    BY <2>4, <2>5, <2>6, <2>7 DEF LoopType
<1>2. CASE AcceptNone
  <2>1. /\ loop' \in LoopPoint
        /\ after_timers' \in {"serve", "accept"}
        /\ UNCHANGED <<ready, cnum>>
    BY <1>2 DEF AcceptNone, RunTimersThen, LoopPoint
  <2>2. accepted' \in BOOLEAN /\ got_usr1' = got_usr1 /\ terminate' = terminate
    BY <1>2 DEF AcceptNone
  <2>3. listening' \in 0 .. Listeners
    BY <1>2 DEF AcceptNone, LoopType
  <2>4. QED
    BY <2>1, <2>2, <2>3 DEF LoopType
<1>3. CASE AcceptOne
  <2>1. accepted' \in BOOLEAN
    BY <1>3 DEF AcceptOne, LoopType
  <2>2. UNCHANGED <<loop, ready, listening, after_timers, cnum, got_usr1,
                    terminate>>
    BY <1>3 DEF AcceptOne
  <2>3. QED
    BY <2>1, <2>2 DEF LoopType
<1>4. CASE AcceptNoMore
  <2>1. loop' \in LoopPoint /\ ready' \subseteq Fds /\ accepted' \in BOOLEAN
    BY <1>4 DEF AcceptNoMore, LoopPoint
  <2>2. listening' \in 0 .. Listeners
    BY <1>4 DEF AcceptNoMore
  <2>3. UNCHANGED <<after_timers, cnum, got_usr1, terminate>>
    BY <1>4 DEF AcceptNoMore
  <2>4. QED
    BY <2>1, <2>2, <2>3 DEF LoopType
<1>5. ASSUME NEW fd \in Fds,
             \/ TakeNothing(fd) \/ TakeReading(fd) \/ TakeSending(fd)
             \/ TakeLingering(fd) \/ TakeFailed(fd)
      PROVE  LoopType'
  BY <1>5 DEF TakeNothing, TakeReading, TakeSending, TakeLingering,
     TakeFailed, Taking, LoopType
<1>6. CASE Served
  BY <1>6 DEF Served, RunTimersThen, LoopType, LoopPoint
<1>7. ASSUME NEW c \in Conn, RunWakeup(c) \/ RunLinger(c)
      PROVE  LoopType'
  BY <1>7 DEF RunWakeup, RunLinger, TimerRuns, loopVars, LoopType
<1>8. CASE RunUpdateThrottles
  BY <1>8 DEF RunUpdateThrottles, TimerRuns, loopVars, LoopType
<1>9. CASE StartIdle
  BY <1>9, ConnectionsAssumption DEF StartIdle, LoopType, LoopPoint, Conn
<1>10. CASE IdleStep
  BY <1>10, ConnectionsAssumption DEF IdleStep, LoopType, LoopPoint, Conn
<1>11. CASE TimersEnd
  BY <1>11 DEF TimersEnd, LoopType, LoopPoint
<1>12. CASE Exit
  BY <1>12 DEF Exit, LoopType, LoopPoint
<1>13. CASE HandleUsr1
  BY <1>13 DEF HandleUsr1, LoopType, LoopPoint
<1>14. QED
  BY <1>1, <1>2, <1>3, <1>4, <1>5, <1>6, <1>7, <1>8, <1>9, <1>10, <1>11,
     <1>12, <1>13 DEF LoopNext, LoopStep

LEMMA LoopBooksKept ==
  ASSUME LoopType, LoopBooks, LoopNext
  PROVE  LoopBooks'
<1>1. CASE Poll \/ PollSecond
  BY <1>1 DEF Poll, PollSecond, MayPoll, Returned, LoopBooks
<1>2. CASE AcceptNone
  BY <1>2, ListenersAssumption
  DEF AcceptNone, RunTimersThen, LoopBooks, LoopType
<1>3. CASE AcceptOne
  BY <1>3 DEF AcceptOne, LoopBooks
<1>4. CASE AcceptNoMore
  BY <1>4 DEF AcceptNoMore, LoopBooks
<1>5. ASSUME NEW fd \in Fds,
             \/ TakeNothing(fd) \/ TakeReading(fd) \/ TakeSending(fd)
             \/ TakeLingering(fd) \/ TakeFailed(fd)
      PROVE  LoopBooks'
  BY <1>5 DEF TakeNothing, TakeReading, TakeSending, TakeLingering,
     TakeFailed, Taking, LoopBooks
<1>6. CASE Served
  BY <1>6 DEF Served, RunTimersThen, LoopBooks
<1>7. ASSUME NEW c \in Conn, RunWakeup(c) \/ RunLinger(c)
      PROVE  LoopBooks'
  BY <1>7 DEF RunWakeup, RunLinger, TimerRuns, loopVars, LoopBooks
<1>8. CASE RunUpdateThrottles
  BY <1>8 DEF RunUpdateThrottles, TimerRuns, loopVars, LoopBooks
<1>9. CASE StartIdle
  BY <1>9 DEF StartIdle, LoopBooks
<1>10. CASE IdleStep
  BY <1>10 DEF IdleStep, LoopBooks
<1>11. CASE TimersEnd
  BY <1>11 DEF TimersEnd, LoopBooks, LoopType
<1>12. CASE Exit
  BY <1>12 DEF Exit, LoopBooks, vars, tableVars
<1>13. CASE HandleUsr1
  BY <1>13 DEF HandleUsr1, LoopBooks, vars, tableVars
<1>14. QED
  BY <1>1, <1>2, <1>3, <1>4, <1>5, <1>6, <1>7, <1>8, <1>9, <1>10, <1>11,
     <1>12, <1>13 DEF LoopNext, LoopStep

-----------------------------------------------------------------------------
(***************************************************************************)
(* Steps of the loop are steps of Connections.                             *)
(***************************************************************************)
LEMMA LoopStepImplements ==
  ASSUME LoopType, LoopNext
  PROVE  Next \/ UNCHANGED vars
<1>1. CASE Poll \/ AcceptNone \/ AcceptNoMore \/ Served \/ StartIdle
           \/ TimersEnd \/ Exit \/ HandleUsr1
  BY <1>1 DEF Poll, AcceptNone, AcceptNoMore, Served, StartIdle, TimersEnd,
     Exit, HandleUsr1
<1>2. CASE PollSecond
  BY <1>2 DEF PollSecond, Next
<1>3. CASE AcceptOne
  BY <1>3 DEF AcceptOne, Next
<1>4. ASSUME NEW fd \in Fds,
             \/ TakeNothing(fd) \/ TakeReading(fd) \/ TakeSending(fd)
             \/ TakeLingering(fd) \/ TakeFailed(fd)
      PROVE  Next \/ UNCHANGED vars
  BY <1>4 DEF TakeNothing, TakeReading, TakeSending, TakeLingering,
     TakeFailed, Next
<1>5. ASSUME NEW c \in Conn, RunWakeup(c) \/ RunLinger(c)
      PROVE  Next
  BY <1>5 DEF RunWakeup, RunLinger, Next
<1>6. CASE RunUpdateThrottles
  BY <1>6 DEF RunUpdateThrottles, Next
<1>7. CASE IdleStep
  <2>1. cnum \in Conn
    BY DEF LoopType
  <2>2. QED
    BY <1>7, <2>1 DEF IdleStep, Idle, Next
<1>8. QED
  BY <1>1, <1>2, <1>3, <1>4, <1>5, <1>6, <1>7 DEF LoopNext, LoopStep

(***************************************************************************)
(* Arrivals.                                                               *)
(***************************************************************************)
\* c is the only connection a step may free or move to another state.
LEMMA OneMoves ==
  ASSUME TypeOK, NEW c \in Conn, conn_state[c] # "FREE", NEW st,
         conn_state' = [conn_state EXCEPT ![c] = st]
  PROVE  InUse' \subseteq InUse
  BY DEF InUse, FreeSlots, TypeOK

LEMMA SameInUse ==
  ASSUME UNCHANGED conn_state
  PROVE  InUse' \subseteq InUse
  BY DEF InUse, FreeSlots

LEMMA ClearArrivesNobody ==
  ASSUME TypeOK, NEW c \in Conn, conn_state[c] # "FREE",
         NEW linger, NEW held, NEW sending,
         ClearConnection(c, linger, held, sending)
  PROVE  InUse' \subseteq InUse
  BY OneMoves DEF ClearConnection, StartLingering, ReallyClearConnection

LEMMA HandlersArriveNobody ==
  ASSUME IInv, NEW c \in Conn,
         \/ HandleRead(c) \/ HandleSend(c) \/ HandleLinger(c)
         \/ SomethingWentWrong(c) \/ WakeupConnection(c)
         \/ LingerClearConnection(c) \/ Idle(c)
  PROVE  InUse' \subseteq InUse
<1> USE DEF IInv
<1>1. CASE HandleRead(c)
  <2>1. conn_state[c] # "FREE"
    BY <1>1 DEF HandleRead, ReadMore, ReadBad, ReadUnparsable, ReadRefused,
       ReadAnswered, ReadStartsSending, CanRead
  <2>2. CASE ReadMore(c)
    BY <2>2, SameInUse DEF ReadMore
  <2>3. CASE ReadStartsSending(c)
    BY <2>1, <2>3, OneMoves DEF ReadStartsSending
  <2>4. CASE ReadBad(c) \/ ReadUnparsable(c) \/ ReadRefused(c) \/ ReadAnswered(c)
    BY <2>1, <2>4, ClearArrivesNobody
    DEF ReadBad, ReadUnparsable, ReadRefused, ReadAnswered, Close
  <2>5. QED
    BY <1>1, <2>2, <2>3, <2>4 DEF HandleRead
<1>2. CASE HandleSend(c)
  <2>1. conn_state[c] # "FREE"
    BY <1>2 DEF HandleSend, SendBlocked, SendSome, SendTooFast, SendEnds, CanSend
  <2>2. CASE SendBlocked(c) \/ SendTooFast(c)
    BY <2>1, <2>2, OneMoves DEF SendBlocked, SendTooFast, Pause
  <2>3. CASE SendSome(c)
    BY <2>3, SameInUse DEF SendSome
  <2>4. CASE SendEnds(c)
    BY <2>1, <2>4, ClearArrivesNobody DEF SendEnds, Close
  <2>5. QED
    BY <1>2, <2>2, <2>3, <2>4 DEF HandleSend
<1>3. CASE HandleLinger(c) \/ LingerClearConnection(c)
  <2>1. conn_state[c] # "FREE"
    BY <1>3 DEF HandleLinger, LingerClearConnection, TimersMatchConnections
  <2>2. QED
    BY <1>3, <2>1, OneMoves
    DEF HandleLinger, LingerClearConnection, ReallyClearConnection
<1>4. CASE SomethingWentWrong(c) \/ Idle(c)
  <2>1. conn_state[c] # "FREE" /\ Close(c)
    BY <1>4, DispatchedWanted DEF SomethingWentWrong, Idle, Overdue
  <2>2. QED
    BY <2>1, ClearArrivesNobody DEF Close
<1>5. CASE WakeupConnection(c)
  <2>1. conn_state[c] = "PAUSING"
    BY <1>5 DEF WakeupConnection, TimersMatchConnections
  <2>2. QED
    BY <1>5, <2>1, OneMoves DEF WakeupConnection
<1>6. QED
  BY <1>1, <1>2, <1>3, <1>4, <1>5

LEMMA OnlyAcceptArrives ==
  ASSUME IInv, LoopType, LoopBooks, terminate, LoopNext
  PROVE  InUse' \subseteq InUse
<1>1. CASE Poll \/ AcceptNone \/ AcceptNoMore \/ Served \/ StartIdle
           \/ TimersEnd \/ Exit \/ HandleUsr1
  BY <1>1, SameInUse DEF Poll, AcceptNone, AcceptNoMore, Served, StartIdle,
     TimersEnd, Exit, HandleUsr1, vars
<1>2. CASE PollSecond
  BY <1>2, SameInUse DEF PollSecond, TimePasses
<1>3. CASE AcceptOne
  BY <1>3 DEF AcceptOne, LoopBooks
<1>4. ASSUME NEW fd \in Fds,
             \/ TakeNothing(fd) \/ TakeReading(fd) \/ TakeSending(fd)
             \/ TakeLingering(fd) \/ TakeFailed(fd)
      PROVE  InUse' \subseteq InUse
  BY <1>4, SameInUse, HandlersArriveNobody DEF TakeNothing, TakeReading,
     TakeSending, TakeLingering, TakeFailed, vars
<1>5. ASSUME NEW c \in Conn, RunWakeup(c) \/ RunLinger(c)
      PROVE  InUse' \subseteq InUse
  BY <1>5, HandlersArriveNobody DEF RunWakeup, RunLinger
<1>6. CASE RunUpdateThrottles
  BY <1>6, SameInUse DEF RunUpdateThrottles, UpdateThrottles
<1>7. CASE IdleStep
  <2>1. cnum \in Conn
    BY DEF LoopType
  <2>2. QED
    BY <1>7, <2>1, SameInUse, HandlersArriveNobody DEF IdleStep, Idle, vars
<1>8. QED
  BY <1>1, <1>2, <1>3, <1>4, <1>5, <1>6, <1>7 DEF LoopNext, LoopStep

-----------------------------------------------------------------------------
LEMMA LoopInitHolds == LoopInit => LoopIInv
<1> SUFFICES ASSUME LoopInit PROVE LoopType /\ LoopBooks
  BY DEF LoopIInv
<1>1. /\ loop \in LoopPoint /\ loop = "poll" /\ after_timers = "poll"
      /\ ready = {}
  BY DEF LoopInit, LoopPoint
<1>2. listening = 0 /\ listening \in 0 .. Listeners /\ cnum \in Conn
  BY ConnectionsAssumption, ListenersAssumption DEF LoopInit, Conn
<1>3. accepted \in BOOLEAN /\ got_usr1 \in BOOLEAN /\ terminate = FALSE
  BY DEF LoopInit
<1>4. QED
  BY <1>1, <1>2, <1>3 DEF LoopType, LoopBooks

LEMMA LoopNextKeeps == LoopIInv /\ [LoopNext]_allVars => LoopIInv'
<1> SUFFICES ASSUME LoopIInv, [LoopNext]_allVars PROVE LoopIInv'
  OBVIOUS
<1>1. CASE LoopNext
  BY <1>1, LoopTypeKept, LoopBooksKept DEF LoopIInv
<1>2. CASE UNCHANGED allVars
  BY <1>2 DEF LoopIInv, LoopType, LoopBooks, allVars, loopVars, vars, tableVars
<1>3. QED
  BY <1>1, <1>2

LEMMA LoopInvariance == LoopSpec => []LoopIInv
<1>1. LoopInit => LoopIInv
  BY LoopInitHolds
<1>2. LoopIInv /\ [LoopNext]_allVars => LoopIInv'
  BY LoopNextKeeps
<1>3. QED
  BY <1>1, <1>2, PTL DEF LoopSpec

(***************************************************************************)
(* However stale its list of ready descriptors, the main loop only takes   *)
(* the steps Connections allows.                                           *)
(***************************************************************************)
THEOREM LoopImplements == LoopSpec => ImplementsConnections
<1>1. LoopInit => Init
  BY DEF LoopInit
<1>2. LoopIInv /\ [LoopNext]_allVars => [Next]_vars
  BY LoopStepImplements DEF LoopIInv, allVars
<1>3. QED
  BY <1>1, <1>2, LoopInvariance, PTL DEF LoopSpec, Spec, ImplementsConnections

\* The server's invariants are those of its connection table and its own.
LEMMA ServerInvariance == LoopSpec => [](IInv /\ LoopIInv)
<1>1. ImplementsConnections => Spec
  BY DEF ImplementsConnections
<1>2. QED
  BY <1>1, LoopImplements, LoopInvariance, Invariance, PTL

\* Every variable of the running server keeps its type.
THEOREM LoopTypeCorrect == LoopSpec => []LoopTypeOK
<1>1. IInv /\ LoopIInv => LoopTypeOK
  BY DEF IInv, LoopIInv, LoopType, LoopTypeOK
<1>2. QED
  BY <1>1, ServerInvariance, PTL

\* The process exits on SIGUSR1 only when no client is left, whether
\* handle_usr1 ends it or the main loop.
THEOREM ExitIsGraceful == LoopSpec => []ExitLosesNobody
<1>1. IInv /\ LoopIInv => ExitLosesNobody
  <2> SUFFICES ASSUME IInv, LoopIInv, loop = "exited" PROVE InUse = {}
    BY DEF ExitLosesNobody
  <2>1. Cardinality(InUse) = 0
    BY DEF IInv, LoopIInv, LoopBooks, FreeListSound
  <2>2. IsFiniteSet(InUse)
    BY ConnFinite DEF InUse
  <2>3. QED
    BY <2>1, <2>2, FS_EmptySet
<1>2. QED
  BY <1>1, ServerInvariance, PTL

\* A server that is terminating takes no new client: the listen sockets are
\* closed only when none of them is left to handle.
THEOREM TerminateStopsArrivals == LoopSpec => NoArrivalsAfterTerminate
<1>1. IInv /\ LoopIInv /\ [LoopNext]_allVars =>
        [terminate => InUse' \subseteq InUse]_allVars
  BY OnlyAcceptArrives DEF LoopIInv
<1>2. QED
  BY <1>1, ServerInvariance, PTL DEF LoopSpec, NoArrivalsAfterTerminate
=============================================================================
