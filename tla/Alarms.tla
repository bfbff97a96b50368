------------------------------- MODULE Alarms -------------------------------
(***************************************************************************)
(* What timers.c promises its callers, whatever its lists look like: an    *)
(* alarm that is set rings at most once, not before its time and not after *)
(* it was cancelled; the two periodic ones are due again a period after    *)
(* the time they were due, however late they rang; and a callback changes  *)
(* no alarms but its own and those of the connections it clears.  That     *)
(* they do ring is PausesEnd in Timers, which implements this.             *)
(***************************************************************************)
EXTENDS Integers

CONSTANTS Conn, OCCASIONAL_TIME, IDLE_TIME, LINGER_TIME, Delays

VARIABLES
  now,
  due,                  \* when each alarm is to ring
  idling                \* idle's alarm rings, and idle is at work

avars == <<now, due, idling>>

Unset == -1

\* An alarm is a routine with the connection it gets.
Occasional == <<"occasional", 0>>
Idle == <<"idle", 0>>
Wakeup(c) == <<"wakeup", c>>
Linger(c) == <<"linger", c>>
Alarm == {Occasional, Idle} \cup ({"wakeup", "linger"} \X Conn)

Init ==
  /\ now = 0
  /\ due = [a \in Alarm |-> IF a = Occasional THEN OCCASIONAL_TIME
                            ELSE IF a = Idle THEN IDLE_TIME ELSE Unset]
  /\ idling = FALSE

Tick == ~idling /\ now' = now + 1 /\ UNCHANGED <<due, idling>>

Pause(c) ==
  /\ ~idling
  /\ due[Wakeup(c)] = Unset /\ due[Linger(c)] = Unset
  /\ \E delay \in Delays : due' = [due EXCEPT ![Wakeup(c)] = now + delay]
  /\ UNCHANGED <<now, idling>>

\* By a handler, or by idle.
Clear(c) ==
  /\ due[Linger(c)] = Unset
  /\ \E time \in {Unset, now + LINGER_TIME} :
       due' = [due EXCEPT ![Wakeup(c)] = Unset, ![Linger(c)] = time]
  /\ UNCHANGED <<now, idling>>

EndLinger(c) ==
  /\ ~idling /\ due[Linger(c)] # Unset
  /\ due' = [due EXCEPT ![Linger(c)] = Unset]
  /\ UNCHANGED <<now, idling>>

Rings(a) == due[a] # Unset /\ due[a] <= now

RingOnce(a) ==
  /\ ~idling /\ Rings(a)
  /\ due' = [due EXCEPT ![a] = Unset]
  /\ UNCHANGED <<now, idling>>

RingOccasional ==
  /\ ~idling /\ Rings(Occasional)
  /\ due' = [due EXCEPT ![Occasional] = @ + OCCASIONAL_TIME]
  /\ UNCHANGED <<now, idling>>

StartIdle == ~idling /\ Rings(Idle) /\ idling' = TRUE /\ UNCHANGED <<now, due>>

EndIdle ==
  /\ idling
  /\ due' = [due EXCEPT ![Idle] = @ + IDLE_TIME]
  /\ idling' = FALSE
  /\ UNCHANGED now

Next ==
  \/ Tick
  \/ \E c \in Conn : Pause(c) \/ Clear(c) \/ EndLinger(c)
  \/ \E a \in {"wakeup", "linger"} \X Conn : RingOnce(a)
  \/ RingOccasional \/ StartIdle \/ EndIdle

Spec == Init /\ [][Next]_avars
=============================================================================
