----------------------------- MODULE LifeProofs -----------------------------
(***************************************************************************)
(* Proofs about Life: the types, and that for any number of slots and of   *)
(* signals a SIGHUP is kept, the watchdog aborts in time, and shut_down    *)
(* releases what there is once.                                            *)
(***************************************************************************)
EXTENDS Life, SequenceTheorems, TLAPS

USE LifeAssumption DEF LifeAssumption

Points == {"slot", "clear", "server", "terminate", "table", "exit", "hung"}

\* A call of shut_down is a frame.
LEMMA CallIsFrame == \A by \in {"main"} \cup Fatal : Call(by) \in Frames
BY DEF Call, Frames, Slots

\* One more call on top.
LEMMA PushFrame ==
  ASSUME frames \in Seq(Frames), NEW f \in Frames
  PROVE  /\ <<f>> \o frames \in Seq(Frames)
         /\ Len(<<f>> \o frames) = Len(frames) + 1
<1>1. <<f>> \in Seq(Frames) /\ Len(<<f>>) = 1
  OBVIOUS
<1> QED BY <1>1, ConcatProperties

\* The innermost call moves on; the others stay where they are.
LEMMA MoveFrame ==
  ASSUME frames \in Seq(Frames), frames # <<>>, NEW point \in Points,
         NEW slot \in Slots, Move(point, slot)
  PROVE  /\ frames' \in Seq(Frames) /\ Len(frames') = Len(frames)
         /\ frames' # <<>>
         /\ frames'[1].at = point /\ frames'[1].k = slot
         /\ main' = main /\ gone' = gone
<1> DEFINE e == [frames[1] EXCEPT !.at = point, !.k = slot]
<1>1. Len(frames) \in Nat \ {0} /\ 1 \in 1 .. Len(frames)
  BY EmptySeq
<1>2. frames[1] \in Frames
  BY <1>1, ElementOfSeq
<1>3. e \in Frames /\ e.at = point /\ e.k = slot
  BY <1>2 DEF Frames, Points
<1>4. frames' = [frames EXCEPT ![1] = e]
  BY <1>1, <1>2 DEF Move, Frames
<1> HIDE DEF e
<1>5. /\ frames' \in Seq(Frames) /\ Len(frames') = Len(frames)
      /\ frames'[1] = e
  BY <1>1, <1>3, <1>4, ExceptSeq
<1> QED BY <1>1, <1>3, <1>5, EmptySeq DEF Move

(***************************************************************************)
(* Types.                                                                  *)
(***************************************************************************)
\* The types in two parts: what is TRUE or FALSE, and the rest.
FlagTypes ==
  /\ hs \in BOOLEAN
  /\ got_hup \in BOOLEAN /\ got_usr1 \in BOOLEAN /\ terminate \in BOOLEAN
  /\ watchdog_flag \in BOOLEAN
  /\ stale \in BOOLEAN /\ excused \in BOOLEAN

OtherTypes ==
  /\ main \in Places
  /\ frames \in Seq(Frames)
  /\ connects \in {"null", "raw", "table", "freed"}
  /\ open \subseteq Slots /\ hc \in [Slots -> {"none", "live", "freed"}]
  /\ alarm_in \in 0 .. AlarmTime /\ occasional_in \in 0 .. OccasionalTime
  /\ idle_for \in Nat
  /\ gone \in {"no", "exit", "killed", "aborted", "fault"}

\* The two parts are the types, before and after a step.
LEMMA TypesInTwo ==
  /\ TypeOK <=> FlagTypes /\ OtherTypes
  /\ TypeOK' <=> FlagTypes' /\ OtherTypes'
BY DEF TypeOK, FlagTypes, OtherTypes

\* At the start every variable has its type.
LEMMA InitTypes == Init => TypeOK
<1> SUFFICES ASSUME Init PROVE TypeOK
  OBVIOUS
<1>1. frames \in Seq(Frames)
  BY EmptySeq DEF Init
<1>2. OtherTypes
  BY <1>1 DEF Init, OtherTypes, Places, Starting, AlarmTime, OccasionalTime
<1>3. FlagTypes
  BY Zenon DEF Init, FlagTypes
<1> QED BY <1>2, <1>3, TypesInTwo

\* main() and the clock.
MainStep ==
  \/ Arm \/ Initialize \/ Allocate \/ Fill \/ StartFails
  \/ LoopTop \/ ReOpenLogfile \/ ClearHup \/ Poll \/ RunTimers \/ LookAtUsr1
  \/ Work \/ Unblock \/ CallLibrary \/ Block \/ Tick \/ UNCHANGED vars

\* The steps of main() and of the clock keep the types that are no flags.
LEMMA MainOtherTypes ==
  ASSUME TypeOK, MainStep
  PROVE  OtherTypes'
<1> USE DEF OtherTypes, Places, Starting, Turning, AlarmTime, OccasionalTime,
          memory, clocks, GoTo, End, Running
<1> OtherTypes
  BY TypesInTwo DEF OtherTypes
<1>1. CASE Arm
  BY <1>1 DEF Arm
<1>2. CASE Initialize
  BY <1>2 DEF Initialize
<1>3. CASE Allocate
  BY <1>3 DEF Allocate
<1>4. CASE Fill
  BY <1>4 DEF Fill
<1>5. CASE StartFails
  BY <1>5 DEF StartFails
<1>6. CASE LoopTop
  <2>1. Call("main") \in Frames
    BY CallIsFrame DEF Fatal
  <2>2. <<Call("main")>> \in Seq(Frames)
    BY <2>1
  <2>3. frames' \in Seq(Frames)
    BY <1>6, <2>2 DEF LoopTop
  <2>4. main' \in Places
    BY <1>6 DEF LoopTop
  <2> QED BY <1>6, <2>3, <2>4 DEF LoopTop
<1>7. CASE ReOpenLogfile
  BY <1>7 DEF ReOpenLogfile
<1>8. CASE ClearHup
  BY <1>8 DEF ClearHup
<1>9. CASE Poll
  BY <1>9 DEF Poll
<1>10. CASE Work \/ Unblock
  BY <1>10 DEF Work, Unblock, Serve, Served
<1>11. CASE CallLibrary
  BY <1>11 DEF CallLibrary
<1>12. CASE Block
  BY <1>12 DEF Block
<1>13. CASE RunTimers
  <2>1. occasional_in' \in 0 .. OccasionalTime /\ idle_for' \in Nat
    BY <1>13 DEF RunTimers
  <2> QED BY <1>13, <2>1 DEF RunTimers
<1>14. CASE LookAtUsr1
  BY <1>14 DEF LookAtUsr1
<1>15. CASE Tick
  BY <1>15 DEF Tick
<1>16. CASE UNCHANGED vars
  BY <1>16 DEF vars
<1> QED
  BY <1>1, <1>2, <1>3, <1>4, <1>5, <1>6, <1>7, <1>8, <1>9, <1>10, <1>11, <1>12,
     <1>13, <1>14, <1>15, <1>16 DEF MainStep

\* The same steps keep the flags.
LEMMA MainFlagTypes ==
  ASSUME FlagTypes, MainStep
  PROVE  FlagTypes'
<1> USE DEF FlagTypes, flags, memory, logHistory
<1>1. CASE Arm
  BY <1>1, Zenon DEF Arm
<1>2. CASE Initialize
  BY <1>2, Zenon DEF Initialize
<1>3. CASE Allocate
  BY <1>3, Zenon DEF Allocate
<1>4. CASE Fill
  BY <1>4, Zenon DEF Fill
<1>5. CASE StartFails
  BY <1>5, Zenon DEF StartFails
<1>6. CASE LoopTop
  BY <1>6, Zenon DEF LoopTop
<1>7. CASE ReOpenLogfile
  BY <1>7, Zenon DEF ReOpenLogfile
<1>8. CASE ClearHup
  BY <1>8, Zenon DEF ClearHup
<1>9. CASE Poll
  BY <1>9, Zenon DEF Poll
<1>10. CASE Work \/ Unblock
  BY <1>10, Zenon DEF Work, Unblock, Serve, Served
<1>11. CASE CallLibrary
  BY <1>11, Zenon DEF CallLibrary
<1>12. CASE Block
  BY <1>12, Zenon DEF Block
<1>13. CASE RunTimers
  BY <1>13, Zenon DEF RunTimers
<1>14. CASE LookAtUsr1
  BY <1>14, Zenon DEF LookAtUsr1
<1>15. CASE Tick
  BY <1>15, Zenon DEF Tick
<1>16. CASE UNCHANGED vars
  BY <1>16, Zenon DEF vars
<1> QED
  BY <1>1, <1>2, <1>3, <1>4, <1>5, <1>6, <1>7, <1>8, <1>9, <1>10, <1>11, <1>12,
     <1>13, <1>14, <1>15, <1>16, Zenon DEF MainStep

\* Signals.
LEMMA SignalTypes ==
  ASSUME TypeOK, Signal
  PROVE  TypeOK'
<1> USE DEF flags, memory, clocks, logHistory, AlarmTime, OccasionalTime
<1>0. OtherTypes /\ FlagTypes
  BY TypesInTwo
<1>1. frames' \in Seq(Frames)
  <2>1. CASE HandleTerm
    <3>1. PICK sig \in {"TERM", "INT"} \ Active : frames' = <<Call(sig)>> \o frames
      BY <2>1 DEF HandleTerm
    <3>2. Call(sig) \in Frames
      BY CallIsFrame DEF Fatal
    <3> QED BY <1>0, <3>1, <3>2, PushFrame DEF OtherTypes
  <2>2. CASE HandleUsr1
    <3>1. Call("USR1") \in Frames
      BY CallIsFrame DEF Fatal
    <3>2. frames' = frames \/ frames' = <<Call("USR1")>> \o frames
      BY <2>2 DEF HandleUsr1
    <3> QED BY <1>0, <3>1, <3>2, PushFrame DEF OtherTypes
  <2>3. CASE HandleHup \/ HandleAlrm \/ Kill
    BY <1>0, <2>3 DEF HandleHup, HandleAlrm, Kill, End, OtherTypes
  <2> QED BY <2>1, <2>2, <2>3 DEF Signal
<1>2. OtherTypes'
  <2>1. CASE HandleTerm
    BY <1>0, <1>1, <2>1 DEF HandleTerm, OtherTypes
  <2>2. CASE HandleUsr1
    BY <1>0, <1>1, <2>2 DEF HandleUsr1, OtherTypes
  <2>3. CASE HandleHup
    BY <1>0, <1>1, <2>3 DEF HandleHup, OtherTypes
  <2>4. CASE HandleAlrm
    BY <1>0, <1>1, <2>4 DEF HandleAlrm, OtherTypes
  <2>5. CASE Kill
    BY <1>0, <1>1, <2>5 DEF Kill, End, OtherTypes
  <2> QED BY <2>1, <2>2, <2>3, <2>4, <2>5 DEF Signal
<1>3. FlagTypes'
  <2> USE DEF FlagTypes
  <2>1. CASE HandleTerm
    BY <1>0, <2>1, Zenon DEF HandleTerm
  <2>2. CASE HandleUsr1
    BY <1>0, <2>2, Zenon DEF HandleUsr1
  <2>3. CASE HandleHup
    BY <1>0, <2>3, Zenon DEF HandleHup
  <2>4. CASE HandleAlrm
    BY <1>0, <2>4, Zenon DEF HandleAlrm
  <2>5. CASE Kill
    BY <1>0, <2>5, Zenon DEF Kill
  <2> QED BY <2>1, <2>2, <2>3, <2>4, <2>5, Zenon DEF Signal
<1> QED BY <1>2, <1>3, TypesInTwo

(***************************************************************************)
(* shut_down: every step moves the innermost call on, or ends the process. *)
(***************************************************************************)
LEMMA TopIsFrame ==
  ASSUME frames \in Seq(Frames), frames # <<>>
  PROVE  Top \in Frames /\ Top.k \in Slots
<1>1. Len(frames) \in Nat \ {0} /\ 1 \in 1 .. Len(frames)
  BY EmptySeq
<1>2. frames[1] \in Frames
  BY <1>1, ElementOfSeq
<1> QED BY <1>2 DEF Top, Frames

\* The loop over the slots moves the innermost call to a slot or past them all.
LEMMA NextSlotMoves ==
  ASSUME frames \in Seq(Frames), frames # <<>>, NextSlot
  PROVE  \/ Move("server", Top.k)
         \/ Top.k + 1 \in Slots /\ Move("slot", Top.k + 1)
BY TopIsFrame DEF NextSlot, Slots

\* A step of shut_down moves the innermost call, or ends it.
LEMMA ShutDownMoves ==
  ASSUME frames \in Seq(Frames), ShutDown
  PROVE  \/ UNCHANGED <<main, frames>> /\ gone' \in {"exit", "fault"}
         \/ \E point \in Points, slot \in Slots : Move(point, slot)
<1> USE DEF Points
<1>1. frames # <<>>
  BY DEF ShutDown, CloseSlot, ClearSlot, TakeServer, Terminate, FreeTable, Exit, Step
<1>2. Top.k \in Slots
  BY <1>1, TopIsFrame
<1>3. ASSUME Reentered
      PROVE  \/ UNCHANGED <<main, frames>> /\ gone' \in {"exit", "fault"}
             \/ \E point \in Points, slot \in Slots : Move(point, slot)
  BY <1>2, <1>3 DEF Reentered, Hang, End
<1>4. ASSUME NextSlot
      PROVE  \E point \in Points, slot \in Slots : Move(point, slot)
  BY <1>1, <1>2, <1>4, NextSlotMoves
<1>5. CASE CloseSlot
  BY <1>2, <1>3, <1>4, <1>5 DEF CloseSlot, End
<1>6. CASE ClearSlot
  BY <1>2, <1>4, <1>6 DEF ClearSlot, End
<1>7. CASE TakeServer
  BY <1>2, <1>7 DEF TakeServer
<1>8. CASE Terminate
  BY <1>2, <1>3, <1>8 DEF Terminate
<1>9. CASE FreeTable
  BY <1>2, <1>3, <1>9 DEF FreeTable, End
<1>10. CASE Exit
  BY <1>2, <1>3, <1>10 DEF Exit, End
<1> QED BY <1>5, <1>6, <1>7, <1>8, <1>9, <1>10 DEF ShutDown

\* The steps of shut_down keep the types.
LEMMA ShutDownTypes ==
  ASSUME TypeOK, ShutDown
  PROVE  TypeOK'
<1> USE DEF flags, memory, clocks, logHistory
<1>0. OtherTypes /\ FlagTypes
  BY TypesInTwo
<1>1. main' = main /\ frames' \in Seq(Frames) /\ gone' \in {gone, "exit", "fault"}
  <2>1. CASE \E point \in Points, slot \in Slots : Move(point, slot)
    <3>1. PICK point \in Points, slot \in Slots : Move(point, slot)
      BY <2>1
    <3>2. frames # <<>>
      BY DEF ShutDown, CloseSlot, ClearSlot, TakeServer, Terminate, FreeTable, Exit,
             Step
    <3> QED BY <1>0, <3>1, <3>2, MoveFrame DEF OtherTypes
  <2> QED BY <1>0, <2>1, ShutDownMoves DEF OtherTypes
<1>2. /\ connects' \in {connects, "null", "freed"} /\ open' = open
      /\ hc' \in [Slots -> {"none", "live", "freed"}]
      /\ UNCHANGED clocks
  BY <1>0 DEF ShutDown, CloseSlot, ClearSlot, TakeServer, Terminate, FreeTable, Exit,
     Reentered, Still, OtherTypes
<1>3. OtherTypes'
  BY <1>0, <1>1, <1>2 DEF OtherTypes
<1>4. hs' = hs \/ hs' = FALSE
  BY Zenon DEF ShutDown, CloseSlot, ClearSlot, TakeServer, Terminate, FreeTable, Exit,
     Reentered
<1>5. UNCHANGED <<flags, logHistory>>
  BY Zenon DEF ShutDown, CloseSlot, ClearSlot, TakeServer, Terminate, FreeTable, Exit,
     Still
<1>6. FlagTypes'
  BY <1>0, <1>4, <1>5, Zenon DEF FlagTypes
<1> QED BY <1>3, <1>6, TypesInTwo

\* The cases of Next.
LEMMA NextCases == [Next]_vars => MainStep \/ Signal \/ ShutDown
BY DEF Next, Main, MainStep

\* Every step keeps the types.
LEMMA StepTypes ==
  ASSUME TypeOK, [Next]_vars
  PROVE  TypeOK'
<1>1. CASE MainStep
  BY <1>1, MainOtherTypes, MainFlagTypes, TypesInTwo
<1> QED BY <1>1, NextCases, SignalTypes, ShutDownTypes

\* Every variable keeps its type, for any number of slots and of signals.
THEOREM TypeCorrect == Spec => []TypeOK
<1>1. TypeOK /\ [Next]_vars => TypeOK'
  BY StepTypes
<1> QED BY <1>1, InitTypes, PTL DEF Spec

-----------------------------------------------------------------------------
\* A process that has ended does nothing more.
LEMMA DeadStays ==
  ASSUME ~Alive, [Next]_vars
  PROVE  UNCHANGED vars
BY DEF Next, Main, Arm, Initialize, Allocate, Fill, StartFails, LoopTop,
   ReOpenLogfile, ClearHup, Poll, Work, CallLibrary, Block, Unblock, RunTimers,
   LookAtUsr1, Signal, HandleTerm, HandleUsr1, HandleHup, HandleAlrm, Kill, Handles,
   Running, ShutDown, CloseSlot, ClearSlot, TakeServer, Terminate, FreeTable, Exit,
   Step, Tick

(***************************************************************************)
(* SIGHUP: between opening the log and clearing got_hup no signal counts.  *)
(***************************************************************************)
HupInv ==
  Alive /\ stale => excused \/ (got_hup /\ main # "clear")

\* Every step keeps the invariant of SIGHUP.
LEMMA HupStep ==
  ASSUME HupInv, [Next]_vars
  PROVE  HupInv'
<1> USE DEF HupInv, Alive, flags, logHistory, GoTo, End
<1>1. CASE ~Alive
  BY <1>1, DeadStays, Zenon DEF vars
<1>2. CASE MainStep
  <2>1. CASE Arm \/ Initialize \/ Allocate \/ Fill \/ StartFails
    BY <2>1 DEF Arm, Initialize, Allocate, Fill, StartFails
  <2>2. CASE LoopTop
    BY <2>2 DEF LoopTop
  <2>3. CASE ReOpenLogfile
    BY <2>3 DEF ReOpenLogfile
  <2>4. CASE ClearHup
    BY <2>4 DEF ClearHup
  <2>5. CASE Poll \/ Work \/ Unblock \/ CallLibrary \/ Block
    BY <2>5 DEF Poll, Work, Unblock, Serve, CallLibrary, Block
  <2>6. CASE RunTimers \/ LookAtUsr1
    BY <2>6 DEF RunTimers, LookAtUsr1
  <2>7. CASE Tick \/ UNCHANGED vars
    BY <2>7 DEF Tick, vars
  <2> QED BY <1>2, <2>1, <2>2, <2>3, <2>4, <2>5, <2>6, <2>7 DEF MainStep
<1>3. CASE Signal
  BY <1>3 DEF Signal, HandleTerm, HandleUsr1, HandleHup, HandleAlrm, Kill
<1>4. CASE ShutDown
  <2>1. UNCHANGED <<main, flags, logHistory>> /\ (gone' = gone \/ gone' # "no")
    BY <1>4 DEF ShutDown, CloseSlot, ClearSlot, TakeServer, Terminate, FreeTable,
       Exit, Still, Reentered, Hang, Move, NextSlot
  <2> QED BY <2>1
<1> QED BY <1>2, <1>3, <1>4, NextCases

\* HupKept: a SIGHUP is not forgotten before the log has been opened again,
\* unless it came after that and before got_hup was cleared.
THEOREM HupAlwaysKept == Spec => []HupKept
<1>1. Init => HupInv
  BY DEF Init, HupInv
<1>2. HupInv /\ [Next]_vars => HupInv'
  BY HupStep
<1>3. HupInv => HupKept
  BY DEF HupInv, HupKept
<1> QED BY <1>1, <1>2, <1>3, PTL DEF Spec

(***************************************************************************)
(* The watchdog: the flag says whether occasional has run since the last   *)
(* alarm, and the time since then is reckoned from the alarm to come.      *)
(***************************************************************************)
WatchInv ==
  /\ watchdog_flag => idle_for + alarm_in <= AlarmTime
  /\ ~watchdog_flag => idle_for + alarm_in \in AlarmTime .. 2 * AlarmTime
  /\ gone = "aborted" => idle_for >= AlarmTime

\* The steps that touch neither the clocks nor the flag.
Timeless ==
  /\ UNCHANGED <<watchdog_flag, alarm_in, idle_for>>
  /\ gone' = gone \/ gone' # "aborted"

\* Every step keeps the invariant of the watchdog.
LEMMA WatchStep ==
  ASSUME TypeOK, WatchInv, [Next]_vars
  PROVE  WatchInv'
<1> USE DEF WatchInv, AlarmTime, OccasionalTime, flags, clocks, GoTo, End
<1>0. alarm_in \in 0 .. AlarmTime /\ idle_for \in Nat
  BY DEF TypeOK
<1>1. CASE Timeless
  BY <1>0, <1>1 DEF Timeless
<1>2. CASE MainStep
  <2>1. CASE RunTimers
    <3>1. CASE occasional_in = 0
      <4>1. /\ watchdog_flag' = TRUE /\ idle_for' = 0 /\ alarm_in' = alarm_in
            /\ gone' = "no"
        BY <2>1, <3>1, Zenon DEF RunTimers, Running, Alive
      <4> QED BY <1>0, <4>1
    <3>2. CASE occasional_in # 0
      BY <1>1, <2>1, <3>2, Zenon DEF RunTimers, Timeless
    <3> QED BY <3>1, <3>2
  <2>2. CASE Tick
    BY <1>0, <2>2 DEF Tick
  <2>3. CASE Arm \/ Initialize \/ Allocate \/ Fill \/ StartFails
    BY <1>1, <2>3 DEF Arm, Initialize, Allocate, Fill, StartFails, Timeless
  <2>4. CASE LoopTop \/ ReOpenLogfile \/ ClearHup \/ LookAtUsr1
    BY <1>1, <2>4 DEF LoopTop, ReOpenLogfile, ClearHup, LookAtUsr1, Timeless
  <2>5. CASE Poll \/ Work \/ Unblock \/ CallLibrary \/ Block
    BY <1>1, <2>5 DEF Poll, Work, Unblock, Serve, CallLibrary, Block, Timeless
  <2>6. CASE UNCHANGED vars
    BY <1>1, <2>6 DEF vars, Timeless
  <2> QED BY <1>2, <2>1, <2>2, <2>3, <2>4, <2>5, <2>6 DEF MainStep
<1>3. CASE Signal
  <2>1. CASE HandleAlrm
    BY <1>0, <2>1 DEF HandleAlrm
  <2>2. CASE HandleTerm \/ HandleUsr1 \/ HandleHup \/ Kill
    BY <1>1, <2>2 DEF HandleTerm, HandleUsr1, HandleHup, Kill, Timeless
  <2> QED BY <1>3, <2>1, <2>2 DEF Signal
<1>4. CASE ShutDown
  <2>1. Timeless
    BY <1>4 DEF ShutDown, CloseSlot, ClearSlot, TakeServer, Terminate, FreeTable,
       Exit, Still, Reentered, Hang, Move, NextSlot, Timeless
  <2> QED BY <1>1, <2>1
<1> QED BY <1>2, <1>3, <1>4, NextCases

\* WatchdogInTime: a process that has not run occasional for twice the alarm's
\* time is aborted, and none is that ran it since the alarm before.
THEOREM WatchdogAlwaysInTime == Spec => []WatchdogInTime
<1>1. Init => WatchInv
  BY DEF Init, WatchInv, AlarmTime
<1>2. TypeOK /\ WatchInv /\ [Next]_vars => WatchInv'
  BY WatchStep
<1>3. TypeOK /\ WatchInv => WatchdogInTime
  BY DEF TypeOK, WatchInv, WatchdogInTime, AlarmTime
<1> QED BY <1>1, <1>2, <1>3, TypeCorrect, PTL DEF Spec

(***************************************************************************)
(* shut_down.  While nobody has called it, the table is whole as soon as   *)
(* there is one; the first call then finds from its slot on what is there, *)
(* and as it never returns nobody but a second call sees what it left.     *)
(***************************************************************************)
Sound(from) ==
  /\ connects = "table"
  /\ \A k \in Slots : k >= from =>
       hc[k] \in {"none", "live"} /\ (k \in open => hc[k] = "live")

FirstCall ==
  /\ Top.at = "slot" => Sound(Top.k)
  /\ Top.at = "clear" => Sound(Top.k + 1)
  /\ Top.at \in {"server", "terminate", "table"} => connects = "table"

EmptyTable == open = {} /\ hc = [k \in Slots |-> "none"]

ReleaseInv ==
  /\ Running /\ main \in Starting => EmptyTable
  /\ Running /\ main \notin Starting => Sound(1)
  /\ Alive /\ Len(frames) = 1 /\ main \notin Starting \cup {"library"} => FirstCall
  /\ ReleasedOnce

\* The first call starts with its first slot.
LEMMA FirstCallStarts ==
  ASSUME Sound(1), UNCHANGED memory, NEW by, frames' = <<Call(by)>>
  PROVE  FirstCall'
BY DEF Sound, memory, Call, Top, FirstCall, Slots

\* Steps of main() before there is a call.
LEMMA MainRelease ==
  ASSUME TypeOK, ReleaseInv, MainStep
  PROVE  ReleaseInv'
<1> USE DEF GoTo, End, memory
<1>1. CASE Arm \/ Initialize \/ Allocate \/ StartFails
  BY <1>1 DEF Arm, Initialize, Allocate, StartFails, ReleaseInv, ReleasedOnce,
     EmptyTable, Running, Alive, Starting
<1>2. CASE Fill
  <2>1. Sound(1)'
    BY <1>2 DEF Fill, ReleaseInv, EmptyTable, Sound, Starting, Slots
  <2> QED BY <1>2, <2>1 DEF Fill, ReleaseInv, ReleasedOnce, Running, Alive, Starting
<1>3. CASE LoopTop
  <2>1. Sound(1)
    BY <1>3 DEF LoopTop, ReleaseInv, Starting
  <2>2. CASE frames' = <<Call("main")>>
    <3>1. FirstCall'
      BY <1>3, <2>1, <2>2, FirstCallStarts DEF LoopTop
    <3>2. frames' # <<>> /\ main' \notin Starting
      BY <1>3, <2>2 DEF LoopTop, Starting
    <3> QED BY <1>3, <3>1, <3>2 DEF LoopTop, ReleaseInv, ReleasedOnce, Running, Alive
  <2>3. CASE frames' = frames
    <3>1. Sound(1)'
      BY <1>3, <2>1 DEF LoopTop, Sound
    <3>2. frames = <<>> /\ Len(frames) # 1 /\ main' \notin Starting
      BY <1>3, <2>3 DEF LoopTop, Running, Starting
    <3> QED BY <1>3, <2>3, <3>1, <3>2
            DEF LoopTop, ReleaseInv, ReleasedOnce, Running, Alive
  <2> QED BY <1>3, <2>2, <2>3 DEF LoopTop
<1>4. CASE \/ ReOpenLogfile \/ ClearHup \/ Poll \/ RunTimers \/ LookAtUsr1
           \/ CallLibrary \/ Block
  <2>1. /\ Running /\ main \notin Starting /\ main' \notin Starting
        /\ UNCHANGED memory /\ UNCHANGED <<frames, gone>>
    BY <1>4 DEF ReOpenLogfile, ClearHup, Poll, RunTimers, LookAtUsr1, CallLibrary,
       Block, Starting
  <2>2. Sound(1)'
    BY <2>1 DEF ReleaseInv, Sound
  <2>3. Len(frames') # 1
    BY <2>1 DEF Running
  <2> QED BY <2>1, <2>2, <2>3 DEF ReleaseInv, ReleasedOnce, Running, Alive
<1>5. CASE Work \/ Unblock
  <2>1. Running /\ main \notin Starting /\ Serve
    BY <1>5 DEF Work, Unblock, Starting
  <2>2. Sound(1)
    BY <2>1 DEF ReleaseInv
  <2>3. /\ main' = "timers" /\ UNCHANGED <<frames, gone, connects>>
        /\ hc' = [k \in Slots |-> IF k \in open' THEN "live" ELSE hc[k]]
    BY <2>1, <2>2 DEF Serve, Served, Sound
  <2>4. Sound(1)'
    BY <2>2, <2>3 DEF Sound
  <2>5. Len(frames') # 1 /\ main' \notin Starting
    BY <2>1, <2>3 DEF Running, Starting
  <2> QED BY <2>1, <2>3, <2>4, <2>5 DEF ReleaseInv, ReleasedOnce, Running, Alive
<1>6. CASE Tick \/ UNCHANGED vars
  <2>1. UNCHANGED <<main, frames, memory, gone>>
    BY <1>6 DEF Tick, vars
  <2> QED BY <2>1 DEF ReleaseInv, ReleasedOnce, Running, Alive, EmptyTable, Sound,
          FirstCall, Top
<1> QED BY <1>1, <1>2, <1>3, <1>4, <1>5, <1>6 DEF MainStep

\* A signal leaves things alone or calls shut_down.
LEMMA SignalRelease ==
  ASSUME TypeOK, ReleaseInv, Signal
  PROVE  ReleaseInv'
<1> USE DEF memory
<1>1. CASE UNCHANGED <<main, frames, memory>> /\ gone' \in {gone, "killed", "aborted"}
  BY <1>1 DEF ReleaseInv, ReleasedOnce, Running, Alive, EmptyTable, Sound, FirstCall,
     Top
<1>2. ASSUME NEW by \in Fatal, frames' = <<Call(by)>> \o frames, Alive,
             UNCHANGED <<main, memory, gone>>
      PROVE  ReleaseInv'
  <2>1. /\ Len(frames') = Len(frames) + 1 /\ Len(frames) \in Nat
        /\ frames' # <<>>
    <3>1. Call(by) \in Frames
      BY <1>2, CallIsFrame
    <3>2. frames \in Seq(Frames)
      BY DEF TypeOK
    <3> QED BY <1>2, <3>1, <3>2, PushFrame, LenProperties, EmptySeq
  <2>2. Len(frames') = 1 /\ main \notin Starting => FirstCall'
    <3> SUFFICES ASSUME Len(frames') = 1, main \notin Starting PROVE FirstCall'
      OBVIOUS
    <3>1. frames = <<>>
      <4>1. Len(frames) \in Nat /\ Len(frames) + 1 = 1
        BY <2>1
      <4>2. Len(frames) = 0
        BY <4>1
      <4>3. frames \in Seq(Frames)
        BY DEF TypeOK
      <4> QED BY <4>2, <4>3, EmptySeq
    <3>2. Sound(1)
      BY <1>2, <3>1 DEF ReleaseInv, Running
    <3>3. frames' = <<Call(by)>>
      BY <1>2, <3>1
    <3> QED BY <1>2, <3>2, <3>3, FirstCallStarts
  <2> QED BY <1>2, <2>1, <2>2 DEF ReleaseInv, ReleasedOnce, Running, Alive
<1>3. CASE HandleTerm
  BY <1>2, <1>3 DEF HandleTerm, Handles, Fatal
<1>4. CASE HandleUsr1
  BY <1>1, <1>2, <1>4 DEF HandleUsr1, Handles, Fatal
<1>5. CASE HandleHup \/ HandleAlrm \/ Kill
  BY <1>1, <1>5 DEF HandleHup, HandleAlrm, Kill, End
<1> QED BY <1>3, <1>4, <1>5 DEF Signal

\* A step of shut_down, when it is the first call.
LEMMA FirstCallStep ==
  ASSUME TypeOK, ReleaseInv, ShutDown, Len(frames) = 1,
         main \notin Starting \cup {"library"}
  PROVE  /\ gone' # "fault"
         /\ Alive' => FirstCall'
<1> USE DEF memory
<1>0. /\ frames \in Seq(Frames) /\ frames # <<>>
      /\ FirstCall /\ Alive /\ Top.k \in Slots
  <2>1. frames # <<>> /\ Alive
    BY DEF ShutDown, CloseSlot, ClearSlot, TakeServer, Terminate, FreeTable, Exit, Step
  <2> QED BY <2>1, TopIsFrame DEF ReleaseInv, TypeOK
<1>1. ~Reentered
  BY DEF Reentered
<1>2. ASSUME NEW point \in Points, NEW slot \in Slots, Move(point, slot)
      PROVE  Top'.at = point /\ Top'.k = slot /\ gone' = "no"
  BY <1>0, <1>2, MoveFrame DEF Top, Alive
<1>3. ASSUME NextSlot, \A k \in Slots : k > Top.k => hc'[k] = hc[k],
             UNCHANGED <<connects, open>>, connects = "table",
             \A k \in Slots : k > Top.k =>
               hc[k] \in {"none", "live"} /\ (k \in open => hc[k] = "live")
      PROVE  gone' # "fault" /\ FirstCall'
  <2>1. CASE Move("server", Top.k)
    BY <1>0, <1>2, <1>3, <2>1 DEF FirstCall, Points
  <2>2. CASE Top.k + 1 \in Slots /\ Move("slot", Top.k + 1)
    <3>1. Top'.at = "slot" /\ Top'.k = Top.k + 1 /\ gone' = "no"
      BY <1>2, <2>2 DEF Points
    <3>2. \A k \in Slots : k >= Top.k + 1 => k > Top.k
      BY <1>0 DEF Slots
    <3> QED BY <1>3, <3>1, <3>2 DEF FirstCall, Sound
  <2> QED BY <1>0, <1>3, <2>1, <2>2, NextSlotMoves
<1>4. CASE CloseSlot
  <2>1. Sound(Top.k)
    BY <1>0, <1>4 DEF FirstCall, CloseSlot, Step
  <2>2. ~BadSlot /\ connects = "table"
    BY <1>0, <2>1 DEF Sound, BadSlot, Slots
  <2>3. CASE NextSlot /\ UNCHANGED memory
    <3>1. \A k \in Slots : k > Top.k => k >= Top.k
      BY <1>0 DEF Slots
    <3> QED BY <1>3, <2>1, <2>3, <3>1 DEF Sound
  <2>4. CASE /\ Move("clear", Top.k) /\ UNCHANGED <<connects, open, hs>>
             /\ hc' = [hc EXCEPT ![Top.k] = "freed"]
    <3>1. Top'.at = "clear" /\ Top'.k = Top.k /\ gone' = "no"
      BY <1>0, <1>2, <2>4 DEF Points
    <3>2. \A k \in Slots : k >= Top.k + 1 => k >= Top.k /\ k # Top.k
      BY <1>0 DEF Slots
    <3>3. Sound(Top.k + 1)'
      BY <2>1, <2>4, <3>1, <3>2 DEF Sound, TypeOK
    <3> QED BY <3>1, <3>3 DEF FirstCall
  <2> QED BY <1>1, <1>4, <2>2, <2>3, <2>4 DEF CloseSlot
<1>5. CASE ClearSlot
  <2>1. Sound(Top.k + 1) /\ connects = "table"
    BY <1>0, <1>5 DEF FirstCall, ClearSlot, Step, Sound
  <2>2. \A k \in Slots : k > Top.k => k >= Top.k + 1 /\ k # Top.k
    BY <1>0 DEF Slots
  <2> QED BY <1>3, <1>5, <2>1, <2>2 DEF ClearSlot, Sound, TypeOK
<1>6. CASE TakeServer
  BY <1>0, <1>2, <1>6 DEF TakeServer, FirstCall, Step, Points
<1>7. CASE Terminate
  BY <1>0, <1>1, <1>2, <1>7 DEF Terminate, FirstCall, Step, Points
<1>8. CASE FreeTable
  BY <1>0, <1>1, <1>2, <1>8 DEF FreeTable, FirstCall, Step, Points, End
<1>9. CASE Exit
  BY <1>0, <1>1, <1>9 DEF Exit, End, Alive
<1> QED BY <1>4, <1>5, <1>6, <1>7, <1>8, <1>9 DEF ShutDown

\* The steps of shut_down keep the invariant of what is released.
LEMMA ShutDownRelease ==
  ASSUME TypeOK, ReleaseInv, ShutDown
  PROVE  ReleaseInv'
<1>0. frames \in Seq(Frames) /\ frames # <<>> /\ Alive
  BY DEF TypeOK, ShutDown, CloseSlot, ClearSlot, TakeServer, Terminate, FreeTable,
     Exit, Step
<1>1. main' = main /\ Len(frames') = Len(frames) /\ frames' # <<>>
  <2>1. CASE \E point \in Points, slot \in Slots : Move(point, slot)
    BY <1>0, <2>1, MoveFrame
  <2> QED BY <1>0, <2>1, ShutDownMoves
<1>2. Len(frames) \in Nat \ {0}
  BY <1>0, EmptySeq
<1>3. CASE Len(frames) = 1 /\ main \notin Starting \cup {"library"}
  BY <1>1, <1>3, FirstCallStep DEF ReleaseInv, ReleasedOnce, Running
<1>4. CASE Len(frames) > 1 \/ main \in Starting \cup {"library"}
  BY <1>1, <1>2, <1>4 DEF ReleaseInv, ReleasedOnce, Running
<1>5. Len(frames) = 1 \/ Len(frames) > 1
  <2>1. \A n \in Nat \ {0} : n = 1 \/ n > 1
    OBVIOUS
  <2> QED BY <1>2, <2>1, Zenon
<1> QED BY <1>3, <1>4, <1>5

\* Every step keeps the invariant of what is released.
LEMMA ReleaseStep ==
  ASSUME TypeOK, ReleaseInv, [Next]_vars
  PROVE  ReleaseInv'
BY MainRelease, SignalRelease, ShutDownRelease, NextCases

\* ReleasedOnce: shut_down, wherever a signal calls it, faults only if main()
\* was starting or inside the library, or if it was called twice.
THEOREM AlwaysReleasedOnce == Spec => []ReleasedOnce
<1>1. Init => ReleaseInv
  <2> SUFFICES ASSUME Init PROVE ReleaseInv
    OBVIOUS
  <2>1. Len(frames) = 0 /\ main \in Starting
    BY DEF Init, Starting
  <2> QED BY <2>1 DEF Init, ReleaseInv, ReleasedOnce, EmptyTable
<1>2. TypeOK /\ ReleaseInv /\ [Next]_vars => ReleaseInv'
  BY ReleaseStep
<1>3. ReleaseInv => ReleasedOnce
  BY DEF ReleaseInv
<1> QED BY <1>1, <1>2, <1>3, TypeCorrect, PTL DEF Spec
=============================================================================
