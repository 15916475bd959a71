--------------------------- MODULE MovementProofs ---------------------------
(***************************************************************************)
(* Proofs about Movement, for every set of clients, dance publishers,      *)
(* poses and commands.  Every step of Next is a step of the main thread, a *)
(* fault, a callback or a step of a service thread, and the case analyses  *)
(* below follow that order.                                                *)
(***************************************************************************)
EXTENDS Movement, TLAPS

-----------------------------------------------------------------------------
(* Facts about the helpers. *)

LEMMA ComboAlternates ==
  ASSUME NEW t \in Tripods
  PROVE  /\ NextCombo(t) \in Tripods
         /\ NextCombo(NextCombo(t)) = t
         /\ {t, NextCombo(t)} = Tripods
BY DEF Tripods, NextCombo

LEMMA FoldTests ==
  ASSUME NEW t \in DOMAIN FoldTest
  PROVE  /\ t \in {"if_fold", "if_unfold", "if_fold_grounded", "if_unfold_grounded"}
         /\ FoldTest[t] \in FoldOps
         /\ NextTest[t] \in DOMAIN FoldTest \cup {"fold_done"}
BY DEF FoldTest, NextTest, FoldOps

LEMMA PoseTypes ==
  /\ Level \in Poses
  /\ \A p \in Poses, offset \in Offsets : /\ p.transformation \in Offsets
                                          /\ p.rotation \in Offsets
                                          /\ [p EXCEPT !.transformation = offset] \in Poses
                                          /\ [p EXCEPT !.rotation = offset] \in Poses
BY MovementAssumption DEF Level, Poses

-----------------------------------------------------------------------------
(* Every attribute keeps its type: TypeOK is inductive. *)
THEOREM TypeCorrect == Spec => []TypeOK
<1>1. Init => TypeOK
  <2> SUFFICES ASSUME Init PROVE TypeOK
    OBVIOUS
  <2>1. command_queue \in Seq(Dances)
    BY DEF Init
  <2>2. dance \in Dances
    BY DEF Init, Dances
  <2>3. combo \in Tripods /\ in_place \in SUBSET Tripods
    BY DEF Init, Tripods
  <2>4. FlagTypes BY DEF Init, FlagTypes
  <2>5. DataTypes BY <2>1, <2>2, <2>3, PoseTypes DEF Init, DataTypes, MainPlaces
  <2>6. EventTypes BY DEF Init, EventTypes
  <2>7. QED BY <2>4, <2>5, <2>6 DEF TypeOK
<1>2. TypeOK /\ [Next]_vars => TypeOK'
  <2> SUFFICES ASSUME TypeOK, [Next]_vars PROVE TypeOK'
    OBVIOUS
  <2> USE DEF TypeOK, FlagTypes, DataTypes, EventTypes, postureVars, gaitVars, flagVars, poseVars, singleVars, relaxVars,
              motionVars, danceVars, sharedVars
  <2>1. CASE Loop
    <3>1. CASE Top
      BY <3>1 DEF Top, HaltSeen, MainPlaces
    <3>2. CASE Rise
      BY <3>2 DEF Rise, MainPlaces
    <3>3. CASE Unfold
      <4>1. FlagTypes'
        BY <3>3, ZenonT(60) DEF Unfold, MainPlaces
      <4>2. DataTypes'
        BY <3>3 DEF Unfold, MainPlaces
      <4>3. EventTypes'
        BY <3>3 DEF Unfold, MainPlaces
      <4>4. QED BY <4>1, <4>2, <4>3 DEF TypeOK
    <3>4. CASE StandUp
      BY <3>4, ComboAlternates DEF StandUp, MainPlaces
    <3>5. CASE SitDown
      <4>1. FlagTypes'
        BY <3>5, ComboAlternates, PoseTypes DEF SitDown, LowerBody, MainPlaces
      <4>2. DataTypes'
        BY <3>5, ComboAlternates, PoseTypes DEF SitDown, LowerBody, MainPlaces
      <4>3. EventTypes'
        BY <3>5 DEF SitDown, LowerBody, MainPlaces
      <4>4. QED BY <4>1, <4>2, <4>3 DEF TypeOK
    <3>6. CASE Exit
      <4>1. FlagTypes'
        BY <3>6, ComboAlternates, PoseTypes, ZenonT(60) DEF Exit, LowerBody, MainPlaces
      <4>2. DataTypes'
        BY <3>6, ComboAlternates, PoseTypes DEF Exit, LowerBody, MainPlaces
      <4>3. EventTypes'
        BY <3>6 DEF Exit, LowerBody, MainPlaces
      <4>4. QED BY <4>1, <4>2, <4>3 DEF TypeOK
    <3>7. CASE Stop
      <4>1. FlagTypes'
        BY <3>7, ZenonT(60) DEF Stop, MainPlaces
      <4>2. DataTypes'
        BY <3>7 DEF Stop, MainPlaces
      <4>3. EventTypes'
        BY <3>7 DEF Stop, MainPlaces
      <4>4. QED BY <4>1, <4>2, <4>3 DEF TypeOK
    <3>8. CASE Grounded
      BY <3>8 DEF Grounded, FoldTest, MainPlaces
    <3>9. CASE FoldDone
      BY <3>9 DEF FoldDone, MainPlaces
    <3>10. CASE \E t \in DOMAIN FoldTest : CompareFold(t)
      <4> PICK t \in DOMAIN FoldTest : CompareFold(t)
        BY <3>10
      <4>1. lidar' \in BOOLEAN
        <5>1. lidar' = (FoldTest[t] \notin Folding) \/ lidar' = lidar
          BY DEF CompareFold, LidarDuring
        <5>2. QED BY <5>1
      <4>2. FlagTypes'
        BY <4>1 DEF CompareFold
      <4>3. DataTypes'
        BY FoldTests DEF CompareFold, MainPlaces
      <4>4. EventTypes'
        BY DEF CompareFold
      <4>5. QED BY <4>2, <4>3, <4>4 DEF TypeOK
    <3>11. CASE \E op \in FoldOps : FoldOrUnfold(op)
      <4>1. FlagTypes'
        BY <3>11, ZenonT(60) DEF FoldOrUnfold, MainPlaces
      <4>2. DataTypes'
        BY <3>11 DEF FoldOrUnfold, MainPlaces
      <4>3. EventTypes'
        BY <3>11 DEF FoldOrUnfold, MainPlaces
      <4>4. QED BY <4>1, <4>2, <4>3 DEF TypeOK
    <3>12. QED BY <2>1, <3>1, <3>2, <3>3, <3>4, <3>5, <3>6, <3>7, <3>8, <3>9, <3>10, <3>11 DEF Loop
  <2>2. CASE Tick
    <3>1. CASE TickSingle
      BY <3>1 DEF TickSingle, TickUnchanged, MainPlaces
    <3>2. CASE TickMotion
      BY <3>2 DEF TickMotion, MotionsLeft, MainPlaces
    <3>3. CASE TickSwitch
      <4>1. FlagTypes'
        BY <3>3 DEF TickSwitch, TickUnchanged, MainPlaces
      <4>2. DataTypes'
        BY <3>3 DEF TickSwitch, TickUnchanged, MainPlaces
      <4>3. EventTypes'
        BY <3>3 DEF TickSwitch, TickUnchanged, MainPlaces
      <4>4. QED BY <4>1, <4>2, <4>3 DEF TypeOK
    <3>4. CASE TickStep
      BY <3>4 DEF TickStep, TickUnchanged, MainPlaces
    <3>5. CASE TickRelax
      BY <3>5 DEF TickRelax, TickUnchanged, MainPlaces
    <3>6. CASE TickPose
      <4>1. FlagTypes'
        BY <3>6 DEF TickPose, MainPlaces
      <4>2. DataTypes'
        BY <3>6 DEF TickPose, MainPlaces
      <4>3. EventTypes'
        BY <3>6 DEF TickPose, MainPlaces
      <4>4. QED BY <4>1, <4>2, <4>3 DEF TypeOK
    <3>7. CASE TickIdle
      BY <3>7 DEF TickIdle, TickUnchanged, MainPlaces
    <3>8. CASE SingleSettle
      <4>1. FlagTypes'
        BY <3>8, ZenonT(60) DEF SingleSettle, MainPlaces
      <4>2. DataTypes'
        BY <3>8 DEF SingleSettle, MainPlaces
      <4>3. EventTypes'
        BY <3>8 DEF SingleSettle, MainPlaces
      <4>4. QED BY <4>1, <4>2, <4>3 DEF TypeOK
    <3>9. CASE SingleLift
      BY <3>9 DEF SingleLift, MainPlaces
    <3>10. CASE ExecuteMotion
      <4>1. FlagTypes'
        BY <3>10 DEF ExecuteMotion, Signal, MainPlaces
      <4>2. DataTypes'
        BY <3>10 DEF ExecuteMotion, Signal, MainPlaces
      <4>3. EventTypes'
        BY <3>10 DEF ExecuteMotion, Signal, MainPlaces
      <4>4. QED BY <4>1, <4>2, <4>3 DEF TypeOK
    <3>11. CASE SwitchLeg
      BY <3>11 DEF SwitchLeg, MainPlaces
    <3>12. CASE Step
      <4>1. FlagTypes'
        BY <3>12, ComboAlternates, ZenonT(60) DEF Step, MainPlaces
      <4>2. DataTypes'
        BY <3>12, ComboAlternates DEF Step, MainPlaces
      <4>3. EventTypes'
        BY <3>12 DEF Step, MainPlaces
      <4>4. QED BY <4>1, <4>2, <4>3 DEF TypeOK
    <3>13. CASE RelaxFirst
      BY <3>13, ComboAlternates DEF RelaxFirst, RelaxLeg, MainPlaces
    <3>14. CASE RelaxSecond
      BY <3>14, ComboAlternates DEF RelaxSecond, RelaxLeg, MainPlaces
    <3>15. CASE SetEvent
      BY <3>15 DEF SetEvent, Awake, MainPlaces
    <3>16. CASE ReadTransformation \/ ApplyPose
      <4>1. body_pose' \in Poses
        <5>1. body_pose \in Poses /\ wanted_pose.transformation \in Offsets
              /\ wanted_pose.rotation \in Offsets
          BY PoseTypes, MovementAssumption
        <5>2. QED BY <3>16, <5>1, PoseTypes DEF ReadTransformation, ApplyPose
      <4>2. FlagTypes'
        BY <3>16 DEF ReadTransformation, ApplyPose
      <4>3. DataTypes'
        BY <3>16, <4>1 DEF ReadTransformation, ApplyPose, MainPlaces
      <4>4. EventTypes'
        BY <3>16 DEF ReadTransformation, ApplyPose
      <4>5. QED BY <4>2, <4>3, <4>4 DEF TypeOK
    <3>17. CASE DanceCheck
      BY <3>17 DEF DanceCheck, DanceWaits, MainPlaces
    <3>18. CASE DanceGet
      BY <3>18 DEF DanceGet, MainPlaces
    <3>19. CASE DanceCancelled
      <4>1. FlagTypes'
        BY <3>19, PoseTypes, ZenonT(60) DEF DanceCancelled, ResetsPose, MainPlaces
      <4>2. DataTypes'
        BY <3>19, PoseTypes DEF DanceCancelled, ResetsPose, MainPlaces
      <4>3. EventTypes'
        BY <3>19 DEF DanceCancelled, ResetsPose, MainPlaces
      <4>4. QED BY <4>1, <4>2, <4>3 DEF TypeOK
    <3>20. CASE DanceChecksPassed
      BY <3>20, PoseTypes DEF DanceChecksPassed, ResetsPose, MainPlaces
    <3>21. CASE DanceEnd
      BY <3>21 DEF DanceEnd, MainPlaces
    <3>22. QED BY <2>2, <3>1, <3>2, <3>3, <3>4, <3>5, <3>6, <3>7, <3>8, <3>9, <3>10, <3>11, <3>12, <3>13, <3>14, <3>15, <3>16, <3>17, <3>18, <3>19, <3>20, <3>21 DEF Tick
  <2>3. CASE Faults
    <3>1. CASE ServiceFault \/ LegFault
      BY <3>1 DEF ServiceFault, LegFault, MainPlaces
    <3>2. CASE PostureFault
      <4>1. FlagTypes'
        BY <3>2, ZenonT(60) DEF PostureFault
      <4>2. DataTypes'
        BY <3>2 DEF PostureFault, MainPlaces
      <4>3. EventTypes'
        BY <3>2 DEF PostureFault
      <4>4. QED BY <4>1, <4>2, <4>3 DEF TypeOK
    <3>3. QED BY <2>3, <3>1, <3>2 DEF Faults
  <2>4. CASE Callbacks
    <3>1. CASE Stand
      BY <3>1 DEF Stand, OthersRun
    <3>2. CASE Halt
      <4>1. FlagTypes'
        BY <3>2, ZenonT(60) DEF Halt, OthersRun
      <4>2. DataTypes'
        BY <3>2 DEF Halt, OthersRun
      <4>3. EventTypes'
        BY <3>2 DEF Halt, OthersRun
      <4>4. QED BY <4>1, <4>2, <4>3 DEF TypeOK
    <3>3. CASE Fold
      BY <3>3 DEF Fold, OthersRun
    <3>4. CASE Move
      BY <3>4 DEF Move, OthersRun
    <3>5. CASE StoreTransformation \/ StoreRotation
      <4>1. wanted_pose' \in Poses
        <5>1. wanted_pose \in Poses
          OBVIOUS
        <5>2. PICK offset \in Offsets :
                \/ wanted_pose' = [wanted_pose EXCEPT !.transformation = offset]
                \/ wanted_pose' = [wanted_pose EXCEPT !.rotation = offset]
          BY <3>5 DEF StoreTransformation, StoreRotation
        <5>3. /\ [wanted_pose EXCEPT !.transformation = offset] \in Poses
              /\ [wanted_pose EXCEPT !.rotation = offset] \in Poses
          BY <5>1, PoseTypes
        <5>4. QED BY <5>2, <5>3
      <4>2. FlagTypes'
        BY <3>5 DEF StoreTransformation, StoreRotation, OthersRun
      <4>3. DataTypes'
        BY <3>5, <4>1 DEF StoreTransformation, StoreRotation, OthersRun
      <4>4. EventTypes'
        BY <3>5 DEF StoreTransformation, StoreRotation, OthersRun
      <4>5. QED BY <4>2, <4>3, <4>4 DEF TypeOK
    <3>6. CASE FlagPose
      BY <3>6 DEF FlagPose, OthersRun
    <3>7. CASE SelectLeg
      BY <3>7 DEF SelectLeg, OthersRun
    <3>8. CASE StoreMode
      BY <3>8 DEF StoreMode, OthersRun
    <3>9. CASE \E d \in Dancers : \/ Schedule(d) \/ CancelCall(d)
                                  \/ CancelCheck(d) \/ CancelGet(d)
      <4> SUFFICES ASSUME NEW d \in Dancers,
                          Schedule(d) \/ CancelCall(d) \/ CancelCheck(d) \/ CancelGet(d)
                   PROVE  TypeOK'
        BY <3>9
      <4>1. CASE Schedule(d)
        BY <4>1 DEF Schedule, OthersRun
      <4>2. CASE CancelCall(d)
        BY <4>2 DEF CancelCall, OthersRun
      <4>3. CASE CancelCheck(d)
        <5>1. FlagTypes'
          BY <4>3, ZenonT(60) DEF CancelCheck, OthersRun
        <5>2. DataTypes'
          BY <4>3 DEF CancelCheck, OthersRun
        <5>3. EventTypes'
          BY <4>3 DEF CancelCheck, OthersRun
        <5>4. QED BY <5>1, <5>2, <5>3 DEF TypeOK
      <4>4. CASE CancelGet(d)
        BY <4>4 DEF CancelGet, OthersRun
      <4>5. QED BY <4>1, <4>2, <4>3, <4>4
    <3>10. QED BY <2>4, <3>1, <3>2, <3>3, <3>4, <3>5, <3>6, <3>7, <3>8, <3>9 DEF Callbacks
  <2>5. CASE \E c \in Clients : Services(c)
    <3> SUFFICES ASSUME NEW c \in Clients, Services(c) PROVE TypeOK'
      BY <2>5
    <3>1. CASE CallMotion(c)
      BY <3>1 DEF CallMotion, ServiceUnchanged, OthersRun
    <3>2. CASE ReturnMotion(c)
      BY <3>2 DEF ReturnMotion, ServiceUnchanged, OthersRun
    <3>3. CASE CallRelax(c)
      <4>1. FlagTypes'
        BY <3>3, ZenonT(60) DEF CallRelax, ServiceUnchanged, OthersRun
      <4>2. DataTypes'
        BY <3>3 DEF CallRelax, ServiceUnchanged, OthersRun
      <4>3. EventTypes'
        BY <3>3 DEF CallRelax, ServiceUnchanged, OthersRun
      <4>4. QED BY <4>1, <4>2, <4>3 DEF TypeOK
    <3>4. CASE UnsetRelaxed(c)
      <4>1. FlagTypes'
        BY <3>4, ZenonT(60) DEF UnsetRelaxed, ServiceUnchanged, OthersRun
      <4>2. DataTypes'
        BY <3>4 DEF UnsetRelaxed, ServiceUnchanged, OthersRun
      <4>3. EventTypes'
        BY <3>4 DEF UnsetRelaxed, ServiceUnchanged, OthersRun
      <4>4. QED BY <4>1, <4>2, <4>3 DEF TypeOK
    <3>5. CASE WaitRelaxed(c)
      BY <3>5 DEF WaitRelaxed, ServiceUnchanged, OthersRun
    <3>6. CASE ReturnRelax(c)
      BY <3>6 DEF ReturnRelax, ServiceUnchanged, OthersRun
    <3>7. QED BY <3>1, <3>2, <3>3, <3>4, <3>5, <3>6 DEF Services
  <2>6. CASE UNCHANGED vars
    BY <2>6 DEF vars
  <2>7. QED BY <2>1, <2>2, <2>3, <2>4, <2>5, <2>6 DEF Next, Main
<1>3. QED BY <1>1, <1>2, PTL DEF Spec

-----------------------------------------------------------------------------
(* Callbacks and service threads touch neither the main thread's place nor   *)
(* the robot: whatever they do, invariants over these are kept.              *)
LEMMA OthersLeaveRobot ==
  ASSUME Callbacks \/ (\E c \in Clients : Services(c)) \/ UNCHANGED vars
  PROVE  UNCHANGED <<pc, postureVars, gaitVars>>
<1>1. CASE Callbacks
  BY <1>1 DEF Callbacks, Stand, Halt, Fold, Move, StoreTransformation, StoreRotation, FlagPose, SelectLeg, StoreMode,
              Schedule, CancelCall, CancelCheck, CancelGet, OthersRun
<1>2. CASE \E c \in Clients : Services(c)
  BY <1>2 DEF Services, CallMotion, ReturnMotion, CallRelax, UnsetRelaxed, WaitRelaxed,
              ReturnRelax, ServiceUnchanged, OthersRun
<1>3. CASE UNCHANGED vars
  BY <1>3 DEF vars
<1>4. QED BY <1>1, <1>2, <1>3

(* A tick moves the legs of a standing robot: it changes no posture, starts  *)
(* from a standing place and ends at one, or back at the top of the loop.    *)
LEMMA TickStands ==
  ASSUME Tick
  PROVE  /\ UNCHANGED postureVars
         /\ pc \in StandingPlaces
         /\ pc' \in StandingPlaces \cup {"top"}
BY DEF Tick, TickSingle, TickMotion, TickSwitch, TickStep, TickRelax, TickPose, TickIdle,
       TickUnchanged, SingleSettle, SingleLift, ExecuteMotion, SwitchLeg, Step, RelaxFirst,
       RelaxSecond, SetEvent, ReadTransformation, ApplyPose, DanceCheck, DanceGet, DanceCancelled,
       DanceChecksPassed, DanceEnd, StandingPlaces, postureVars

LEMMA PostureStep == TypeOK /\ PostureInv /\ [Next]_vars => PostureInv'
<1> SUFFICES ASSUME TypeOK, PostureInv, [Next]_vars PROVE PostureInv'
  OBVIOUS
<1> USE DEF PostureInv, StandingPlaces, LyingPlaces, FoldOps, Folding, FoldTest, postureVars
<1>1. CASE Loop
  <2>1. CASE Top
    BY <2>1 DEF Top, HaltSeen
  <2>2. CASE Rise
    BY <2>2 DEF Rise, check_if_folded
  <2>3. CASE Unfold
    BY <2>3 DEF Unfold
  <2>4. CASE StandUp
    BY <2>4 DEF StandUp
  <2>5. CASE SitDown
    BY <2>5 DEF SitDown, LowerBody
  <2>6. CASE Exit
    BY <2>6 DEF Exit, MustSitDown, LowerBody
  <2>7. CASE Stop
    BY <2>7 DEF Stop
  <2>8. CASE Grounded
    BY <2>8 DEF Grounded
  <2>9. CASE \E t \in DOMAIN FoldTest : CompareFold(t)
    BY <2>9 DEF CompareFold, Applies, NextTest, check_if_folded
  <2>10. CASE \E op \in FoldOps : FoldOrUnfold(op)
    BY <2>10 DEF FoldOrUnfold
  <2>11. CASE FoldDone
    BY <2>11 DEF FoldDone
  <2>12. QED BY <1>1, <2>1, <2>2, <2>3, <2>4, <2>5, <2>6, <2>7, <2>8, <2>9, <2>10, <2>11
             DEF Loop
<1>2. CASE Tick
  BY <1>2, TickStands
<1>3. CASE Faults
  BY <1>3 DEF Faults, ServiceFault, LegFault, PostureFault
<1>4. CASE Callbacks \/ (\E c \in Clients : Services(c)) \/ UNCHANGED vars
  BY <1>4, OthersLeaveRobot
<1>5. QED BY <1>1, <1>2, <1>3, <1>4 DEF Next, Main

(* The posture invariant holds for ever, and with it the three promises about *)
(* the raised robot.                                                          *)
THEOREM PostureCorrect == Spec => []PostureInv
<1>1. Init => PostureInv
  BY DEF Init, PostureInv, StandingPlaces, LyingPlaces, FoldOps, Folding, FoldTest
<1>2. QED BY <1>1, TypeCorrect, PostureStep, PTL DEF Spec

(* LimpOnlyDown: the motors carry the body whenever it is up. *)
THEOREM NeverLimpWhileUp == Spec => []LimpOnlyDown
<1>1. PostureInv => LimpOnlyDown BY DEF PostureInv, LimpOnlyDown
<1>2. QED BY <1>1, PostureCorrect, PTL

(* EndsLyingDown: after a halt the robot is off its legs and limp. *)
THEOREM LoopEndsLyingDown == Spec => []EndsLyingDown
<1>1. PostureInv => EndsLyingDown BY DEF PostureInv, LyingPlaces, EndsLyingDown
<1>2. QED BY <1>1, PostureCorrect, PTL

(* FoldsLyingDown: fold and unfold start from the posture they were written *)
(* for, with folding_operation changing between any two of its four reads.  *)
THEOREM FoldingStartsRight == Spec => []FoldsLyingDown
<1>1. PostureInv => FoldsLyingDown
  BY DEF PostureInv, LyingPlaces, FoldOps, FoldsLyingDown
<1>2. QED BY <1>1, PostureCorrect, PTL

-----------------------------------------------------------------------------
(* RelaxInv: the first call of relax_next_leg leaves its tripod where the   *)
(* second call, which lifts the other one, does not touch it.               *)
LEMMA RelaxStep == TypeOK /\ RelaxInv /\ [Next]_vars => RelaxInv'
<1> SUFFICES ASSUME TypeOK, RelaxInv, [Next]_vars PROVE RelaxInv'
  OBVIOUS
<1>1. CASE RelaxFirst
  BY <1>1, ComboAlternates DEF RelaxFirst, RelaxLeg, RelaxInv
<1>2. CASE RelaxSecond
  <2>1. combo \in Tripods /\ in_place \subseteq Tripods
    BY DEF TypeOK, DataTypes
  <2>2. combo \in in_place
    BY <1>2 DEF RelaxInv, RelaxSecond
  <2>3. in_place' = in_place \cup {NextCombo(combo)}
    BY <1>2 DEF RelaxSecond, RelaxLeg
  <2>4. in_place' = Tripods
    BY <2>1, <2>2, <2>3, ComboAlternates
  <2>5. QED BY <1>2, <2>4 DEF RelaxSecond, RelaxInv
<1>3. CASE Tick /\ ~RelaxFirst /\ ~RelaxSecond
  <2>1. pc' \notin {"relax2", "set_event"}
    BY <1>3 DEF Tick, TickSingle, TickMotion, TickSwitch, TickStep, TickRelax, TickPose,
         TickIdle, SingleSettle, SingleLift, ExecuteMotion, SwitchLeg, Step, SetEvent,
         ReadTransformation, ApplyPose, DanceCheck, DanceGet, DanceCancelled, DanceChecksPassed, DanceEnd
  <2>2. QED BY <2>1 DEF RelaxInv
<1>4. CASE Loop \/ Faults
  <2>1. pc' \notin {"relax2", "set_event"}
    BY <1>4, FoldTests DEF Loop, Top, Rise, Unfold, StandUp, SitDown, Exit, Stop, Grounded,
         CompareFold, FoldOrUnfold, FoldDone, Faults, ServiceFault, LegFault, PostureFault, LegMotions, FoldTest, FoldOps
  <2>2. QED BY <2>1 DEF RelaxInv
<1>5. CASE Callbacks \/ (\E c \in Clients : Services(c)) \/ UNCHANGED vars
  BY <1>5, OthersLeaveRobot DEF RelaxInv, gaitVars
<1>6. QED BY <1>1, <1>2, <1>3, <1>4, <1>5 DEF Next, Main

(* FeetInPlaceWhenSet: whoever is told that the robot is relaxed finds the   *)
(* feet of both tripods over their places in the relaxed stance.            *)
THEOREM RelaxPlacesFeet == Spec => []FeetInPlaceWhenSet
<1>1. Init => RelaxInv BY DEF Init, RelaxInv
<1>2. RelaxInv => FeetInPlaceWhenSet BY DEF RelaxInv, FeetInPlaceWhenSet
<1>3. QED BY <1>1, <1>2, RelaxStep, TypeCorrect, PTL DEF Spec

-----------------------------------------------------------------------------
(* The pose and the dance queue are touched by few actions; every other one *)
(* leaves the variables of the invariant alone.                             *)

(* PoseNotLost: storing the pose before raising the flag, and lowering the  *)
(* flag before reading the pose, neither loses nor tears a stance_translate. *)
(* PoseInv adds what the tick knows when it has read the translation only.   *)
THEOREM NoPoseLost == Spec => []PoseNotLost
<1>1. Init => PoseInv
  BY DEF Init, PoseInv, PoseNotLost, NoUpdatePending
<1>2. TypeOK /\ PoseInv /\ [Next]_vars => PoseInv'
  <2> SUFFICES ASSUME TypeOK, PoseInv, [Next]_vars PROVE PoseInv'
    OBVIOUS
  <2>0. wanted_pose \in Poses /\ body_pose \in Poses
    BY DEF TypeOK, DataTypes
  <2> USE DEF PoseInv, PoseNotLost, NoUpdatePending, postureVars, gaitVars, flagVars, poseVars, singleVars, relaxVars,
              motionVars, danceVars, sharedVars
  <2>1. CASE Loop
    BY <2>1, FoldTests DEF Loop, Top, Rise, Unfold, StandUp, SitDown, Exit, Stop, Grounded,
         CompareFold, FoldOrUnfold, FoldDone, LowerBody, FoldTest, FoldOps
  <2>2. CASE Tick
    <3>1. CASE ReadTransformation
      BY <3>1, <2>0 DEF ReadTransformation, Poses
    <3>2. CASE ApplyPose
      <4>1. CASE NoUpdatePending
        <5>1. body_pose.transformation = wanted_pose.transformation
          BY <3>2, <4>1 DEF ApplyPose
        <5>2. body_pose' = wanted_pose
          BY <3>2, <5>1, <2>0 DEF ApplyPose, Poses
        <5>3. QED BY <3>2, <5>2 DEF ApplyPose
      <4>2. QED BY <3>2, <4>1 DEF ApplyPose
    <3>3. CASE Tick /\ ~ReadTransformation /\ ~ApplyPose
      BY <3>3 DEF Tick, TickUnchanged, TickSingle, TickMotion, TickSwitch, TickStep,
           TickRelax, TickPose, TickIdle, SingleSettle, SingleLift, ExecuteMotion, SwitchLeg,
           Step, RelaxFirst, RelaxSecond, SetEvent, DanceCheck, DanceGet, DanceCancelled,
           DanceChecksPassed, DanceEnd, ResetsPose
    <3>4. QED BY <2>2, <3>1, <3>2, <3>3
  <2>3. CASE Faults
    BY <2>3 DEF Faults, ServiceFault, LegFault, PostureFault, FoldTest, FoldOps
  <2>4. CASE Callbacks
    BY <2>4 DEF Callbacks, Stand, Halt, Fold, Move, StoreTransformation, StoreRotation, FlagPose, SelectLeg,
         StoreMode, Schedule, CancelCall, CancelCheck, CancelGet, OthersRun
  <2>5. CASE \E c \in Clients : Services(c)
    BY <2>5 DEF Services, CallMotion, ReturnMotion, CallRelax, UnsetRelaxed, WaitRelaxed,
         ReturnRelax, ServiceUnchanged, OthersRun
  <2>6. CASE UNCHANGED vars
    BY <2>6 DEF vars
  <2>7. QED BY <2>1, <2>2, <2>3, <2>4, <2>5, <2>6 DEF Next, Main
<1>3. PoseInv => PoseNotLost BY DEF PoseInv
<1>4. QED BY <1>1, <1>2, <1>3, TypeCorrect, PTL DEF Spec

(* SomeConsumerRuns: the consumers of the dance queue may starve each       *)
(* other, but whoever takes the last dance looks at the queue again before  *)
(* it waits, so they are never all waiting for an empty queue.              *)
THEOREM NoDanceDeadlock == Spec => []SomeConsumerRuns
<1>1. Init => SomeConsumerRuns BY DEF Init, SomeConsumerRuns, Starved
<1>2. TypeOK /\ SomeConsumerRuns /\ [Next]_vars => SomeConsumerRuns'
  <2> SUFFICES ASSUME TypeOK, SomeConsumerRuns, [Next]_vars PROVE SomeConsumerRuns'
    OBVIOUS
  <2> USE DEF SomeConsumerRuns, Starved, postureVars, gaitVars, flagVars, poseVars,
              singleVars, relaxVars, motionVars, danceVars, sharedVars
  <2>1. CASE Loop \/ Faults
    <3>1. pc' # "dance_get"
      BY <2>1, FoldTests DEF Loop, Top, Rise, Unfold, StandUp, SitDown, Exit, Stop, Grounded,
           CompareFold, FoldOrUnfold, FoldDone, Faults, ServiceFault, LegFault, PostureFault, LegMotions, FoldTest, FoldOps
    <3>2. QED BY <3>1
  <2>2. CASE DanceCheck
    BY <2>2 DEF DanceCheck, DanceWaits
  <2>3. CASE Tick /\ ~DanceCheck
    <3>1. pc' # "dance_get"
      BY <2>3 DEF Tick, TickSingle, TickMotion, TickSwitch, TickStep, TickRelax,
           TickPose, TickIdle, SingleSettle, SingleLift, ExecuteMotion, SwitchLeg, Step,
           RelaxFirst, RelaxSecond, SetEvent, ReadTransformation, ApplyPose, DanceGet, DanceCancelled,
           DanceChecksPassed, DanceEnd
    <3>2. QED BY <3>1
  <2>4. CASE Callbacks
    <3>1. CASE \E d \in Dancers : \/ Schedule(d) \/ CancelCall(d)
                                  \/ CancelCheck(d) \/ CancelGet(d)
      <4> SUFFICES ASSUME NEW d \in Dancers,
                          Schedule(d) \/ CancelCall(d) \/ CancelCheck(d) \/ CancelGet(d)
                   PROVE  SomeConsumerRuns'
        BY <3>1
      <4>1. dancer \in [Dancers -> {"idle", "cancel", "get"}]
        BY DEF TypeOK, DataTypes
      <4>2. CASE Schedule(d)
        BY <4>2 DEF Schedule, OthersRun
      <4>3. CASE CancelCall(d)
        <5>1. dancer'[d] # "get" BY <4>1, <4>3 DEF CancelCall
        <5>2. QED BY <5>1
      <4>4. CASE CancelCheck(d)
        <5>1. dancer'[d] # "get" \/ command_queue' # <<>>
          BY <4>1, <4>4 DEF CancelCheck, DanceWaits
        <5>2. QED BY <5>1
      <4>5. CASE CancelGet(d)
        <5>1. dancer'[d] # "get" BY <4>1, <4>5 DEF CancelGet
        <5>2. QED BY <5>1
      <4>6. QED BY <4>2, <4>3, <4>4, <4>5
    <3>2. CASE Stand \/ Halt \/ Fold \/ Move \/ StoreTransformation \/ StoreRotation \/ FlagPose \/ SelectLeg \/ StoreMode
      BY <3>2 DEF Stand, Halt, Fold, Move, StoreTransformation, StoreRotation, FlagPose, SelectLeg, StoreMode, OthersRun
    <3>3. QED BY <2>4, <3>1, <3>2 DEF Callbacks
  <2>5. CASE \E c \in Clients : Services(c)
    BY <2>5 DEF Services, CallMotion, ReturnMotion, CallRelax, UnsetRelaxed, WaitRelaxed,
         ReturnRelax, ServiceUnchanged, OthersRun
  <2>6. CASE UNCHANGED vars
    BY <2>6 DEF vars
  <2>7. QED BY <2>1, <2>2, <2>3, <2>4, <2>5, <2>6 DEF Next, Main
<1>3. QED BY <1>1, <1>2, TypeCorrect, PTL DEF Spec

-----------------------------------------------------------------------------
(* The threads of step_to_relaxed. *)

(* A step that neither sets _relaxed nor leaves set_event, and touches no    *)
(* client, owes the waiting threads what it owed them before.                *)
LEMMA RelaxFrame ==
  ASSUME NoLostRelax, UNCHANGED <<relaxed, relaxed_event, client>>,
         pc = "set_event" => pc' = "set_event"
  PROVE  NoLostRelax'
BY DEF NoLostRelax

(* NoLostRelax: a thread that waits for relaxed_finished_event has a set()   *)
(* to come, although clear(), the assignment to _relaxed and wait() of any   *)
(* number of threads mix with each other and with the main thread.           *)
THEOREM NoWakeupLost == Spec => []NoLostRelax
<1>1. Init => NoLostRelax BY DEF Init, NoLostRelax
<1>2. TypeOK /\ NoLostRelax /\ [Next]_vars => NoLostRelax'
  <2> SUFFICES ASSUME TypeOK, NoLostRelax, [Next]_vars PROVE NoLostRelax'
    OBVIOUS
  <2> DEFINE Places == {"idle", "wait_motion", "unset", "wait", "blocked", "woken"}
  <2>0. client \in [Clients -> Places]
    BY DEF TypeOK, DataTypes
  <2> USE DEF postureVars, gaitVars, flagVars, poseVars, singleVars, relaxVars, motionVars,
              danceVars, sharedVars
  <2>1. CASE Loop \/ Faults
    <3>1. pc # "set_event" /\ UNCHANGED <<relaxed, relaxed_event, client>>
      BY <2>1, FoldTests DEF Loop, Top, Rise, Unfold, StandUp, SitDown, Exit, Stop, Grounded,
           CompareFold, FoldOrUnfold, FoldDone, Faults, ServiceFault, LegFault, PostureFault, LegMotions, FoldTest, FoldOps
    <3>2. QED BY <3>1, RelaxFrame
  <2>2. CASE Tick
    <3>1. CASE SetEvent
      <4>1. \A c \in Clients : client'[c] # "blocked"
        BY <3>1, <2>0 DEF SetEvent, Awake
      <4>2. relaxed_event' BY <3>1 DEF SetEvent
      <4>3. QED BY <4>1, <4>2 DEF NoLostRelax
    <3>2. CASE RelaxSecond
      BY <3>2 DEF RelaxSecond, NoLostRelax
    <3>3. CASE Step
      BY <3>3 DEF Step, NoLostRelax
    <3>4. CASE Tick /\ ~SetEvent /\ ~RelaxSecond /\ ~Step
      <4>1. pc # "set_event" /\ UNCHANGED <<relaxed, relaxed_event, client>>
        BY <3>4 DEF Tick, TickUnchanged, TickSingle, TickMotion, TickSwitch, TickStep,
             TickRelax, TickPose, TickIdle, SingleSettle, SingleLift, ExecuteMotion,
             SwitchLeg, RelaxFirst, ReadTransformation, ApplyPose, DanceCheck, DanceGet, DanceCancelled,
             DanceChecksPassed, DanceEnd
      <4>2. QED BY <4>1, RelaxFrame
    <3>5. QED BY <2>2, <3>1, <3>2, <3>3, <3>4
  <2>3. CASE Callbacks
    <3>1. UNCHANGED <<pc, relaxed, relaxed_event, client>>
      BY <2>3 DEF Callbacks, Stand, Halt, Fold, Move, StoreTransformation, StoreRotation, FlagPose, SelectLeg,
           StoreMode, Schedule, CancelCall, CancelCheck, CancelGet, OthersRun
    <3>2. QED BY <3>1, RelaxFrame
  <2>4. CASE \E c \in Clients : Services(c)
    <3> SUFFICES ASSUME NEW c \in Clients, Services(c) PROVE NoLostRelax'
      BY <2>4
    <3> USE DEF ServiceUnchanged, OthersRun
    <3>1. CASE CallMotion(c)
      BY <3>1, <2>0 DEF CallMotion, NoLostRelax
    <3>2. CASE ReturnMotion(c)
      BY <3>2, <2>0 DEF ReturnMotion, NoLostRelax
    <3>3. CASE CallRelax(c)
      <4>1. client'[c] = "unset" BY <3>3, <2>0 DEF CallRelax
      <4>2. QED BY <4>1 DEF NoLostRelax
    <3>4. CASE UnsetRelaxed(c)
      BY <3>4 DEF UnsetRelaxed, NoLostRelax
    <3>5. CASE WaitRelaxed(c)
      BY <3>5, <2>0 DEF WaitRelaxed, NoLostRelax
    <3>6. CASE ReturnRelax(c)
      BY <3>6, <2>0 DEF ReturnRelax, NoLostRelax
    <3>7. QED BY <3>1, <3>2, <3>3, <3>4, <3>5, <3>6 DEF Services
  <2>5. CASE UNCHANGED vars
    BY <2>5, RelaxFrame DEF vars
  <2>6. QED BY <2>1, <2>2, <2>3, <2>4, <2>5 DEF Next, Main
<1>3. QED BY <1>1, <1>2, TypeCorrect, PTL DEF Spec

-----------------------------------------------------------------------------
(* The threads of the leg services. *)

(* The motion under way goes on, unless the loop fails. *)
MotionGoesOn == \/ pc' = "failed"
                \/ /\ (pc' = "motion") = (pc = "motion")
                   /\ (pc' = "failed") = (pc = "failed")

(* Every step but those of a motion and of its caller leaves the queue, the  *)
(* events and the place of the caller alone.                                 *)
LEMMA MotionFrame ==
  ASSUME TypeOK, [Next]_vars
  PROVE  \/ TickMotion \/ ExecuteMotion
         \/ \E c \in Clients : CallMotion(c) \/ ReturnMotion(c)
         \/ /\ UNCHANGED motionVars
            /\ MotionGoesOn
            /\ \A c \in Clients : (client'[c] = "wait_motion") = (client[c] = "wait_motion")
<1> DEFINE Frame == /\ UNCHANGED motionVars
                    /\ MotionGoesOn
                    /\ \A c \in Clients : (client'[c] = "wait_motion")
                                           = (client[c] = "wait_motion")
<1>0. client \in [Clients -> {"idle", "wait_motion", "unset", "wait", "blocked", "woken"}]
  BY DEF TypeOK, DataTypes
<1> USE DEF MotionGoesOn, postureVars, gaitVars, flagVars, poseVars, singleVars, relaxVars,
            motionVars, danceVars, sharedVars
<1>1. CASE Loop \/ Faults
  BY <1>1, FoldTests DEF Loop, Top, Rise, Unfold, StandUp, SitDown, Exit, Stop, Grounded,
       CompareFold, FoldOrUnfold, FoldDone, Faults, ServiceFault, LegFault, PostureFault, LegMotions, FoldTest, FoldOps
<1>2. CASE SetEvent
  BY <1>2, <1>0 DEF SetEvent, Awake
<1>3. CASE Tick /\ ~SetEvent /\ ~TickMotion /\ ~ExecuteMotion
  BY <1>3 DEF Tick, TickUnchanged, TickSingle, TickSwitch, TickStep, TickRelax, TickPose,
       TickIdle, SingleSettle, SingleLift, SwitchLeg, Step, RelaxFirst, RelaxSecond,
       ReadTransformation, ApplyPose, DanceCheck, DanceGet, DanceCancelled, DanceChecksPassed, DanceEnd
<1>4. CASE Callbacks
  BY <1>4 DEF Callbacks, Stand, Halt, Fold, Move, StoreTransformation, StoreRotation, FlagPose, SelectLeg,
       StoreMode, Schedule, CancelCall, CancelCheck, CancelGet, OthersRun
<1>5. ASSUME NEW c \in Clients, CallRelax(c) \/ UnsetRelaxed(c) \/ WaitRelaxed(c)
                                \/ ReturnRelax(c)
      PROVE  Frame
  BY <1>5, <1>0 DEF CallRelax, UnsetRelaxed, WaitRelaxed, ReturnRelax, ServiceUnchanged,
       OthersRun
<1>6. CASE UNCHANGED vars
  BY <1>6 DEF vars
<1>7. QED BY <1>1, <1>2, <1>3, <1>4, <1>5, <1>6 DEF Next, Main, Services

(* MotionAccounted: no motion request is lost or executed twice. *)
THEOREM MotionsAccounted == Spec => []MotionAccounted
<1>1. Init => MotionAccounted
  BY MovementAssumption DEF Init, MotionAccounted, Queued
<1>2. TypeOK /\ MotionAccounted /\ [Next]_vars => MotionAccounted'
  <2> SUFFICES ASSUME TypeOK, MotionAccounted, [Next]_vars PROVE MotionAccounted'
    OBVIOUS
  <2>0. /\ motion_queue \in Seq(Clients) /\ executing \in Clients \cup {Nobody}
        /\ client \in [Clients -> {"idle", "wait_motion", "unset", "wait", "blocked", "woken"}]
        /\ event \in [Clients -> BOOLEAN]
    BY DEF TypeOK, DataTypes, EventTypes
  <2> USE DEF MotionAccounted, Queued
  <2>1. CASE TickMotion
    <3>1. executing = Nobody /\ motion_queue # <<>>
      BY <2>1 DEF TickMotion
    <3>2. /\ executing' = motion_queue[1] /\ pc' = "motion" /\ UNCHANGED <<event, client>>
          /\ motion_queue' = Tail(motion_queue)
      BY <2>1 DEF TickMotion, MotionsLeft
    <3>3. /\ DOMAIN motion_queue' = 1 .. (Len(motion_queue) - 1)
          /\ \A i \in DOMAIN motion_queue' : motion_queue'[i] = motion_queue[i + 1]
      BY <3>1, <3>2, <2>0
    <3>4. \A i \in DOMAIN motion_queue' : i + 1 \in DOMAIN motion_queue /\ i + 1 # 1
      BY <3>1, <3>3, <2>0
    <3>5. \A i \in DOMAIN motion_queue : i = 1 \/ i - 1 \in DOMAIN motion_queue'
      BY <3>1, <3>3, <2>0
    <3>6. Queued = Queued' \cup {motion_queue[1]}
      BY <3>1, <3>3, <3>4, <3>5, <2>0
    <3>7. executing' \notin Queued'
      BY <3>1, <3>2, <3>3, <3>4, <2>0
    <3>8. executing' \in Clients
      BY <3>1, <3>2, <2>0
    <3>9. \A i, j \in DOMAIN motion_queue' : motion_queue'[i] = motion_queue'[j] => i = j
      BY <3>3, <3>4, <2>0
    <3>10. QED BY <3>1, <3>2, <3>6, <3>7, <3>8, <3>9, MovementAssumption
  <2>2. CASE ExecuteMotion
    <3>1. executing \in Clients /\ executing \notin Queued
      BY <2>2, <2>0 DEF ExecuteMotion
    <3>2. /\ event' = [event EXCEPT ![executing] = TRUE] /\ executing' = Nobody
          /\ pc' = "top" /\ UNCHANGED <<motion_queue, client>>
      BY <2>2 DEF ExecuteMotion, Signal, motionVars
    <3>3. Nobody \notin Queued
      BY <2>0, MovementAssumption
    <3>4. QED BY <3>1, <3>2, <3>3, <2>0, MovementAssumption
  <2>3. ASSUME NEW c \in Clients, CallMotion(c) PROVE MotionAccounted'
    <3>1. /\ client[c] = "idle" /\ client' = [client EXCEPT ![c] = "wait_motion"]
          /\ event' = [event EXCEPT ![c] = FALSE]
          /\ motion_queue' = Append(motion_queue, c) /\ UNCHANGED <<executing, pc>>
      BY <2>3 DEF CallMotion, ServiceUnchanged, OthersRun
    <3>2. c \notin Queued /\ c # executing
      BY <3>1
    <3>3. /\ DOMAIN motion_queue' = 1 .. (Len(motion_queue) + 1)
          /\ DOMAIN motion_queue = 1 .. Len(motion_queue)
          /\ \A i \in DOMAIN motion_queue : motion_queue'[i] = motion_queue[i]
          /\ motion_queue'[Len(motion_queue) + 1] = c
          /\ Len(motion_queue) \in Nat
      BY <3>1, <2>0
    <3>4. \A i \in DOMAIN motion_queue' : i \in DOMAIN motion_queue \/ i = Len(motion_queue) + 1
      BY <3>3
    <3>5. Queued' = Queued \cup {c}
      BY <3>3, <3>4
    <3>6. \A i, j \in DOMAIN motion_queue' : motion_queue'[i] = motion_queue'[j] => i = j
      BY <3>2, <3>3, <3>4
    <3>7. QED BY <3>1, <3>2, <3>5, <3>6, <2>0
  <2>4. ASSUME NEW c \in Clients, ReturnMotion(c) PROVE MotionAccounted'
    BY <2>4, <2>0 DEF ReturnMotion, motionVars, ServiceUnchanged, OthersRun
  <2>5. CASE /\ UNCHANGED motionVars
             /\ MotionGoesOn
             /\ \A c \in Clients : (client'[c] = "wait_motion") = (client[c] = "wait_motion")
    BY <2>5 DEF motionVars, MotionGoesOn
  <2>6. QED BY <2>1, <2>2, <2>3, <2>4, <2>5, MotionFrame
<1>3. QED BY <1>1, <1>2, TypeCorrect, PTL DEF Spec

-----------------------------------------------------------------------------
(* Refinement: a call is pending while it is queued or executed, and served  *)
(* once its event is set.                                                    *)
Calls  == (IF executing = Nobody THEN <<>> ELSE <<executing>>) \o motion_queue
Served == {c \in Clients : client[c] = "wait_motion" /\ event[c]}

(* The queue seen through the mapping, whether or not a call is executed.    *)
LEMMA CallsOfQueue ==
  ASSUME NEW q \in Seq(Clients), NEW c \in Clients
  PROVE  /\ <<>> \o q = q
         /\ Head(<<c>> \o q) = c /\ Tail(<<c>> \o q) = q /\ <<c>> \o q # <<>>
         /\ q # <<>> => <<Head(q)>> \o Tail(q) = q
<1>1. <<>> \o q = q
  OBVIOUS
<1>2. Head(<<c>> \o q) = c /\ <<c>> \o q # <<>>
  OBVIOUS
<1>3. Tail(<<c>> \o q) = q
  OBVIOUS
<1>4. q # <<>> => <<Head(q)>> \o Tail(q) = q
  OBVIOUS
<1>5. QED BY <1>1, <1>2, <1>3, <1>4

LEMMA CallQueued ==
  ASSUME NEW q \in Seq(Clients), NEW p \in Seq(Clients), NEW c \in Clients
  PROVE  p \o Append(q, c) = Append(p \o q, c)
OBVIOUS

LEMMA CallsWaiting ==
  ASSUME TypeOK
  PROVE  {Calls[i] : i \in DOMAIN Calls}
           = Queued \cup (IF executing = Nobody THEN {} ELSE {executing})
<1>0. motion_queue \in Seq(Clients) /\ executing \in Clients \cup {Nobody}
  BY DEF TypeOK, DataTypes
<1>1. CASE executing = Nobody
  BY <1>0, <1>1, CallsOfQueue DEF Calls, Queued
<1>2. CASE executing # Nobody
  <2>1. /\ DOMAIN Calls = 1 .. (Len(motion_queue) + 1)
        /\ Calls[1] = executing
        /\ \A i \in DOMAIN motion_queue : Calls[i + 1] = motion_queue[i]
        /\ DOMAIN motion_queue = 1 .. Len(motion_queue) /\ Len(motion_queue) \in Nat
    BY <1>0, <1>2 DEF Calls
  <2>2. \A i \in DOMAIN Calls : i = 1 \/ i - 1 \in DOMAIN motion_queue
    BY <2>1
  <2>3. \A i \in DOMAIN motion_queue : i + 1 \in DOMAIN Calls
    BY <2>1
  <2>4. \A i \in DOMAIN Calls : i = 1 \/ Calls[i] = motion_queue[i - 1]
    BY <2>1, <2>2
  <2>5. QED BY <1>2, <2>1, <2>2, <2>3, <2>4 DEF Queued
<1>3. QED BY <1>1, <1>2

(* The leg services implement MotionService: every step of the threads is a  *)
(* step of the abstract service or is invisible to its callers.              *)
THEOREM ServiceImplemented == Spec => ImplementsService
<1>1. Init => Service!ServiceInit
  BY DEF Init, Service!ServiceInit
<1>2. TypeOK /\ MotionAccounted /\ [Next]_vars
        => [Service!ServiceNext]_(Service!serviceVars)
  <2> SUFFICES ASSUME TypeOK, MotionAccounted, [Next]_vars
               PROVE  [Service!ServiceNext]_(Service!serviceVars)
    OBVIOUS
  <2> DEFINE Stutter == Calls' = Calls /\ Served' = Served
  <2>0. /\ motion_queue \in Seq(Clients) /\ executing \in Clients \cup {Nobody}
        /\ client \in [Clients -> {"idle", "wait_motion", "unset", "wait", "blocked", "woken"}]
        /\ event \in [Clients -> BOOLEAN]
    BY DEF TypeOK, DataTypes, EventTypes
  <2>1. ASSUME Stutter PROVE UNCHANGED Service!serviceVars
    BY <2>1 DEF Service!serviceVars, Calls, Served
  <2>2. CASE TickMotion
    <3>1. /\ executing = Nobody /\ motion_queue # <<>>
          /\ executing' = Head(motion_queue) /\ motion_queue' = Tail(motion_queue)
          /\ UNCHANGED <<event, client>> /\ pc' = "motion"
      BY <2>2 DEF TickMotion, MotionsLeft, MotionAccounted
    <3>2. Head(motion_queue) \in Clients
      BY <3>1, <2>0
    <3>3. Stutter
      BY <3>1, <3>2, <2>0, CallsOfQueue, MovementAssumption DEF Calls, Served
    <3>4. QED BY <2>1, <3>3
  <2>3. CASE ExecuteMotion
    <3>1. /\ executing \in Clients /\ executing' = Nobody
          /\ event' = [event EXCEPT ![executing] = TRUE]
          /\ UNCHANGED <<motion_queue, client>> /\ client[executing] = "wait_motion"
      BY <2>3, <2>0 DEF ExecuteMotion, Signal, MotionAccounted
    <3>2. Calls # <<>> /\ Head(Calls) = executing /\ Calls' = Tail(Calls)
      BY <3>1, <2>0, CallsOfQueue, MovementAssumption DEF Calls
    <3>3. Served' = Served \cup {executing}
      BY <3>1, <2>0 DEF Served
    <3>4. Service!Serve
      BY <3>2, <3>3 DEF Service!Serve, Calls, Served
    <3>5. QED BY <3>4 DEF Service!ServiceNext
  <2>4. ASSUME NEW c \in Clients, CallMotion(c) PROVE Service!ServiceNext
    <3>1. /\ client[c] = "idle" /\ client' = [client EXCEPT ![c] = "wait_motion"]
          /\ event' = [event EXCEPT ![c] = FALSE]
          /\ motion_queue' = Append(motion_queue, c) /\ UNCHANGED executing
      BY <2>4 DEF CallMotion
    <3>2. c \notin Queued /\ c # executing /\ c \notin Served
      BY <3>1 DEF MotionAccounted, Served
    <3>3. c \notin {Calls[i] : i \in DOMAIN Calls}
      BY <3>2, CallsWaiting
    <3>4. Calls' = Append(Calls, c)
      BY <3>1, <2>0, CallQueued DEF Calls
    <3>5. Served' = Served
      BY <3>1, <2>0 DEF Served
    <3>6. Service!Call(c)
      BY <3>2, <3>3, <3>4, <3>5 DEF Service!Call, Service!Waiting, Calls, Served
    <3>7. QED BY <3>6 DEF Service!ServiceNext
  <2>5. ASSUME NEW c \in Clients, ReturnMotion(c) PROVE Service!ServiceNext
    <3>1. /\ client[c] = "wait_motion" /\ event[c]
          /\ client' = [client EXCEPT ![c] = "idle"]
          /\ UNCHANGED <<motion_queue, event, executing>>
      BY <2>5 DEF ReturnMotion, motionVars
    <3>2. c \in Served /\ Served' = Served \ {c} /\ Calls' = Calls
      BY <3>1, <2>0 DEF Served, Calls
    <3>3. Service!Return(c)
      BY <3>2 DEF Service!Return, Served, Calls
    <3>4. QED BY <3>3 DEF Service!ServiceNext
  <2>6. CASE /\ UNCHANGED motionVars
             /\ \A c \in Clients : (client'[c] = "wait_motion") = (client[c] = "wait_motion")
    <3>1. Stutter
      BY <2>6 DEF motionVars, Calls, Served
    <3>2. QED BY <2>1, <3>1
  <2>7. QED BY <2>2, <2>3, <2>4, <2>5, <2>6, MotionFrame
<1>3. QED BY <1>1, <1>2, TypeCorrect, MotionsAccounted, PTL
          DEF Spec, ImplementsService, Service!ServiceSpec

-----------------------------------------------------------------------------
(* The lidar is stopped when a comparison picks a folding operation, and     *)
(* nothing starts it before that operation is over.                          *)
LidarInv == pc \in Folding => ~lidar

Folds == body' = "folded" /\ body # "folded" => ~lidar'

(* FoldStopsLidar: the legs are never folded under a spinning lidar.         *)
THEOREM LidarStillWhenFolding == Spec => FoldStopsLidar
<1>1. Init => LidarInv BY DEF Init, LidarInv, Folding
<1>2. LidarInv /\ [Next]_vars => LidarInv' /\ [Folds]_vars
  <2> SUFFICES ASSUME LidarInv, [Next]_vars PROVE LidarInv' /\ Folds
    OBVIOUS
  <2> USE DEF LidarInv, Folds, Folding, FoldOps, FoldTest, postureVars
  <2>1. CASE Loop
    <3>1. CASE \E t \in DOMAIN FoldTest : CompareFold(t)
      <4> PICK t \in DOMAIN FoldTest : CompareFold(t)
        BY <3>1
      <4>1. UNCHANGED body
        BY DEF CompareFold
      <4>2. ASSUME pc' \in Folding PROVE ~lidar'
        <5>1. Applies(FoldTest[t])
          BY <4>2 DEF CompareFold, NextTest
        <5>2. pc' = FoldTest[t] /\ lidar' = (FoldTest[t] \notin Folding)
          BY <5>1 DEF CompareFold, LidarDuring
        <5>3. QED BY <4>2, <5>2, Zenon
      <4>3. QED BY <4>1, <4>2
    <3>2. CASE \E op \in FoldOps : FoldOrUnfold(op)
      BY <3>2 DEF FoldOrUnfold
    <3>3. CASE Top \/ Rise \/ Unfold \/ StandUp \/ SitDown \/ Exit \/ Stop \/ Grounded \/ FoldDone
      BY <3>3 DEF Top, Rise, Unfold, StandUp, SitDown, Exit, Stop, Grounded, FoldDone, LowerBody
    <3>4. QED BY <2>1, <3>1, <3>2, <3>3 DEF Loop
  <2>2. CASE Tick
    BY <2>2, TickStands DEF StandingPlaces
  <2>3. CASE Faults
    BY <2>3 DEF Faults, ServiceFault, LegFault, PostureFault
  <2>4. CASE Callbacks \/ (\E c \in Clients : Services(c)) \/ UNCHANGED vars
    BY <2>4, OthersLeaveRobot
  <2>5. QED BY <2>1, <2>2, <2>3, <2>4 DEF Next, Main
<1>3. QED BY <1>1, <1>2, PTL DEF Spec, FoldStopsLidar, Folds
=============================================================================
