-------------------------------- MODULE Fold --------------------------------
(***************************************************************************)
(* hopper_controller: FoldingManager, the scripts that fold the legs       *)
(* against the body and unfold them, 18 motors moved a fraction of a       *)
(* degree per cycle from the position last read or commanded.              *)
(*                                                                         *)
(* A script is a sequence of phases; a phase gives some legs a goal for    *)
(* some of their motors and repeats one move per cycle until all of them   *)
(* report their goal.  Angles are integers in tenths of a degree.  The two *)
(* sides mirror each other about 150 degrees, so phases are written in     *)
(* the angles of the left side.                                            *)
(***************************************************************************)
EXTENDS Integers, Sequences

CONSTANTS Step,      \* motion of a motor in one cycle: 1.3 degrees
          Tolerance, \* of check_if_folded: 20 degrees
          Lags,      \* how far the motors may be from the goal last written to them
          MaxFaults, \* bound of the model: scripts broken off
          Places     \* where the legs may be put by walking, or by hand when limp

Legs   == {"lf", "lm", "lr", "rf", "rm", "rr"}
Left   == {"lf", "lm", "lr"}
Middle == {"lm", "rm"}
Outer  == Legs \ Middle
Front  == {"lf", "rf"}
Parts  == {"coxa", "femur", "tibia"}

Positions == [Legs -> [Parts -> Int]]

None == 0            \* "if coxa:": an angle that is not given and 0 are the same

ASSUME FoldAssumption ==
  /\ Step \in Nat \ {0} /\ MaxFaults \in Nat
  /\ Tolerance \in Nat /\ Tolerance < 450
  /\ Lags \subseteq Positions
  /\ \A lag \in Lags : \A l \in Legs :
        /\ lag[l]["coxa"] < Tolerance - 100
        /\ -lag[l]["coxa"] < Tolerance - 100
  /\ Places \subseteq Positions /\ Places # {}

Max2(a, b) == IF a > b THEN a ELSE b
Abs(n) == Max2(n, -n)

Mirror(l, a) == IF l \in Left THEN a ELSE 3000 - a

Asked(l, a) == IF a = None THEN None ELSE Mirror(l, a)

Goal(l, c, f, t) == [coxa  |-> Asked(l, c), femur |-> Asked(l, f),
                     tibia |-> Asked(l, t)]

-----------------------------------------------------------------------------
(* Phases: the legs that move, each with its goal. *)

Pose(legs, c, f, t) == [l \in legs |-> Goal(l, c, f, t)]

Compress(legs) == Pose(legs, None, 600, 2400)

FoldedCoxa(l) == IF l \in Outer \ Front THEN 600 ELSE 2400

SwingIn(legs)  == [l \in legs |-> Goal(l, FoldedCoxa(l), None, None)]

SwingOut(legs) == Pose(legs, 1500, None, None)

Lift(legs) == Pose(legs, None, None, 2100)

(* A lowered middle leg carries its side of a robot that lies on the ground. *)
Carry(legs) == Pose(legs, None, 1300, 2000)

Raise(legs) == Pose(legs, None, 600, 2100)

(* slip: the left middle leg is not lowered before its side moves *)
OneSide == [l \in Middle |-> Raise(Middle)[l]]

SwitchSide == [l \in Middle |-> IF l = "lm" THEN Carry({"lm"})[l] ELSE Raise({"rm"})[l]]

OuterLeft  == Outer \cap Left
OuterRight == Outer \ Left

(* slip: the middle legs come in a little less *)
MiddleShort == Pose(Middle, 2200, None, None)

MiddleIn == Pose(Middle, 2300, None, None)

Script ==
  [FOLD |-> <<Compress(Legs), SwingOut(Middle), SwingIn(Outer), SwingIn(Middle)>>,
   UNFOLD |-> <<Compress(Legs), SwingOut(Legs), Lift(Legs)>>,
   UNFOLD_GROUNDED |->
     <<Compress(Legs), Pose(Middle, None, None, 2000), SwingOut(Middle),
       Carry({"rm"}), SwingOut(OuterRight), Lift(OuterRight), SwitchSide,
       SwingOut(OuterLeft), Lift(OuterLeft), Raise({"lm"})>>,
   FOLD_GROUNDED |->
     <<Pose(Legs, 1500, 600, 2100), Carry({"rm"}), Compress(OuterRight),
       SwingIn(OuterRight), SwitchSide, Compress(OuterLeft), SwingIn(OuterLeft),
       Raise({"lm"}), MiddleIn, Compress(Middle)>>]

Ops     == DOMAIN Script
Folding == {"FOLD", "FOLD_GROUNDED"}

-----------------------------------------------------------------------------
VARIABLES op,      \* script under way, or "None"
          phase,   \* its phase; Len(Script[op]) + 1 when it is done
          joints,  \* last_motor_position, and between scripts where the legs are
          faults   \* scripts broken off so far

vars == <<op, phase, joints, faults>>

(* move_towards and move_leg *)
(* slip: the goal is looked for exactly *)
Equal(target, current) == target = current

Near(target, current) == Abs(target - current) < Step

move_towards(target, current) ==
  IF Near(target, current) THEN target
  ELSE IF target > current THEN current + Step ELSE current - Step

MovedLeg(position, goal) ==
  [p \in Parts |-> IF goal[p] = None THEN position[p]
                   ELSE move_towards(goal[p], position[p])]

LegDone(position, goal) == \A p \in Parts : goal[p] = None \/ Near(goal[p], position[p])

(* check_if_folded: a coxa strictly within the tolerance of its place *)
Close(angle, target) == angle + Tolerance > target /\ target > angle - Tolerance

FoldedLeg(l, coxa) == \/ Close(coxa, Mirror(l, FoldedCoxa(l)))
                      \/ l \in Middle /\ Close(coxa, Mirror(l, 600))

Folded(position) == \A l \in Legs : FoldedLeg(l, position[l]["coxa"])

(* read_hexapod_motor_positions *)
Reading(lag) == [l \in Legs |-> [p \in Parts |-> joints[l][p] + lag[l][p]]]

Init == op = "None" /\ phase = 1 /\ joints \in Places /\ faults = 0

(* The loop compares with one reading; the script starts from the next. *)
Wanted(o, position) == Folded(position) <=> o \notin Folding

Begin(o) ==
  /\ op = "None"
  /\ \E lag \in Lags : Wanted(o, Reading(lag))
  /\ \E lag \in Lags : joints' = Reading(lag)
  /\ op' = o /\ phase' = 1 /\ UNCHANGED faults

-----------------------------------------------------------------------------
(* The middle leg of the side of l, and its coxa in the angles of the left. *)
MiddleOf(l) == IF l \in Left THEN "lm" ELSE "rm"
Sideways(l, position) == Mirror(MiddleOf(l), position[MiddleOf(l)]["coxa"])

(* slip: the rear legs are let go too early *)
AllFree(l, before, after) == TRUE

(* unfold: a middle leg folded over an outer one goes first.  The gates of   *)
(* lf and rf come before the move of the middle leg, those of lr and rr     *)
(* after it (rr, lr) in the text of the loop.                               *)
Free(l, before, after) ==
  CASE l \in Middle -> TRUE
    [] l \in Front  -> Sideways(l, before) > 1200
    [] OTHER        -> Sideways(l, after) < 1800

Current == Script[op][phase]

Moving(before, after) ==
  {l \in DOMAIN Current : op = "UNFOLD" /\ phase = 2 => Free(l, before, after)}

(* One cycle. *)
Moved(legs) == [l \in Legs |-> IF l \in legs THEN MovedLeg(joints[l], Current[l])
                                              ELSE joints[l]]

Ends(legs) == /\ legs = DOMAIN Current
              /\ \A l \in legs : LegDone(joints[l], Current[l])

InScript == op # "None" /\ phase <= Len(Script[op])

(* position_femur_tibia ends with the legs where they are read next. *)
Rereads == phase = 1 /\ op # "FOLD_GROUNDED"

(* fold reads once more, to see whether the middle legs have to be centred *)
NextPhase(position) ==
  IF op = "FOLD" /\ phase = 1 /\ Folded(position) THEN 3 ELSE phase + 1

Cycle ==
  /\ InScript
  /\ LET legs == Moving(joints, Moved(DOMAIN Current \cap Middle))
         next == Moved(legs)
     IN IF ~Ends(legs) THEN joints' = next /\ phase' = phase
        ELSE IF ~Rereads THEN joints' = next /\ phase' = phase + 1
        ELSE \E lag \in Lags :
               /\ joints' = [l \in Legs |-> [p \in Parts |-> next[l][p] + lag[l][p]]]
               /\ phase' = NextPhase(joints')
  /\ UNCHANGED <<op, faults>>

(* The last goals reached, torque goes off and the loop takes over again. *)
Finish ==
  /\ op # "None" /\ phase > Len(Script[op])
  /\ op' = "None" /\ phase' = 1 /\ UNCHANGED <<joints, faults>>

(* A servo that does not answer ends the script, and the node, between two    *)
(* cycles; the node that replaces it knows what the motors tell it.          *)
Abort ==
  /\ InScript /\ faults < MaxFaults
  /\ faults' = faults + 1
  /\ op' = "None" /\ phase' = 1 /\ UNCHANGED joints

(* Between scripts the robot walks and is put down, or is moved by hand. *)
Displace ==
  /\ op = "None" /\ joints' \in Places /\ UNCHANGED <<op, phase, faults>>

Next == \/ \E o \in Ops : Begin(o)
        \/ Cycle \/ Finish \/ Abort \/ Displace

Spec == Init /\ [][Next]_vars

(* The cycles of a script go on without waiting for anyone. *)
FairSpec == Spec /\ WF_vars(Cycle \/ Finish)

-----------------------------------------------------------------------------
TypeOK == /\ op \in Ops \cup {"None"}
          /\ joints \in Positions /\ faults \in Nat
          /\ IF op = "None" THEN phase = 1 ELSE phase \in 1 .. Len(Script[op]) + 1

Done == op # "None" /\ phase > Len(Script[op])

(* A script leaves the robot in the state it is for, and the next check says *)
(* so however far the motors lag: a fold is not refused nor repeated by     *)
(* _main_controller_loop, which decides by check_if_folded alone.  Grounded *)
(* folding parks the middle legs at 230 and 70 degrees, half the tolerance  *)
(* from the 240 and 60 the check asks for.                                  *)
CheckAgrees == Done => \A lag \in Lags : Folded(Reading(lag)) <=> op \in Folding

(* The coxa of the leg is commanded, and moves. *)
Swings(l) == /\ InScript /\ op' = op
             /\ l \in DOMAIN Current /\ Current[l]["coxa"] # None
             /\ joints'[l]["coxa"] # joints[l]["coxa"]

(* fold_on_ground begins by drawing all six legs in at once, from whatever   *)
(* pose check_if_folded did not take for folded: that of a sitting robot, or *)
(* that of a fold broken off, with middle legs folded over the outer ones.   *)
Gathers == op = "FOLD_GROUNDED" /\ phase = 1

(* The middle leg of the side is not folded over the way of the outer leg. *)
Clear(l, position) == IF l \in Front THEN Sideways(l, position) > 1200
                                     ELSE Sideways(l, position) < 1800

InPlace(l, position) == FoldedLeg(l, position[l]["coxa"])

(* No scraping: an outer leg that is not already against the body swings     *)
(* only clear of the middle leg of its side, in all four scripts.  One case  *)
(* is left out because the code has no gate there: when fold_on_ground draws *)
(* in the legs of a fold that was broken off, a leg whose way the middle leg *)
(* bars at that moment swings all the same; a leg that is clear stays clear. *)
NoScrape ==
  [][\A l \in Outer :
       /\ Swings(l) /\ ~(InPlace(l, joints) /\ InPlace(l, joints'))
       /\ Gathers => Clear(l, joints)
       => Clear(l, joints')]_vars

(* On the ground an outer leg swings only while the middle leg of its side  *)
(* is down and carries that side (unfold_on_ground, fold_on_ground), except *)
(* when fold_on_ground draws in all six legs at once, middle legs raised.   *)
Carried(l) ==
  LET m == MiddleOf(l)
  IN /\ joints[m]["femur"] = Mirror(m, 1300)
     /\ joints[m]["tibia"] = Mirror(m, 2000)

SwingsCarried ==
  [][\A l \in Outer :
       /\ op \in {"UNFOLD_GROUNDED", "FOLD_GROUNDED"} /\ ~Gathers
       /\ Swings(l)
       => Carried(l)]_vars

(* Every script ends: no gate of unfold waits for ever, and no motor steps   *)
(* to and fro about a goal that is no multiple of the step away.            *)
ScriptEnds == op # "None" ~> op = "None"
=============================================================================
