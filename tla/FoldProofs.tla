----------------------------- MODULE FoldProofs -----------------------------
(***************************************************************************)
(* Proofs about Fold, for every step, tolerance, lag and starting place    *)
(* the assumption allows.                                                  *)
(*                                                                         *)
(* The inductive invariant: a motor that a phase brought to its goal is    *)
(* still there as long as no later phase commands it (Settled), and fold   *)
(* swings the outer legs in only with the middle legs centred or with all  *)
(* outer legs already against the body (FoldStart).                        *)
(***************************************************************************)
EXTENDS Fold, TLAPS

Commands(o, i, l, p) == l \in DOMAIN Script[o][i] /\ Script[o][i][l][p] # None

(* The first phase whose results no later reading disturbs and no skip misses. *)
Since(o) == CASE o = "FOLD" -> 3 [] o = "FOLD_GROUNDED" -> 1 [] OTHER -> 2

Settled ==
  op # "None" =>
    \A i \in Since(op) .. phase - 1 : \A l \in Legs, p \in Parts :
      /\ i <= Len(Script[op])
      /\ Commands(op, i, l, p)
      /\ \A k \in i + 1 .. phase : k <= Len(Script[op]) => ~Commands(op, k, l, p)
      => joints[l][p] = Script[op][i][l][p]

FoldStart ==
  op = "FOLD" /\ phase = 3 => \/ \A m \in Middle : joints[m]["coxa"] = 1500
                              \/ \A l \in Outer : InPlace(l, joints)

(* The second phase of fold centres the middle legs. *)
FoldInv == TypeOK /\ Settled /\ FoldStart

-----------------------------------------------------------------------------
(* The table of phases. *)

LEMMA Lengths ==
  /\ Ops = {"FOLD", "UNFOLD", "UNFOLD_GROUNDED", "FOLD_GROUNDED"}
  /\ Len(Script["FOLD"]) = 4 /\ Len(Script["UNFOLD"]) = 3
  /\ Len(Script["UNFOLD_GROUNDED"]) = 10 /\ Len(Script["FOLD_GROUNDED"]) = 10
BY DEF Ops, Script

(* A goal is an angle or None for each motor of a leg. *)
LEMMA GoalType ==
  \A l, c, f, t : c \in Int /\ f \in Int /\ t \in Int => Goal(l, c, f, t) \in [Parts -> Int]
BY DEF Goal, Asked, Parts, Mirror, None

IsPhase(f) == /\ f = [l \in DOMAIN f |-> f[l]]
              /\ DOMAIN f \subseteq Legs
              /\ \A l \in DOMAIN f : f[l] \in [Parts -> Int]

LEMMA PoseType ==
  \A legs \in SUBSET Legs : \A c, f, t \in Int : IsPhase(Pose(legs, c, f, t))
BY GoalType DEF Pose, IsPhase

LEMMA PhaseTypes ==
  /\ \A legs \in SUBSET Legs : /\ IsPhase(Compress(legs)) /\ IsPhase(SwingIn(legs))
                               /\ IsPhase(SwingOut(legs)) /\ IsPhase(Lift(legs))
                               /\ IsPhase(Carry(legs)) /\ IsPhase(Raise(legs))
  /\ IsPhase(SwitchSide) /\ IsPhase(MiddleIn)
<1>1. \A legs \in SUBSET Legs : /\ IsPhase(Compress(legs)) /\ IsPhase(SwingOut(legs))
                                /\ IsPhase(Lift(legs)) /\ IsPhase(Carry(legs))
                                /\ IsPhase(Raise(legs))
  BY PoseType DEF Compress, SwingOut, Lift, Carry, Raise, None
<1>2. \A legs \in SUBSET Legs : IsPhase(SwingIn(legs))
  BY GoalType DEF SwingIn, IsPhase, FoldedCoxa, None
<1>3. IsPhase(MiddleIn)
  BY PoseType DEF MiddleIn, None, Middle, Legs
<1>4. /\ Carry({"lm"})["lm"] \in [Parts -> Int]
      /\ Raise({"rm"})["rm"] \in [Parts -> Int]
  BY GoalType DEF Carry, Raise, Pose, None
<1>5. IsPhase(SwitchSide)
  BY <1>4 DEF SwitchSide, IsPhase, Middle, Legs
<1> QED BY <1>1, <1>2, <1>3, <1>5

LEMMA ScriptType == \A o \in Ops : \A i \in 1 .. Len(Script[o]) : IsPhase(Script[o][i])
<1>0. /\ Legs \in SUBSET Legs /\ Middle \in SUBSET Legs /\ Outer \in SUBSET Legs
      /\ OuterLeft \in SUBSET Legs /\ OuterRight \in SUBSET Legs
      /\ {"lm"} \in SUBSET Legs /\ {"rm"} \in SUBSET Legs
  BY DEF Legs, Middle, Outer, OuterLeft, OuterRight, Left
<1>1. \A i \in 1 .. Len(Script["FOLD"]) : IsPhase(Script["FOLD"][i])
  BY <1>0, PhaseTypes DEF Script
<1>2. \A i \in 1 .. Len(Script["UNFOLD"]) : IsPhase(Script["UNFOLD"][i])
  BY <1>0, PhaseTypes DEF Script
<1>3. \A i \in 1 .. Len(Script["UNFOLD_GROUNDED"]) : IsPhase(Script["UNFOLD_GROUNDED"][i])
  <2>1. IsPhase(Pose(Middle, None, None, 2000))
    BY <1>0, PoseType DEF None
  <2> QED BY <2>1, <1>0, PhaseTypes DEF Script
<1>4. \A i \in 1 .. Len(Script["FOLD_GROUNDED"]) : IsPhase(Script["FOLD_GROUNDED"][i])
  <2>1. IsPhase(Pose(Legs, 1500, 600, 2100))
    BY <1>0, PoseType
  <2> QED BY <2>1, <1>0, PhaseTypes DEF Script
<1> QED BY <1>1, <1>2, <1>3, <1>4, Lengths

-----------------------------------------------------------------------------
(* One cycle. *)

LEMMA MoveTowards ==
  \A t, c \in Int : /\ move_towards(t, c) \in Int
                    /\ Near(t, c) => move_towards(t, c) = t
BY FoldAssumption DEF move_towards

LEMMA MovedLegType ==
  \A position, goal \in [Parts -> Int] :
    /\ MovedLeg(position, goal) \in [Parts -> Int]
    /\ \A p \in Parts : goal[p] = None => MovedLeg(position, goal)[p] = position[p]
    /\ LegDone(position, goal) =>
         \A p \in Parts : goal[p] # None => MovedLeg(position, goal)[p] = goal[p]
BY MoveTowards DEF MovedLeg, LegDone

LEMMA CurrentType ==
  ASSUME TypeOK, InScript
  PROVE  op \in Ops /\ phase \in 1 .. Len(Script[op]) /\ IsPhase(Current)
<1>1. op \in Ops /\ phase \in 1 .. Len(Script[op])
  BY Lengths DEF TypeOK, InScript
<1> QED BY <1>1, ScriptType DEF Current

(* What a cycle leaves alone and where it ends. *)
LEMMA MovedJoints ==
  ASSUME TypeOK, InScript, NEW legs \in SUBSET DOMAIN Current
  PROVE  /\ Moved(legs) \in Positions
         /\ \A l \in Legs, p \in Parts :
              ~Commands(op, phase, l, p) => Moved(legs)[l][p] = joints[l][p]
         /\ Ends(legs) => \A l \in Legs, p \in Parts :
              Commands(op, phase, l, p) => Moved(legs)[l][p] = Script[op][phase][l][p]
<1>1. IsPhase(Current) BY CurrentType
<1>2. \A l \in Legs : joints[l] \in [Parts -> Int]
  BY DEF TypeOK, Positions
<1>3. \A l \in legs : l \in Legs /\ Current[l] \in [Parts -> Int]
  BY <1>1 DEF IsPhase
<1>4. \A l \in Legs : Moved(legs)[l] = IF l \in legs THEN MovedLeg(joints[l], Current[l])
                                        ELSE joints[l]
  BY DEF Moved
<1>5. Moved(legs) \in Positions
  <2>1. \A l \in Legs : Moved(legs)[l] \in [Parts -> Int]
    BY <1>2, <1>3, <1>4, MovedLegType
  <2> QED BY <2>1 DEF Moved, Positions
<1>6. ASSUME NEW l \in Legs, NEW p \in Parts, ~Commands(op, phase, l, p)
      PROVE  Moved(legs)[l][p] = joints[l][p]
  <2>1. CASE l \in legs
    <3>1. Current[l][p] = None BY <2>1, <1>6 DEF Commands, Current
    <3> QED BY <3>1, <2>1, <1>2, <1>3, <1>4, MovedLegType
  <2>2. CASE l \notin legs BY <2>2, <1>4
  <2> QED BY <2>1, <2>2
<1>7. ASSUME Ends(legs), NEW l \in Legs, NEW p \in Parts, Commands(op, phase, l, p)
      PROVE  Moved(legs)[l][p] = Script[op][phase][l][p]
  <2>1. l \in legs /\ Current[l][p] # None /\ LegDone(joints[l], Current[l])
    BY <1>7 DEF Commands, Current, Ends
  <2>2. Moved(legs)[l][p] = Current[l][p]
    BY <2>1, <1>2, <1>3, <1>4, MovedLegType
  <2> QED BY <2>2 DEF Current
<1> QED BY <1>5, <1>6, <1>7

(* The cases of a cycle. *)
CycleLegs == Moving(joints, Moved(DOMAIN Current \cap Middle))

LEMMA CycleCases ==
  ASSUME Cycle
  PROVE  /\ InScript /\ op' = op
         /\ CycleLegs \in SUBSET DOMAIN Current
         /\ \/ /\ ~Ends(CycleLegs) /\ joints' = Moved(CycleLegs) /\ phase' = phase
            \/ /\ Ends(CycleLegs) /\ ~Rereads
               /\ joints' = Moved(CycleLegs) /\ phase' = phase + 1
            \/ /\ Ends(CycleLegs) /\ Rereads
               /\ phase' = NextPhase(joints')
               /\ \E lag \in Lags :
                    joints' = [l \in Legs |-> [p \in Parts |-> Moved(CycleLegs)[l][p] + lag[l][p]]]
BY DEF Cycle, CycleLegs, Moving

-----------------------------------------------------------------------------
(* The invariant. *)

LEMMA LagType ==
  ASSUME NEW position \in Positions, NEW lag \in Lags
  PROVE  [l \in Legs |-> [p \in Parts |-> position[l][p] + lag[l][p]]] \in Positions
BY FoldAssumption DEF Positions

LEMMA StartInv == Init => FoldInv
BY FoldAssumption, Lengths DEF Init, FoldInv, TypeOK, Settled, FoldStart

LEMMA TypeStep == ASSUME TypeOK, [Next]_vars PROVE TypeOK'
<1>1. ASSUME NEW o \in Ops, Begin(o) PROVE TypeOK'
  <2>1. PICK lag \in Lags : joints' = Reading(lag) BY <1>1 DEF Begin
  <2>2. joints' \in Positions BY <2>1, LagType DEF TypeOK, Reading
  <2>3. 1 \in 1 .. Len(Script[o]) + 1 /\ o # "None" BY Lengths
  <2> QED BY <1>1, <2>2, <2>3 DEF Begin, TypeOK
<1>2. CASE Cycle
  <2>1. op \in Ops /\ phase \in 1 .. Len(Script[op]) /\ op # "None"
    BY <1>2, CycleCases, CurrentType, Lengths
  <2>2. Moved(CycleLegs) \in Positions BY <1>2, CycleCases, MovedJoints
  <2>3. joints' \in Positions BY <1>2, <2>2, CycleCases, LagType
  <2>4. phase' \in 1 .. Len(Script[op]) + 1
    <3>1. Len(Script[op]) \in Nat /\ (op = "FOLD" => Len(Script[op]) = 4) BY <2>1, Lengths
    <3>2. phase' = phase \/ phase' = phase + 1 \/ (op = "FOLD" /\ phase' = 3)
      BY <1>2, CycleCases DEF NextPhase
    <3>3. CASE phase' = phase BY <3>3, <3>1, <2>1
    <3>4. CASE phase' = phase + 1 BY <3>4, <3>1, <2>1
    <3>5. CASE op = "FOLD" /\ phase' = 3
      <4>1. Len(Script[op]) = 4 BY <3>5, <3>1
      <4>2. Len(Script[op]) + 1 = 5 BY ONLY <4>1
      <4> QED BY <4>2, <3>5
    <3> QED BY <3>2, <3>3, <3>4, <3>5
  <2> QED BY <1>2, <2>1, <2>3, <2>4 DEF Cycle, TypeOK
<1>3. CASE Finish BY <1>3, Lengths DEF Finish, TypeOK
<1>4. CASE Abort BY <1>4, Lengths DEF Abort, InScript, TypeOK, FoldAssumption
<1>5. CASE Displace
  <2>1. joints' \in Positions BY <1>5, FoldAssumption DEF Displace
  <2> QED BY <1>5, <2>1, Lengths DEF Displace, TypeOK
<1>6. CASE UNCHANGED vars BY <1>6 DEF vars, TypeOK
<1> QED BY <1>1, <1>2, <1>3, <1>4, <1>5, <1>6 DEF Next

(* A result stays: the phase under way does not command it, or brings it.    *)
LEMMA SettledStep == ASSUME TypeOK, Settled, [Next]_vars PROVE Settled'
<1>1. ASSUME NEW o \in Ops, Begin(o) PROVE Settled'
  <2>1. Since(o) >= 1 BY Lengths DEF Since
  <2> QED BY <1>1, <2>1, Lengths DEF Begin, Settled, Since
<1>2. CASE Cycle
  <2>0. /\ op \in Ops /\ phase \in 1 .. Len(Script[op]) /\ op # "None" /\ op' = op
        /\ Len(Script[op]) \in Nat /\ Since(op) \in {1, 2, 3}
    BY <1>2, CycleCases, CurrentType, Lengths DEF Since
  <2>1. ASSUME joints' = Moved(CycleLegs), phase' = phase \/ (phase' = phase + 1 /\ Ends(CycleLegs))
        PROVE  Settled'
    <3> SUFFICES ASSUME NEW i \in Since(op) .. phase' - 1, NEW l \in Legs, NEW p \in Parts,
                        i <= Len(Script[op]), Commands(op, i, l, p),
                        \A k \in i + 1 .. phase' : k <= Len(Script[op]) => ~Commands(op, k, l, p)
                 PROVE  joints'[l][p] = Script[op][i][l][p]
      BY <2>0 DEF Settled, Commands
    <3>0. i \in Int /\ phase \in Int /\ phase <= Len(Script[op]) /\ i <= phase BY <2>0, <2>1
    <3>1. CASE i = phase
      <4>1. Ends(CycleLegs) BY <3>1, <2>0, <2>1
      <4> QED BY <4>1, <3>1, <1>2, <2>1, CycleCases, MovedJoints
    <3>2. CASE i < phase
      <4>1. i \in Since(op) .. phase - 1 BY <3>2, <3>0
      <4>2. \A k \in i + 1 .. phase : k <= Len(Script[op]) => ~Commands(op, k, l, p)
        BY <2>0, <2>1
      <4>3. joints[l][p] = Script[op][i][l][p]
        BY <4>1, <4>2, <2>0 DEF Settled
      <4>4. ~Commands(op, phase, l, p) BY <4>2, <3>0, <3>2
      <4> QED BY <4>3, <4>4, <1>2, <2>1, CycleCases, MovedJoints
    <3> QED BY <3>0, <3>1, <3>2
  <2>2. CASE Rereads /\ phase' = NextPhase(joints')
    <3>1. phase' \in {2, 3} /\ (op # "FOLD" => phase' = 2) /\ op # "FOLD_GROUNDED"
      BY <2>2 DEF Rereads, NextPhase
    <3>2. Since(op) .. phase' - 1 = {}
      BY <3>1, <2>0 DEF Since
    <3> QED BY <3>2, <2>0 DEF Settled
  <2> QED BY <1>2, <2>1, <2>2, CycleCases
<1>3. CASE Finish \/ Abort BY <1>3 DEF Finish, Abort, Settled
<1>4. CASE Displace BY <1>4 DEF Displace, Settled
<1>5. CASE UNCHANGED vars BY <1>5 DEF vars, Settled, Commands
<1> QED BY <1>1, <1>2, <1>3, <1>4, <1>5 DEF Next

LEMMA FoldPhases ==
  /\ Script["FOLD"][2] = SwingOut(Middle) /\ Script["FOLD"][3] = SwingIn(Outer)
  /\ Script["FOLD"][4] = SwingIn(Middle)
BY DEF Script

LEMMA LegSets ==
  /\ Middle \subseteq Legs /\ Outer \subseteq Legs /\ Middle \cap Outer = {}
  /\ Legs = Middle \cup Outer /\ Front \subseteq Outer
  /\ Outer = {"lf", "lr", "rf", "rr"} /\ Middle = {"lm", "rm"}
  /\ OuterLeft = {"lf", "lr"} /\ OuterRight = {"rf", "rr"}
BY DEF Legs, Middle, Outer, Front, OuterLeft, OuterRight, Left

LEMMA CoxaGoals ==
  /\ \A legs : \A l \in legs :
       /\ SwingOut(legs)[l]["coxa"] = 1500
       /\ SwingIn(legs)[l]["coxa"] = Mirror(l, FoldedCoxa(l))
  /\ \A l : Mirror(l, FoldedCoxa(l)) \in {600, 2400}
  /\ \A legs : DOMAIN SwingOut(legs) = legs /\ DOMAIN SwingIn(legs) = legs
BY DEF SwingOut, SwingIn, Pose, Goal, Asked, Mirror, FoldedCoxa, None

(* A motor on its way to a goal does not leave the tolerance around it. *)
LEMMA StaysClose ==
  \A t, c \in Int : Close(c, t) => Close(move_towards(t, c), t)
BY FoldAssumption DEF Close, move_towards, Near, Abs, Max2

LEMMA FoldThird ==
  ASSUME TypeOK, FoldStart, InScript, op = "FOLD", phase = 3,
         CycleLegs \in SUBSET DOMAIN Current, joints' = Moved(CycleLegs)
  PROVE  \/ \A m \in Middle : joints'[m]["coxa"] = 1500
         \/ \A l \in Outer : InPlace(l, joints) /\ FoldedLeg(l, joints'[l]["coxa"])
<1>0. "coxa" \in Parts BY DEF Parts
<1>1. Current = SwingIn(Outer) BY FoldPhases DEF Current
<1>2. CASE \A m \in Middle : joints[m]["coxa"] = 1500
  <2>1. \A m \in Middle : ~Commands(op, phase, m, "coxa")
    BY <1>1, CoxaGoals, LegSets DEF Commands, Current
  <2>2. \A m \in Middle : joints'[m]["coxa"] = joints[m]["coxa"]
    BY <2>1, <1>0, MovedJoints, LegSets
  <2> QED BY <2>2, <1>2
<1>3. CASE \A l \in Outer : InPlace(l, joints)
  <2> SUFFICES ASSUME NEW l \in Outer
               PROVE  FoldedLeg(l, joints'[l]["coxa"])
    BY <1>3
  <2> DEFINE goal == Mirror(l, FoldedCoxa(l))
             c == joints[l]["coxa"]
  <2>1. goal \in Int /\ Current[l]["coxa"] = goal /\ goal # None
    BY <1>1, CoxaGoals DEF None
  <2>2. c \in Int BY <1>0, LegSets DEF TypeOK, Positions
  <2>3. Close(c, goal) BY <1>3, LegSets DEF InPlace, FoldedLeg
  <2>4. joints'[l]["coxa"] = c \/ joints'[l]["coxa"] = move_towards(goal, c)
    BY <2>1, <1>0, LegSets DEF Moved, MovedLeg
  <2>5. Close(joints'[l]["coxa"], goal)
    <3> HIDE DEF goal, c
    <3> QED BY <2>1, <2>2, <2>3, <2>4, StaysClose
  <2> QED BY <2>5 DEF FoldedLeg
<1> QED BY <1>2, <1>3 DEF FoldStart

LEMMA FoldStartStep == ASSUME TypeOK, FoldStart, [Next]_vars PROVE FoldStart'
<1>0. "coxa" \in Parts BY DEF Parts
<1>1. CASE Cycle
  <2> SUFFICES ASSUME op = "FOLD", phase' = 3
               PROVE  \/ \A m \in Middle : joints'[m]["coxa"] = 1500
                      \/ \A l \in Outer : FoldedLeg(l, joints'[l]["coxa"])
    BY <1>1, CycleCases DEF FoldStart, InPlace
  <2>0. phase \in 1 .. 4 BY <1>1, CycleCases, CurrentType, Lengths
  <2>1. CASE phase = 3 /\ joints' = Moved(CycleLegs)
    BY <2>1, <1>1, CycleCases, FoldThird
  <2>2. CASE phase = 2 /\ Ends(CycleLegs) /\ joints' = Moved(CycleLegs)
    <3>1. \A m \in Middle : /\ Commands(op, phase, m, "coxa")
                            /\ Script[op][phase][m]["coxa"] = 1500
      BY <2>2, FoldPhases, CoxaGoals DEF Commands, None
    <3> QED BY <3>1, <2>2, <1>0, <1>1, CycleCases, MovedJoints, LegSets
  <2>3. CASE phase = 1 /\ phase' = NextPhase(joints')
    <3>1. Folded(joints') BY <2>3 DEF NextPhase
    <3> QED BY <3>1, LegSets DEF Folded
  <2>4. \/ phase = 3 /\ joints' = Moved(CycleLegs)
        \/ phase = 2 /\ Ends(CycleLegs) /\ joints' = Moved(CycleLegs)
        \/ phase = 1 /\ phase' = NextPhase(joints')
    <3>1. Rereads <=> phase = 1 BY DEF Rereads
    <3>2. NextPhase(joints') # 3 \/ phase \in {1, 2} BY <2>0 DEF NextPhase
    <3> QED BY <2>0, <3>1, <1>1, CycleCases
  <2> QED BY <2>1, <2>2, <2>3, <2>4
<1>2. CASE \E o \in Ops : Begin(o) BY <1>2 DEF Begin, FoldStart
<1>3. CASE Finish \/ Abort \/ Displace BY <1>3 DEF Finish, Abort, Displace, FoldStart
<1>4. CASE UNCHANGED vars BY <1>4 DEF vars, FoldStart, InPlace
<1> QED BY <1>1, <1>2, <1>3, <1>4 DEF Next

(* The invariant of FoldingManager's scripts, for every run. *)
THEOREM FoldInvariant == Spec => []FoldInv
<1>1. FoldInv /\ [Next]_vars => FoldInv'
  BY TypeStep, SettledStep, FoldStartStep DEF FoldInv
<1> QED BY StartInv, <1>1, PTL DEF Spec

(* Types: every phase of every script leaves 18 integer angles              *)
(* (folding_manager.py, move_leg).                                          *)
THEOREM FoldTypeCorrect == Spec => []TypeOK
<1>1. FoldInv => TypeOK BY DEF FoldInv
<1> QED BY FoldInvariant, <1>1, PTL

-----------------------------------------------------------------------------
(* Where the coxas are when a script is done. *)

(* Phases that command no coxa, and the legs of those that do. *)
LEMMA CoxaUsers ==
  /\ \A legs : \A l \in legs : /\ Compress(legs)[l]["coxa"] = None
                               /\ Lift(legs)[l]["coxa"] = None
                               /\ Carry(legs)[l]["coxa"] = None
                               /\ Raise(legs)[l]["coxa"] = None
                               /\ Pose(legs, None, None, 2000)[l]["coxa"] = None
                               /\ Pose(legs, 1500, 600, 2100)[l]["coxa"] = 1500
  /\ \A l \in Middle : /\ SwitchSide[l]["coxa"] = None
                        /\ MiddleIn[l]["coxa"] = Mirror(l, 2300)
  /\ \A legs : /\ DOMAIN Compress(legs) = legs /\ DOMAIN Lift(legs) = legs
                /\ DOMAIN Carry(legs) = legs /\ DOMAIN Raise(legs) = legs
                /\ \A c, f, t : DOMAIN Pose(legs, c, f, t) = legs
  /\ DOMAIN SwitchSide = Middle /\ DOMAIN MiddleIn = Middle
<1>1. \A legs : \A l \in legs : \A c, f, t : Pose(legs, c, f, t)[l]["coxa"] = Asked(l, c)
  BY DEF Pose, Goal
<1>2. \A l : /\ Asked(l, None) = None /\ Asked(l, 1500) = 1500
             /\ Asked(l, 2300) = Mirror(l, 2300)
  BY DEF Asked, Mirror, None
<1>3. \A l \in Middle : SwitchSide[l]["coxa"] = None
  <2>1. SwitchSide["lm"] = Carry({"lm"})["lm"] /\ SwitchSide["rm"] = Raise({"rm"})["rm"]
    BY DEF SwitchSide, Middle
  <2> QED BY <2>1, <1>1, <1>2 DEF Carry, Raise, Middle
<1> QED BY <1>1, <1>2, <1>3 DEF Compress, Lift, Carry, Raise, MiddleIn, Pose, SwitchSide

LEMMA UnfoldPhases ==
  Script["UNFOLD"][2] = SwingOut(Legs) /\ Script["UNFOLD"][3] = Lift(Legs)
BY DEF Script

LEMMA UnfoldGroundedPhases ==
  LET S == Script["UNFOLD_GROUNDED"]
  IN /\ S[2] = Pose(Middle, None, None, 2000) /\ S[3] = SwingOut(Middle)
     /\ S[4] = Carry({"rm"}) /\ S[5] = SwingOut(OuterRight) /\ S[6] = Lift(OuterRight)
     /\ S[7] = SwitchSide /\ S[8] = SwingOut(OuterLeft) /\ S[9] = Lift(OuterLeft)
     /\ S[10] = Raise({"lm"})
BY DEF Script

LEMMA FoldGroundedPhases ==
  LET S == Script["FOLD_GROUNDED"]
  IN /\ S[1] = Pose(Legs, 1500, 600, 2100) /\ S[2] = Carry({"rm"})
     /\ S[3] = Compress(OuterRight) /\ S[4] = SwingIn(OuterRight) /\ S[5] = SwitchSide
     /\ S[6] = Compress(OuterLeft) /\ S[7] = SwingIn(OuterLeft) /\ S[8] = Raise({"lm"})
     /\ S[9] = MiddleIn /\ S[10] = Compress(Middle)
BY DEF Script

(* The legs whose coxa a phase moves. *)
CoxaLegs(o, i) == {l \in Legs : Commands(o, i, l, "coxa")}

LEMMA UnfoldGroundedCoxas ==
  /\ CoxaLegs("UNFOLD_GROUNDED", 2) = {} /\ CoxaLegs("UNFOLD_GROUNDED", 3) = Middle
  /\ CoxaLegs("UNFOLD_GROUNDED", 4) = {} /\ CoxaLegs("UNFOLD_GROUNDED", 5) = OuterRight
  /\ CoxaLegs("UNFOLD_GROUNDED", 6) = {} /\ CoxaLegs("UNFOLD_GROUNDED", 7) = {}
  /\ CoxaLegs("UNFOLD_GROUNDED", 8) = OuterLeft /\ CoxaLegs("UNFOLD_GROUNDED", 9) = {}
  /\ CoxaLegs("UNFOLD_GROUNDED", 10) = {}
<1>1. CoxaLegs("UNFOLD_GROUNDED", 2) = {}
  BY UnfoldGroundedPhases, CoxaGoals, CoxaUsers, LegSets DEF CoxaLegs, Commands, None
<1>2. CoxaLegs("UNFOLD_GROUNDED", 3) = Middle
  BY UnfoldGroundedPhases, CoxaGoals, CoxaUsers, LegSets DEF CoxaLegs, Commands, None
<1>3. CoxaLegs("UNFOLD_GROUNDED", 4) = {}
  BY UnfoldGroundedPhases, CoxaGoals, CoxaUsers, LegSets DEF CoxaLegs, Commands, None
<1>4. CoxaLegs("UNFOLD_GROUNDED", 5) = OuterRight
  BY UnfoldGroundedPhases, CoxaGoals, CoxaUsers, LegSets DEF CoxaLegs, Commands, None
<1>5. CoxaLegs("UNFOLD_GROUNDED", 6) = {}
  BY UnfoldGroundedPhases, CoxaGoals, CoxaUsers, LegSets DEF CoxaLegs, Commands, None
<1>6. CoxaLegs("UNFOLD_GROUNDED", 7) = {}
  BY UnfoldGroundedPhases, CoxaGoals, CoxaUsers, LegSets DEF CoxaLegs, Commands, None
<1>7. CoxaLegs("UNFOLD_GROUNDED", 8) = OuterLeft
  BY UnfoldGroundedPhases, CoxaGoals, CoxaUsers, LegSets DEF CoxaLegs, Commands, None
<1>8. CoxaLegs("UNFOLD_GROUNDED", 9) = {}
  BY UnfoldGroundedPhases, CoxaGoals, CoxaUsers, LegSets DEF CoxaLegs, Commands, None
<1>9. CoxaLegs("UNFOLD_GROUNDED", 10) = {}
  BY UnfoldGroundedPhases, CoxaGoals, CoxaUsers, LegSets DEF CoxaLegs, Commands, None
<1> QED BY <1>1, <1>2, <1>3, <1>4, <1>5, <1>6, <1>7, <1>8, <1>9

LEMMA FoldGroundedCoxas ==
  /\ CoxaLegs("FOLD_GROUNDED", 1) = Legs /\ CoxaLegs("FOLD_GROUNDED", 2) = {}
  /\ CoxaLegs("FOLD_GROUNDED", 3) = {} /\ CoxaLegs("FOLD_GROUNDED", 4) = OuterRight
  /\ CoxaLegs("FOLD_GROUNDED", 5) = {} /\ CoxaLegs("FOLD_GROUNDED", 6) = {}
  /\ CoxaLegs("FOLD_GROUNDED", 7) = OuterLeft /\ CoxaLegs("FOLD_GROUNDED", 8) = {}
  /\ CoxaLegs("FOLD_GROUNDED", 9) = Middle /\ CoxaLegs("FOLD_GROUNDED", 10) = {}
<1>1. CoxaLegs("FOLD_GROUNDED", 1) = Legs
  BY FoldGroundedPhases, CoxaGoals, CoxaUsers, LegSets DEF CoxaLegs, Commands, None
<1>2. CoxaLegs("FOLD_GROUNDED", 2) = {}
  BY FoldGroundedPhases, CoxaGoals, CoxaUsers, LegSets DEF CoxaLegs, Commands, None
<1>3. CoxaLegs("FOLD_GROUNDED", 3) = {}
  BY FoldGroundedPhases, CoxaGoals, CoxaUsers, LegSets DEF CoxaLegs, Commands, None
<1>4. CoxaLegs("FOLD_GROUNDED", 4) = OuterRight
  <2>1. Script["FOLD_GROUNDED"][4] = SwingIn(OuterRight) BY FoldGroundedPhases
  <2>2. OuterRight \subseteq Legs /\ \A l \in OuterRight : SwingIn(OuterRight)[l]["coxa"] # None
    BY CoxaGoals, LegSets DEF None
  <2>3. DOMAIN SwingIn(OuterRight) = OuterRight BY CoxaGoals
  <2> QED BY <2>1, <2>2, <2>3 DEF CoxaLegs, Commands
<1>5. CoxaLegs("FOLD_GROUNDED", 5) = {}
  BY FoldGroundedPhases, CoxaGoals, CoxaUsers, LegSets DEF CoxaLegs, Commands, None
<1>6. CoxaLegs("FOLD_GROUNDED", 6) = {}
  BY FoldGroundedPhases, CoxaGoals, CoxaUsers, LegSets DEF CoxaLegs, Commands, None
<1>7. CoxaLegs("FOLD_GROUNDED", 7) = OuterLeft
  <2>1. Script["FOLD_GROUNDED"][7] = SwingIn(OuterLeft) BY FoldGroundedPhases
  <2>2. OuterLeft \subseteq Legs /\ \A l \in OuterLeft : SwingIn(OuterLeft)[l]["coxa"] # None
    BY CoxaGoals, LegSets DEF None
  <2>3. DOMAIN SwingIn(OuterLeft) = OuterLeft BY CoxaGoals
  <2> QED BY <2>1, <2>2, <2>3 DEF CoxaLegs, Commands
<1>8. CoxaLegs("FOLD_GROUNDED", 8) = {}
  BY FoldGroundedPhases, CoxaGoals, CoxaUsers, LegSets DEF CoxaLegs, Commands, None
<1>9. CoxaLegs("FOLD_GROUNDED", 9) = Middle
  BY FoldGroundedPhases, CoxaGoals, CoxaUsers, LegSets DEF CoxaLegs, Commands, None, Mirror
<1>10. CoxaLegs("FOLD_GROUNDED", 10) = {}
  BY FoldGroundedPhases, CoxaGoals, CoxaUsers, LegSets DEF CoxaLegs, Commands, None
<1> QED BY <1>1, <1>2, <1>3, <1>4, <1>5, <1>6, <1>7, <1>8, <1>9, <1>10

DoneCoxa(o, l) ==
  CASE o \notin Folding -> 1500
    [] o = "FOLD_GROUNDED" /\ l \in Middle -> Mirror(l, 2300)
    [] OTHER -> Mirror(l, FoldedCoxa(l))

LEMMA DoneCoxas ==
  ASSUME FoldInv, Done
  PROVE  op \in Ops /\ \A l \in Legs : joints[l]["coxa"] = DoneCoxa(op, l)
<1>0. /\ op \in Ops /\ op # "None" /\ "coxa" \in Parts
      /\ phase = Len(Script[op]) + 1 /\ Len(Script[op]) \in Nat
  BY Lengths DEF FoldInv, TypeOK, Done, Parts
<1>1. ASSUME NEW i \in Since(op) .. Len(Script[op]), NEW l \in Legs, Commands(op, i, l, "coxa"),
             \A k \in i + 1 .. Len(Script[op]) : ~Commands(op, k, l, "coxa")
      PROVE  joints[l]["coxa"] = Script[op][i][l]["coxa"]
  <2>1. i \in Since(op) .. phase - 1 BY <1>0
  <2>2. i \in Int BY <1>0, Lengths DEF Since
  <2>3. \A k \in i + 1 .. phase : k <= Len(Script[op]) => ~Commands(op, k, l, "coxa")
    BY <1>0, <1>1, <2>2
  <2>4. i <= Len(Script[op]) BY <1>0, Lengths DEF Since
  <2> QED BY <1>0, <1>1, <2>1, <2>3, <2>4 DEF FoldInv, Settled
<1>c. ASSUME NEW i \in Since(op) .. Len(Script[op]), NEW l \in CoxaLegs(op, i),
             \A k \in i + 1 .. Len(Script[op]) : l \notin CoxaLegs(op, k)
      PROVE  joints[l]["coxa"] = Script[op][i][l]["coxa"]
  BY <1>1, <1>c DEF CoxaLegs
<1>2. CASE op = "FOLD"
  <2>0. Since(op) = 3 /\ Len(Script[op]) = 4 BY <1>2, Lengths DEF Since
  <2>1. \A l \in Outer : joints[l]["coxa"] = Mirror(l, FoldedCoxa(l))
    BY <1>1, <1>2, <2>0, FoldPhases, CoxaGoals, LegSets DEF Commands, None
  <2>2. \A l \in Middle : joints[l]["coxa"] = Mirror(l, FoldedCoxa(l))
    BY <1>1, <1>2, <2>0, FoldPhases, CoxaGoals, LegSets DEF Commands, None
  <2> QED BY <1>0, <1>2, <2>1, <2>2, LegSets DEF DoneCoxa, Folding
<1>3. CASE op = "UNFOLD"
  <2>0. Since(op) = 2 /\ Len(Script[op]) = 3 BY <1>3, Lengths DEF Since
  <2>1. \A l \in Legs : joints[l]["coxa"] = 1500
    BY <1>1, <1>3, <2>0, UnfoldPhases, CoxaGoals, CoxaUsers DEF Commands, None
  <2> QED BY <1>0, <1>3, <2>1 DEF DoneCoxa, Folding
<1>4. CASE op = "UNFOLD_GROUNDED"
  <2>0. Since(op) = 2 /\ Len(Script[op]) = 10 BY <1>4, Lengths DEF Since
  <2>1. \A l \in Middle : joints[l]["coxa"] = 1500
    <3>1. Middle = CoxaLegs(op, 3) BY <1>4, UnfoldGroundedCoxas
    <3>3. ASSUME NEW l \in Middle, NEW k \in 4 .. 10 PROVE l \notin CoxaLegs(op, k)
      <4>1. k \in {4, 5, 6, 7, 8, 9, 10} OBVIOUS
      <4> QED BY <4>1, <1>4, UnfoldGroundedCoxas, LegSets
    <3>2. \A l \in Middle : Script[op][3][l]["coxa"] = 1500
      BY <1>4, UnfoldGroundedPhases, CoxaGoals, CoxaUsers
    <3> QED BY <1>c, <2>0, <3>1, <3>2, <3>3
  <2>2. \A l \in OuterRight : joints[l]["coxa"] = 1500
    <3>1. OuterRight = CoxaLegs(op, 5) BY <1>4, UnfoldGroundedCoxas
    <3>3. ASSUME NEW l \in OuterRight, NEW k \in 6 .. 10 PROVE l \notin CoxaLegs(op, k)
      <4>1. k \in {6, 7, 8, 9, 10} OBVIOUS
      <4> QED BY <4>1, <1>4, UnfoldGroundedCoxas, LegSets
    <3>2. \A l \in OuterRight : Script[op][5][l]["coxa"] = 1500
      BY <1>4, UnfoldGroundedPhases, CoxaGoals, CoxaUsers
    <3> QED BY <1>c, <2>0, <3>1, <3>2, <3>3
  <2>3. \A l \in OuterLeft : joints[l]["coxa"] = 1500
    <3>1. OuterLeft = CoxaLegs(op, 8) BY <1>4, UnfoldGroundedCoxas
    <3>3. ASSUME NEW l \in OuterLeft, NEW k \in 9 .. 10 PROVE l \notin CoxaLegs(op, k)
      <4>1. k \in {9, 10} OBVIOUS
      <4> QED BY <4>1, <1>4, UnfoldGroundedCoxas, LegSets
    <3>2. \A l \in OuterLeft : Script[op][8][l]["coxa"] = 1500
      BY <1>4, UnfoldGroundedPhases, CoxaGoals, CoxaUsers
    <3> QED BY <1>c, <2>0, <3>1, <3>2, <3>3
  <2> QED BY <1>0, <1>4, <2>1, <2>2, <2>3, LegSets DEF DoneCoxa, Folding
<1>5. CASE op = "FOLD_GROUNDED"
  <2>0. Since(op) = 1 /\ Len(Script[op]) = 10 BY <1>5, Lengths DEF Since
  <2>1. \A l \in Middle : joints[l]["coxa"] = Mirror(l, 2300)
    <3>1. Middle = CoxaLegs(op, 9) BY <1>5, FoldGroundedCoxas
    <3>3. ASSUME NEW l \in Middle, NEW k \in 10 .. 10 PROVE l \notin CoxaLegs(op, k)
      <4>1. k \in {10} OBVIOUS
      <4> QED BY <4>1, <1>5, FoldGroundedCoxas, LegSets
    <3>2. \A l \in Middle : Script[op][9][l]["coxa"] = Mirror(l, 2300)
      BY <1>5, FoldGroundedPhases, CoxaGoals, CoxaUsers
    <3> QED BY <1>c, <2>0, <3>1, <3>2, <3>3
  <2>2. \A l \in OuterRight : joints[l]["coxa"] = Mirror(l, FoldedCoxa(l))
    <3>1. OuterRight = CoxaLegs(op, 4) BY <1>5, FoldGroundedCoxas
    <3>3. ASSUME NEW l \in OuterRight, NEW k \in 5 .. 10 PROVE l \notin CoxaLegs(op, k)
      <4>1. k \in {5, 6, 7, 8, 9, 10} OBVIOUS
      <4> QED BY <4>1, <1>5, FoldGroundedCoxas, LegSets
    <3>2. \A l \in OuterRight : Script[op][4][l]["coxa"] = Mirror(l, FoldedCoxa(l))
      BY <1>5, FoldGroundedPhases, CoxaGoals, CoxaUsers
    <3> QED BY <1>c, <2>0, <3>1, <3>2, <3>3
  <2>3. \A l \in OuterLeft : joints[l]["coxa"] = Mirror(l, FoldedCoxa(l))
    <3>1. OuterLeft = CoxaLegs(op, 7) BY <1>5, FoldGroundedCoxas
    <3>3. ASSUME NEW l \in OuterLeft, NEW k \in 8 .. 10 PROVE l \notin CoxaLegs(op, k)
      <4>1. k \in {8, 9, 10} OBVIOUS
      <4> QED BY <4>1, <1>5, FoldGroundedCoxas, LegSets
    <3>2. \A l \in OuterLeft : Script[op][7][l]["coxa"] = Mirror(l, FoldedCoxa(l))
      BY <1>5, FoldGroundedPhases, CoxaGoals, CoxaUsers
    <3> QED BY <1>c, <2>0, <3>1, <3>2, <3>3
  <2> QED BY <1>0, <1>5, <2>1, <2>2, <2>3, LegSets DEF DoneCoxa, Folding
<1> QED BY <1>0, <1>2, <1>3, <1>4, <1>5, Lengths

LEMMA DoneReading ==
  ASSUME FoldInv, Done, NEW lag \in Lags
  PROVE  Folded(Reading(lag)) <=> op \in Folding
<1>0. op \in Ops /\ "coxa" \in Parts BY DoneCoxas DEF Parts
<1>1. \A l \in Legs : /\ Reading(lag)[l]["coxa"] = DoneCoxa(op, l) + lag[l]["coxa"]
                      /\ lag[l]["coxa"] \in Int
                      /\ lag[l]["coxa"] < Tolerance - 100 /\ -lag[l]["coxa"] < Tolerance - 100
  BY DoneCoxas, <1>0, FoldAssumption DEF Reading, Positions
<1>2. CASE op \in Folding
  <2> SUFFICES ASSUME NEW l \in Legs PROVE FoldedLeg(l, Reading(lag)[l]["coxa"])
    BY <1>2 DEF Folded
  <2>1. /\ Mirror(l, FoldedCoxa(l)) \in Int /\ DoneCoxa(op, l) \in Int
        /\ DoneCoxa(op, l) - Mirror(l, FoldedCoxa(l)) \in {-100, 0, 100}
    BY <1>2, LegSets DEF DoneCoxa, Mirror, FoldedCoxa, None, Folding
  <2>2. Close(Reading(lag)[l]["coxa"], Mirror(l, FoldedCoxa(l)))
    BY <2>1, <1>1, FoldAssumption DEF Close
  <2> QED BY <2>2 DEF FoldedLeg
<1>3. CASE op \notin Folding
  <2>1. "lf" \in Legs /\ "lf" \notin Middle /\ Mirror("lf", FoldedCoxa("lf")) = 2400
    BY DEF Legs, Middle, Mirror, FoldedCoxa, Left, Outer, Front
  <2>2. Reading(lag)["lf"]["coxa"] = 1500 + lag["lf"]["coxa"]
    BY <1>1, <1>3, <2>1 DEF DoneCoxa
  <2>3. ~Close(Reading(lag)["lf"]["coxa"], 2400)
    BY <1>1, <2>1, <2>2, FoldAssumption DEF Close
  <2> QED BY <1>3, <2>1, <2>3 DEF Folded, FoldedLeg
<1> QED BY <1>2, <1>3

(* After a script, check_if_folded answers what the script was for, at every  *)
(* lag below half the tolerance (folding_manager.py, check_if_folded).      *)
THEOREM FoldChecked == Spec => []CheckAgrees
<1>1. FoldInv => CheckAgrees BY DoneReading DEF CheckAgrees
<1> QED BY FoldInvariant, <1>1, PTL

-----------------------------------------------------------------------------
(* Steps that swing an outer leg. *)

(* Every script but fold_on_ground begins with position_femur_tibia. *)
LEMMA FirstPhases ==
  \A o \in Ops : o # "FOLD_GROUNDED" => Script[o][1] = Compress(Legs)
<1>1. Script["FOLD"][1] = Compress(Legs) BY DEF Script
<1>2. Script["UNFOLD"][1] = Compress(Legs) BY DEF Script
<1>3. Script["UNFOLD_GROUNDED"][1] = Compress(Legs) BY DEF Script
<1> QED BY <1>1, <1>2, <1>3, Lengths

LEMMA SwingPhase ==
  ASSUME TypeOK, [Next]_vars, NEW l \in Outer, Swings(l)
  PROVE  /\ InScript /\ op \in Ops /\ phase \in 1 .. Len(Script[op])
         /\ phase = 1 => op = "FOLD_GROUNDED"
         /\ joints' = Moved(CycleLegs) /\ CycleLegs \in SUBSET DOMAIN Current
         /\ l \in CycleLegs /\ l \in CoxaLegs(op, phase)
<1>0. "coxa" \in Parts BY DEF Parts
<1>1. op # "None" /\ op \in Ops /\ InScript BY DEF TypeOK, Swings, InScript
<1>2. Cycle
  <2>1. ~Finish /\ ~Abort BY <1>1 DEF Finish, Abort, Swings
  <2>2. ~Displace /\ \A o \in Ops : ~Begin(o) BY <1>1 DEF Displace, Begin
  <2>3. ~UNCHANGED vars BY DEF vars, Swings
  <2> QED BY <2>1, <2>2, <2>3 DEF Next
<1>3. Commands(op, phase, l, "coxa") BY DEF Swings, Commands, Current
<1>4. phase = 1 => op = "FOLD_GROUNDED"
  <2> SUFFICES ASSUME phase = 1, op # "FOLD_GROUNDED" PROVE FALSE
    OBVIOUS
  <2>1. Script[op][phase] = Compress(Legs) BY <1>1, FirstPhases
  <2> QED BY <2>1, <1>3, CoxaUsers, LegSets DEF Commands
<1>5. joints' = Moved(CycleLegs) BY <1>2, <1>4, CycleCases DEF Rereads
<1>6. l \in CycleLegs BY <1>5, LegSets DEF Moved, Swings
<1>7. phase \in 1 .. Len(Script[op]) BY <1>1, CurrentType
<1> QED BY <1>1, <1>2, <1>3, <1>4, <1>5, <1>6, <1>7, CycleCases, LegSets DEF CoxaLegs

(* In the scripts for the ground, which legs swing in which phase. *)
LEMMA GroundedSwing ==
  ASSUME NEW o \in {"UNFOLD_GROUNDED", "FOLD_GROUNDED"}, NEW i \in 2 .. Len(Script[o]),
         NEW l \in Outer, l \in CoxaLegs(o, i)
  PROVE  \/ o = "UNFOLD_GROUNDED" /\ i = 5 /\ l \in OuterRight
         \/ o = "UNFOLD_GROUNDED" /\ i = 8 /\ l \in OuterLeft
         \/ o = "FOLD_GROUNDED" /\ i = 4 /\ l \in OuterRight
         \/ o = "FOLD_GROUNDED" /\ i = 7 /\ l \in OuterLeft
<1>1. i \in {2, 3, 4, 5, 6, 7, 8, 9, 10}
  <2>1. Len(Script[o]) = 10 BY Lengths
  <2>2. i \in 2 .. 10 BY <2>1
  <2> QED BY <2>2
<1>2. CASE o = "UNFOLD_GROUNDED" BY <1>1, <1>2, UnfoldGroundedCoxas, LegSets
<1>3. CASE o = "FOLD_GROUNDED" BY <1>1, <1>3, FoldGroundedCoxas, LegSets
<1> QED BY <1>2, <1>3

LEMMA CarryGoals ==
  /\ \A l \in Middle : /\ Carry({l})[l]["femur"] = Mirror(l, 1300)
                        /\ Carry({l})[l]["tibia"] = Mirror(l, 2000)
                        /\ Mirror(l, 1300) # None /\ Mirror(l, 2000) # None
  /\ "lm" \in DOMAIN SwitchSide /\ SwitchSide["lm"] = Carry({"lm"})["lm"]
BY DEF Carry, Pose, Goal, Asked, Mirror, None, SwitchSide, Middle

(* A middle leg keeps carrying until its side has swung. *)
LEMMA StillCarried ==
  ASSUME FoldInv, NEW m \in Middle, op \in Ops, NEW i \in Since(op) .. phase - 1,
         phase <= Len(Script[op]), m \in DOMAIN Script[op][i],
         Script[op][i][m] = Carry({m})[m],
         \A k \in i + 1 .. phase : m \notin DOMAIN Script[op][k]
  PROVE  /\ joints[m]["femur"] = Mirror(m, 1300)
         /\ joints[m]["tibia"] = Mirror(m, 2000)
<1>1. /\ op # "None" /\ m \in Legs /\ "femur" \in Parts /\ "tibia" \in Parts
      /\ Since(op) \in Int /\ phase \in Int /\ Len(Script[op]) \in Nat
  BY Lengths, LegSets DEF Parts, Since, FoldInv, TypeOK
<1>2. i \in Int /\ i <= Len(Script[op]) BY <1>1
<1>3. \A p \in {"femur", "tibia"} : Commands(op, i, m, p)
  BY CarryGoals DEF Commands
<1>4. \A p : \A k \in i + 1 .. phase : ~Commands(op, k, m, p) BY DEF Commands
<1>5. \A p \in {"femur", "tibia"} : joints[m][p] = Script[op][i][m][p]
  BY <1>1, <1>2, <1>3, <1>4 DEF FoldInv, Settled
<1> QED BY <1>5, CarryGoals

LEMMA CarriedSwing ==
  ASSUME FoldInv, [Next]_vars, ~Gathers, NEW l \in Outer, Swings(l),
         op \in {"UNFOLD_GROUNDED", "FOLD_GROUNDED"}
  PROVE  Carried(l)
<1>0. /\ op \in Ops /\ phase \in 2 .. Len(Script[op]) /\ l \in CoxaLegs(op, phase)
      /\ Len(Script[op]) = 10 /\ phase <= Len(Script[op])
  <2>1. op \in Ops /\ phase \in 1 .. Len(Script[op]) /\ l \in CoxaLegs(op, phase) /\ phase # 1
    BY SwingPhase DEF FoldInv, Gathers
  <2> QED BY <2>1, Lengths
<1>1. /\ l \in OuterRight => MiddleOf(l) = "rm"
      /\ l \in OuterLeft => MiddleOf(l) = "lm"
      /\ "lm" \in Middle /\ "rm" \in Middle
  BY LegSets DEF MiddleOf, Left
<1>2. CASE op = "UNFOLD_GROUNDED" /\ phase = 5 /\ l \in OuterRight
  <2>1. 4 \in Since(op) .. phase - 1 /\ 5 .. phase = {5} BY <1>2 DEF Since
  <2>2. "rm" \notin DOMAIN Script[op][5] BY <1>2, UnfoldGroundedPhases, CoxaGoals, LegSets
  <2>3. Script[op][4] = Carry({"rm"}) /\ "rm" \in DOMAIN Carry({"rm"})
    BY <1>2, UnfoldGroundedPhases, CoxaUsers
  <2>4. \A k \in 4 + 1 .. phase : "rm" \notin DOMAIN Script[op][k] BY <2>1, <2>2
  <2>5. "rm" \in DOMAIN Script[op][4] /\ Script[op][4]["rm"] = Carry({"rm"})["rm"]
    BY <2>3
  <2>6. /\ joints["rm"]["femur"] = Mirror("rm", 1300)
        /\ joints["rm"]["tibia"] = Mirror("rm", 2000)
    BY <1>0, <1>1, <2>1, <2>4, <2>5, StillCarried
  <2> QED BY <1>1, <1>2, <2>6 DEF Carried
<1>3. CASE op = "UNFOLD_GROUNDED" /\ phase = 8 /\ l \in OuterLeft
  <2>1. 7 \in Since(op) .. phase - 1 /\ 8 .. phase = {8} BY <1>3 DEF Since
  <2>2. "lm" \notin DOMAIN Script[op][8] BY <1>3, UnfoldGroundedPhases, CoxaGoals, LegSets
  <2>3. "lm" \in DOMAIN Script[op][7] /\ Script[op][7]["lm"] = Carry({"lm"})["lm"]
    BY <1>3, UnfoldGroundedPhases, CarryGoals
  <2>4. \A k \in 7 + 1 .. phase : "lm" \notin DOMAIN Script[op][k] BY <2>1, <2>2
  <2>5. "lm" \in DOMAIN Script[op][7] /\ Script[op][7]["lm"] = Carry({"lm"})["lm"]
    BY <2>3
  <2>6. /\ joints["lm"]["femur"] = Mirror("lm", 1300)
        /\ joints["lm"]["tibia"] = Mirror("lm", 2000)
    BY <1>0, <1>1, <2>1, <2>4, <2>5, StillCarried
  <2> QED BY <1>1, <1>3, <2>6 DEF Carried
<1>4. CASE op = "FOLD_GROUNDED" /\ phase = 4 /\ l \in OuterRight
  <2>1. 2 \in Since(op) .. phase - 1 /\ 3 .. phase = {3, 4} BY <1>4 DEF Since
  <2>2. "rm" \notin DOMAIN Script[op][3] /\ "rm" \notin DOMAIN Script[op][4]
    <3>1. Script[op][3] = Compress(OuterRight) /\ Script[op][4] = SwingIn(OuterRight)
      BY <1>4, FoldGroundedPhases
    <3>2. DOMAIN Compress(OuterRight) = OuterRight /\ DOMAIN SwingIn(OuterRight) = OuterRight
      BY CoxaGoals, CoxaUsers
    <3> QED BY <3>1, <3>2, LegSets
  <2>3. Script[op][2] = Carry({"rm"}) /\ "rm" \in DOMAIN Carry({"rm"})
    BY <1>4, FoldGroundedPhases, CoxaUsers
  <2>4. \A k \in 2 + 1 .. phase : "rm" \notin DOMAIN Script[op][k] BY <2>1, <2>2
  <2>5. "rm" \in DOMAIN Script[op][2] /\ Script[op][2]["rm"] = Carry({"rm"})["rm"]
    BY <2>3
  <2>6. /\ joints["rm"]["femur"] = Mirror("rm", 1300)
        /\ joints["rm"]["tibia"] = Mirror("rm", 2000)
    BY <1>0, <1>1, <2>1, <2>4, <2>5, StillCarried
  <2> QED BY <1>1, <1>4, <2>6 DEF Carried
<1>5. CASE op = "FOLD_GROUNDED" /\ phase = 7 /\ l \in OuterLeft
  <2>1. 5 \in Since(op) .. phase - 1 /\ 6 .. phase = {6, 7} BY <1>5 DEF Since
  <2>2. "lm" \notin DOMAIN Script[op][6] /\ "lm" \notin DOMAIN Script[op][7]
    <3>1. Script[op][6] = Compress(OuterLeft) /\ Script[op][7] = SwingIn(OuterLeft)
      BY <1>5, FoldGroundedPhases
    <3>2. DOMAIN Compress(OuterLeft) = OuterLeft /\ DOMAIN SwingIn(OuterLeft) = OuterLeft
      BY CoxaGoals, CoxaUsers
    <3> QED BY <3>1, <3>2, LegSets
  <2>3. "lm" \in DOMAIN Script[op][5] /\ Script[op][5]["lm"] = Carry({"lm"})["lm"]
    BY <1>5, FoldGroundedPhases, CarryGoals
  <2>4. \A k \in 5 + 1 .. phase : "lm" \notin DOMAIN Script[op][k] BY <2>1, <2>2
  <2>5. "lm" \in DOMAIN Script[op][5] /\ Script[op][5]["lm"] = Carry({"lm"})["lm"]
    BY <2>3
  <2>6. /\ joints["lm"]["femur"] = Mirror("lm", 1300)
        /\ joints["lm"]["tibia"] = Mirror("lm", 2000)
    BY <1>0, <1>1, <2>1, <2>4, <2>5, StillCarried
  <2> QED BY <1>1, <1>5, <2>6 DEF Carried
<1> QED BY <1>0, <1>2, <1>3, <1>4, <1>5, GroundedSwing

(* On the ground an outer leg swings only while the middle leg of its side   *)
(* carries it (folding_manager.py, unfold_on_ground and fold_on_ground),    *)
(* once fold_on_ground has drawn the legs in.                               *)
THEOREM GroundCarried == Spec => SwingsCarried
<1>1. FoldInv /\ [Next]_vars =>
        [\A l \in Outer :
           /\ op \in {"UNFOLD_GROUNDED", "FOLD_GROUNDED"} /\ ~Gathers
           /\ Swings(l)
           => Carried(l)]_vars
  BY CarriedSwing
<1> QED BY FoldInvariant, <1>1, PTL DEF Spec, SwingsCarried

-----------------------------------------------------------------------------
(* Outer legs swing clear of the middle ones. *)

LEMMA MiddleOfType == \A l \in Outer : MiddleOf(l) \in Middle /\ MiddleOf(l) \in Legs
BY LegSets DEF MiddleOf

LEMMA CentredIsClear ==
  ASSUME NEW l \in Outer, NEW position, position[MiddleOf(l)]["coxa"] = 1500
  PROVE  Clear(l, position)
BY DEF Clear, Sideways, Mirror

(* A middle leg on its way to the centre does not fold over an outer leg. *)
LEMMA TowardsCentre ==
  ASSUME NEW m, NEW c \in Int
  PROVE  /\ Mirror(m, c) > 1200 => Mirror(m, move_towards(1500, c)) > 1200
         /\ Mirror(m, c) < 1800 => Mirror(m, move_towards(1500, c)) < 1800
<1>1. /\ move_towards(1500, c) \in Int
      /\ c > 1200 => move_towards(1500, c) > 1200
      /\ c < 1800 => move_towards(1500, c) < 1800
  BY FoldAssumption DEF move_towards, Near, Abs, Max2
<1>2. CASE m \in Left BY <1>1, <1>2 DEF Mirror
<1>3. CASE m \notin Left
  <2>1. /\ Mirror(m, c) = 3000 - c
        /\ Mirror(m, move_towards(1500, c)) = 3000 - move_towards(1500, c)
    BY <1>3 DEF Mirror
  <2> HIDE DEF Mirror
  <2> QED BY <1>1, <2>1
<1> QED BY <1>2, <1>3

LEMMA StaysClear ==
  ASSUME NEW l \in Outer, NEW before \in Positions, NEW after \in Positions, Clear(l, before),
         LET m == MiddleOf(l)
         IN \/ after[m]["coxa"] = before[m]["coxa"]
            \/ after[m]["coxa"] = move_towards(1500, before[m]["coxa"])
  PROVE  Clear(l, after)
<1>0. MiddleOf(l) \in Legs /\ "coxa" \in Parts BY MiddleOfType DEF Parts
<1>1. before[MiddleOf(l)]["coxa"] \in Int BY <1>0 DEF Positions
<1>2. CASE after[MiddleOf(l)]["coxa"] = before[MiddleOf(l)]["coxa"]
  BY <1>2 DEF Clear, Sideways
<1>3. CASE after[MiddleOf(l)]["coxa"] = move_towards(1500, before[MiddleOf(l)]["coxa"])
  BY <1>1, <1>3, TowardsCentre DEF Clear, Sideways
<1> QED BY <1>2, <1>3

(* The gates of unfold, evaluated before and after the middle leg's move. *)
LEMMA GatesHold ==
  ASSUME TypeOK, InScript, op = "UNFOLD", phase = 2, NEW l \in Outer, l \in CycleLegs,
         joints' = Moved(CycleLegs)
  PROVE  Clear(l, joints')
<1> DEFINE m == MiddleOf(l)
           c == joints[m]["coxa"]
<1>0. "coxa" \in Parts /\ m \in Middle /\ m \in Legs /\ l \notin Middle
  BY MiddleOfType, LegSets DEF Parts
<1>1. Current = SwingOut(Legs) /\ DOMAIN Current = Legs /\ Current[m]["coxa"] = 1500
  BY <1>0, UnfoldPhases, CoxaGoals DEF Current
<1>2. Free(l, joints, Moved(DOMAIN Current \cap Middle)) BY DEF CycleLegs, Moving
<1>3. m \in CycleLegs
  <2>1. \A before, after : Free(m, before, after) BY <1>0 DEF Free, Front, Middle
  <2> QED BY <1>0, <1>1, <2>1 DEF CycleLegs, Moving
<1>4. /\ joints'[m]["coxa"] = move_towards(1500, c)
      /\ Moved(DOMAIN Current \cap Middle)[m]["coxa"] = move_towards(1500, c)
  BY <1>0, <1>1, <1>3 DEF Moved, MovedLeg, None
<1>5. joints \in Positions /\ joints' \in Positions
  <2>1. CycleLegs \in SUBSET DOMAIN Current BY DEF CycleLegs, Moving
  <2> QED BY <2>1, MovedJoints DEF TypeOK
<1>6. CASE l \in Front
  <2>1. Clear(l, joints) BY <1>0, <1>2, <1>6 DEF Free, Clear
  <2> QED BY <1>4, <1>5, <2>1, StaysClear
<1>7. CASE l \notin Front
  <2>1. Sideways(l, Moved(DOMAIN Current \cap Middle)) < 1800
    BY <1>0, <1>2, <1>7 DEF Free
  <2> QED BY <1>4, <1>7, <2>1 DEF Clear, Sideways
<1> QED BY <1>6, <1>7

(* While fold_on_ground draws the legs in, all six coxas go to the centre. *)
LEMMA GatherClears ==
  ASSUME TypeOK, InScript, Gathers, CycleLegs \in SUBSET DOMAIN Current,
         joints' = Moved(CycleLegs), NEW l \in Outer, Clear(l, joints)
  PROVE  Clear(l, joints')
<1> DEFINE m == MiddleOf(l)
<1>0. "coxa" \in Parts /\ m \in Legs BY MiddleOfType DEF Parts
<1>1. Current = Pose(Legs, 1500, 600, 2100) BY FoldGroundedPhases DEF Current, Gathers
<1>2. Current[m]["coxa"] = 1500 BY <1>0, <1>1, CoxaUsers
<1>3. \/ joints'[m]["coxa"] = joints[m]["coxa"]
      \/ joints'[m]["coxa"] = move_towards(1500, joints[m]["coxa"])
  BY <1>0, <1>2 DEF Moved, MovedLeg, None
<1>4. joints \in Positions /\ joints' \in Positions BY MovedJoints DEF TypeOK
<1> QED BY <1>3, <1>4, StaysClear

(* In the scripts for the ground the middle legs are centred by then. *)
LEMMA StillCentred ==
  ASSUME FoldInv, NEW m \in Middle, op \in Ops, NEW i \in Since(op) .. phase - 1,
         phase <= Len(Script[op]), m \in CoxaLegs(op, i),
         Script[op][i][m]["coxa"] = 1500,
         \A k \in i + 1 .. phase : m \notin CoxaLegs(op, k)
  PROVE  joints[m]["coxa"] = 1500
<1>1. /\ op # "None" /\ m \in Legs /\ "coxa" \in Parts
      /\ Since(op) \in Int /\ phase \in Int /\ Len(Script[op]) \in Nat
  BY Lengths, LegSets DEF Parts, Since, FoldInv, TypeOK
<1>2. i \in Int /\ i <= Len(Script[op]) BY <1>1
<1>3. Commands(op, i, m, "coxa") BY DEF CoxaLegs
<1>4. \A k \in i + 1 .. phase : ~Commands(op, k, m, "coxa") BY <1>1 DEF CoxaLegs
<1> QED BY <1>1, <1>2, <1>3, <1>4 DEF FoldInv, Settled

LEMMA GroundedCentred ==
  ASSUME FoldInv, NEW l \in Outer, NEW m \in Middle, phase \in 2 .. Len(Script[op]),
         op \in {"UNFOLD_GROUNDED", "FOLD_GROUNDED"}, l \in CoxaLegs(op, phase)
  PROVE  joints[m]["coxa"] = 1500 /\ m \notin CoxaLegs(op, phase)
<1>0. op \in Ops /\ Len(Script[op]) = 10 /\ phase <= Len(Script[op]) /\ m \in Legs
  BY Lengths, LegSets
<1>1. CASE op = "UNFOLD_GROUNDED"
  <2>1. phase = 5 \/ phase = 8 BY <1>1, GroundedSwing
  <2>2. m \in CoxaLegs(op, 3) /\ Script[op][3][m]["coxa"] = 1500
    BY <1>1, UnfoldGroundedPhases, UnfoldGroundedCoxas, CoxaGoals
  <2>3. \A k \in 3 + 1 .. phase : m \notin CoxaLegs(op, k)
    <3> SUFFICES ASSUME NEW k \in 3 + 1 .. phase PROVE m \notin CoxaLegs(op, k)
      OBVIOUS
    <3>1. k \in {4, 5, 6, 7, 8} BY <2>1
    <3> QED BY <3>1, <1>1, UnfoldGroundedCoxas, LegSets
  <2>4. 3 \in Since(op) .. phase - 1 /\ phase \in 3 + 1 .. phase BY <1>1, <2>1 DEF Since
  <2>5. joints[m]["coxa"] = 1500 BY <1>0, <2>2, <2>3, <2>4, StillCentred
  <2> QED BY <2>3, <2>4, <2>5
<1>2. CASE op = "FOLD_GROUNDED"
  <2>1. phase = 4 \/ phase = 7 BY <1>2, GroundedSwing
  <2>2. m \in CoxaLegs(op, 1) /\ Script[op][1][m]["coxa"] = 1500
    BY <1>0, <1>2, FoldGroundedPhases, FoldGroundedCoxas, CoxaUsers
  <2>3. \A k \in 1 + 1 .. phase : m \notin CoxaLegs(op, k)
    <3> SUFFICES ASSUME NEW k \in 1 + 1 .. phase PROVE m \notin CoxaLegs(op, k)
      OBVIOUS
    <3>1. k \in {2, 3, 4, 5, 6, 7} BY <2>1
    <3> QED BY <3>1, <1>2, FoldGroundedCoxas, LegSets
  <2>4. 1 \in Since(op) .. phase - 1 /\ phase \in 1 + 1 .. phase BY <1>2, <2>1 DEF Since
  <2>5. joints[m]["coxa"] = 1500 BY <1>0, <2>2, <2>3, <2>4, StillCentred
  <2> QED BY <2>3, <2>4, <2>5
<1> QED BY <1>1, <1>2

LEMMA ClearSwing ==
  ASSUME FoldInv, [Next]_vars, NEW l \in Outer, Swings(l),
         ~(InPlace(l, joints) /\ FoldedLeg(l, joints'[l]["coxa"])),
         Gathers => Clear(l, joints)
  PROVE  Clear(l, joints')
<1>g. /\ InScript /\ op \in Ops /\ phase \in 1 .. Len(Script[op])
      /\ phase = 1 => op = "FOLD_GROUNDED"
      /\ joints' = Moved(CycleLegs) /\ CycleLegs \in SUBSET DOMAIN Current
      /\ l \in CycleLegs /\ l \in CoxaLegs(op, phase)
  BY SwingPhase DEF FoldInv
<1>a. CASE Gathers
  BY <1>a, <1>g, GatherClears DEF FoldInv
<1> SUFFICES ASSUME ~Gathers PROVE Clear(l, joints')
  BY <1>a
<1>0. phase \in 2 .. Len(Script[op])
  <2>1. phase # 1 BY <1>g DEF Gathers
  <2> QED BY <1>g, <2>1, Lengths
<1>1. CASE op = "UNFOLD"
  <2>1. phase = 2
    <3>1. phase \in {2, 3} BY <1>g, <1>0, <1>1, Lengths
    <3>2. CoxaLegs(op, 3) = {} BY <1>1, UnfoldPhases, CoxaUsers DEF CoxaLegs, Commands
    <3> QED BY <3>1, <3>2, <1>g, <1>0
  <2> QED BY <1>g, <1>0, <1>1, <2>1, GatesHold DEF FoldInv
<1>2. CASE op = "FOLD"
  <2>1. phase = 3
    <3>1. phase \in {2, 3, 4} BY <1>g, <1>0, <1>2, Lengths
    <3>2. DOMAIN Script[op][2] = Middle /\ DOMAIN Script[op][4] = Middle
      BY <1>2, FoldPhases, CoxaGoals
    <3> QED BY <3>1, <3>2, <1>g, <1>0, LegSets DEF CoxaLegs, Commands
  <2>2. \A m \in Middle : joints'[m]["coxa"] = 1500
    BY <1>g, <1>0, <1>2, <2>1, FoldThird DEF FoldInv
  <2> QED BY <2>2, MiddleOfType, CentredIsClear
<1>3. CASE op \in {"UNFOLD_GROUNDED", "FOLD_GROUNDED"}
  <2> DEFINE m == MiddleOf(l)
  <2>1. m \in Middle /\ m \in Legs /\ "coxa" \in Parts BY MiddleOfType DEF Parts
  <2>2. joints[m]["coxa"] = 1500 /\ m \notin CoxaLegs(op, phase)
    BY <1>g, <1>0, <1>3, <2>1, GroundedCentred
  <2>3. ~Commands(op, phase, m, "coxa") BY <2>1, <2>2 DEF CoxaLegs
  <2>4. joints'[m]["coxa"] = 1500
    BY <1>g, <1>0, <2>1, <2>2, <2>3, MovedJoints DEF FoldInv
  <2> QED BY <2>4, CentredIsClear
<1> QED BY <1>g, <1>0, <1>1, <1>2, <1>3, Lengths

(* An outer leg off the body swings only with the middle leg of its side     *)
(* out of its way (folding_manager.py, fold, unfold and their ground forms), *)
(* unless that leg barred it when fold_on_ground drew all legs in.          *)
THEOREM FoldClears == Spec => NoScrape
<1>1. FoldInv /\ [Next]_vars =>
        [\A l \in Outer :
           /\ Swings(l) /\ ~(InPlace(l, joints) /\ InPlace(l, joints'))
           /\ Gathers => Clear(l, joints)
           => Clear(l, joints')]_vars
  BY ClearSwing DEF InPlace
<1> QED BY FoldInvariant, <1>1, PTL DEF Spec, NoScrape

-----------------------------------------------------------------------------
(* No cycle of a script is spent on nothing. *)

(* How far a motor is from an angle. *)
Distance(angle, goal) == Abs(goal - angle)

LEMMA StepsCloser ==
  ASSUME NEW goal \in Int, NEW angle \in Int
  PROVE  /\ Distance(move_towards(goal, angle), goal) <= Distance(angle, goal)
         /\ angle # goal =>
              Distance(move_towards(goal, angle), goal) < Distance(angle, goal)
BY FoldAssumption DEF Distance, move_towards, Near, Abs, Max2

(* A leg that has to wait for the middle leg of its side does not keep it: that *)
(* leg is on its way.                                                        *)
LEMMA WaitsForAMove ==
  ASSUME TypeOK, InScript, NEW l \in DOMAIN Current, l \notin CycleLegs
  PROVE  \E m \in CycleLegs :
           /\ Current[m]["coxa"] = 1500
           /\ joints[m]["coxa"] # 1500
<1>1. op = "UNFOLD" /\ phase = 2 /\ ~Free(l, joints, Moved(DOMAIN Current \cap Middle))
  BY DEF CycleLegs, Moving
<1>2. Current = SwingOut(Legs) /\ DOMAIN Current = Legs
  BY <1>1, UnfoldPhases, CoxaGoals DEF Current
<1>3. l \in Outer
  <2>1. l \notin Middle BY <1>1 DEF Free, Front, Middle
  <2> QED BY <1>2, <2>1 DEF Outer
<1> DEFINE m == MiddleOf(l)
           c == joints[m]["coxa"]
<1>4. "coxa" \in Parts /\ m \in Middle /\ m \in Legs /\ l \notin Middle
  BY <1>3, MiddleOfType, LegSets DEF Parts
<1>5. m \in CycleLegs
  <2>1. \A before, after : Free(m, before, after) BY <1>4 DEF Free, Front, Middle
  <2> QED BY <1>2, <1>4, <2>1 DEF CycleLegs, Moving
<1>6. Current[m]["coxa"] = 1500 BY <1>2, <1>4, CoxaGoals
<1>7. ASSUME c = 1500 PROVE FALSE
  <2>1. Sideways(l, joints) = 1500 BY <1>7 DEF Sideways, Mirror
  <2>2. move_towards(1500, 1500) = 1500
    BY FoldAssumption DEF move_towards, Near, Abs, Max2
  <2>3. Moved(DOMAIN Current \cap Middle)[m]["coxa"] = 1500
    BY <1>2, <1>4, <1>6, <1>7, <2>2 DEF Moved, MovedLeg, None
  <2>4. Sideways(l, Moved(DOMAIN Current \cap Middle)) = 1500 BY <2>3 DEF Sideways, Mirror
  <2> QED BY <1>1, <1>4, <2>1, <2>4 DEF Free
<1> QED BY <1>5, <1>6, <1>7

(* As long as a phase is not over, some motor has not reached its goal, and is *)
(* one of those that are moved.                                              *)
LEMMA SomethingLeft ==
  ASSUME TypeOK, InScript, ~Ends(CycleLegs)
  PROVE  \E l \in CycleLegs, p \in Parts :
           Current[l][p] # None /\ joints[l][p] # Current[l][p]
<1>0. CycleLegs \subseteq DOMAIN Current BY DEF CycleLegs, Moving
<1>1. CASE CycleLegs # DOMAIN Current
  <2>1. PICK l \in DOMAIN Current : l \notin CycleLegs BY <1>0, <1>1
  <2>2. PICK m \in CycleLegs : Current[m]["coxa"] = 1500 /\ joints[m]["coxa"] # 1500
    BY <2>1, WaitsForAMove
  <2>3. "coxa" \in Parts /\ 1500 # None BY DEF Parts, None
  <2> QED BY <2>2, <2>3
<1>2. CASE CycleLegs = DOMAIN Current
  <2>1. PICK l \in CycleLegs : ~LegDone(joints[l], Current[l]) BY <1>2 DEF Ends
  <2>2. PICK p \in Parts : Current[l][p] # None /\ ~Near(Current[l][p], joints[l][p])
    BY <2>1 DEF LegDone
  <2>3. Current[l][p] \in Int /\ joints[l][p] \in Int
    BY <1>0, CurrentType DEF IsPhase, TypeOK, Positions
  <2>4. joints[l][p] # Current[l][p]
    BY <2>2, <2>3, FoldAssumption DEF Near, Abs, Max2
  <2> QED BY <2>2, <2>4
<1> QED BY <1>1, <1>2

(* Every cycle of a script ends its phase, or brings a motor closer to its     *)
(* goal and none away from it: no gate of unfold waits for a leg that does  *)
(* not move, and no motor steps to and fro about its goal                   *)
(* (folding_manager.py, move_towards and the loops of the four scripts).     *)
THEOREM CyclesAdvance ==
  ASSUME TypeOK, Cycle
  PROVE  \/ phase' > phase
         \/ /\ phase' = phase /\ op' = op
            /\ \A l \in DOMAIN Current, p \in Parts : Current[l][p] # None =>
                 Distance(joints'[l][p], Current[l][p]) <= Distance(joints[l][p], Current[l][p])
            /\ \E l \in DOMAIN Current, p \in Parts : Current[l][p] # None /\
                 Distance(joints'[l][p], Current[l][p]) < Distance(joints[l][p], Current[l][p])
<1>1. InScript /\ op' = op /\ CycleLegs \in SUBSET DOMAIN Current /\ phase \in Int
  BY CycleCases, CurrentType
<1>2. CASE Ends(CycleLegs)
  <2>1. NextPhase(joints') \in {3, phase + 1} /\ (NextPhase(joints') = 3 => phase < 3)
    BY <1>1 DEF NextPhase
  <2> QED BY <1>1, <1>2, <2>1, CycleCases
<1>3. CASE ~Ends(CycleLegs)
  <2>1. joints' = Moved(CycleLegs) /\ phase' = phase BY <1>3, CycleCases
  <2>2. ASSUME NEW l \in DOMAIN Current, NEW p \in Parts, Current[l][p] # None
        PROVE  /\ Current[l][p] \in Int /\ joints[l][p] \in Int
               /\ joints'[l][p] = IF l \in CycleLegs THEN move_towards(Current[l][p], joints[l][p])
                                                     ELSE joints[l][p]
    <3>1. l \in Legs /\ Current[l] \in [Parts -> Int] /\ joints[l] \in [Parts -> Int]
      BY <1>1, CurrentType DEF IsPhase, TypeOK, Positions
    <3> QED BY <2>1, <2>2, <3>1 DEF Moved, MovedLeg
  <2>3. ASSUME NEW l \in DOMAIN Current, NEW p \in Parts, Current[l][p] # None
        PROVE  Distance(joints'[l][p], Current[l][p]) <= Distance(joints[l][p], Current[l][p])
    <3>1. CASE l \in CycleLegs BY <2>2, <2>3, <3>1, StepsCloser
    <3>2. CASE l \notin CycleLegs
      <4>1. joints'[l][p] = joints[l][p] BY <2>2, <2>3, <3>2
      <4>2. Distance(joints[l][p], Current[l][p]) \in Int BY <2>2, <2>3 DEF Distance, Abs, Max2
      <4> QED BY <4>1, <4>2
    <3> QED BY <3>1, <3>2
  <2>4. PICK l \in CycleLegs, p \in Parts : Current[l][p] # None /\ joints[l][p] # Current[l][p]
    BY <1>1, <1>3, SomethingLeft
  <2>5. Distance(joints'[l][p], Current[l][p]) < Distance(joints[l][p], Current[l][p])
    BY <1>1, <2>2, <2>4, StepsCloser
  <2> QED BY <1>1, <2>1, <2>3, <2>4, <2>5
<1> QED BY <1>2, <1>3
=============================================================================
