------------------------------ MODULE WaveGait ------------------------------
(***************************************************************************)
(* phantomx_gazebo: the walking phase of SpiderGaitEngine.  Fifty times a  *)
(* second the loop moves its velocity towards the last Twist, advances the *)
(* time of the gait, works out where the six feet should be and publishes  *)
(* joint angles that go half of the way there.                             *)
(*                                                                         *)
(* Of a foot only its height is kept: the angles are what puts it there.   *)
(* linear.y is left out: it is filtered and advances the time of the gait  *)
(* like linear.x, and like it moves no foot up or down.                    *)
(* A cycle is 40 iterations (CYCLE_TIME * 50 Hz) and is measured in 6000th *)
(* parts, velocities in per cent, heights in tenths of a millimetre.       *)
(* self.t is summed up in floating point and never wrapped.  Of it the     *)
(* model keeps the iteration of the cycle, whether the cycle is the first  *)
(* one since self.t was reset, and whether rounding has put the sample     *)
(* short of its place.  In twenty hours of walking the sum is off by less  *)
(* than 1/6000 of a cycle, so that one part of drift bounds it.  The code  *)
(* falls short in runs of iterations, here every one of Roundings chooses. *)
(***************************************************************************)
EXTENDS Integers, FiniteSets

CONSTANTS Inputs,    \* (linear.x, angular.z) of the Twists that may arrive
          Roundings  \* iterations of the cycle whose sample may fall short

ASSUME GaitAssumption == Inputs \subseteq [x : Int, z : Int]

Legs  == {"lf", "lm", "lr", "rf", "rm", "rr"}
Left  == {"lf", "lm", "lr"}
Right == Legs \ Left

(* slip: the last leg follows its neighbour on the same side too early *)
EarlyOffsets == [lf |-> 0, rm |-> 996, lr |-> 1998, rf |-> 3000, lm |-> 3996, rr |-> 3100]

WAVE_OFFSETS == [lf |-> 0, rm |-> 996, lr |-> 1998, rf |-> 3000, lm |-> 3996, rr |-> 4998]
DUTY_CYCLE   == 1000

SWING_HEIGHT == 400
TURN_LIFT    == 150
Period       == 40

VARIABLES target_vx, target_vt,   \* the last command, written by the callback
          vx, vt,                 \* the filtered velocities
          t, lap, drift,          \* self.t: iteration, 0 in the first cycle, rounding
          height                  \* of every foot above the stance

vars == <<target_vx, target_vt, vx, vt, t, lap, drift, height>>

Abs(n) == IF n < 0 THEN -n ELSE n

(* slip: the limits are forgotten *)
Unclamped(n, bound) == n

Clamp(n, bound) == IF n > bound THEN bound ELSE IF n < -bound THEN -bound ELSE n

(* The sine of x thousandths of pi, in per cent, for 0 <= x <= 1000. *)
Sine(x) == (1600 * x * (1000 - x)) \div (5000000 - 4 * x * (1000 - x))

-----------------------------------------------------------------------------
(* calculate_leg_ik *)

Cycle(time, short) == (150 * time - short) % 6000

LocalCycle(leg, cycle) == (cycle - WAVE_OFFSETS[leg]) % 6000

Swinging(leg, cycle) == LocalCycle(leg, cycle) < DUTY_CYCLE

Lift(leg, cycle) == (SWING_HEIGHT * Sine(LocalCycle(leg, cycle))) \div 100

(* |cos| of the phase of the stance: how far the foot is from its middle. *)
Sweep(leg, cycle) == Sine(Abs(500 - (LocalCycle(leg, cycle) - DUTY_CYCLE) \div 5))

(* A turning robot lifts its standing legs as well, against dragging. *)
FootHeight(leg, cycle, turn) ==
  IF Swinging(leg, cycle) THEN Lift(leg, cycle)
  ELSE (TURN_LIFT * Abs(turn) * Sweep(leg, cycle)) \div 10000

-----------------------------------------------------------------------------
Init == /\ target_vx = 0 /\ target_vt = 0 /\ vx = 0 /\ vt = 0
        /\ t = 0 /\ lap = 0 /\ drift = 0
        /\ height = [leg \in Legs |-> 0]

cmd_cb(msg) ==
  /\ target_vx' = Clamp(msg.x, 100) /\ target_vt' = Clamp(msg.z, 150)
  /\ UNCHANGED <<vx, vt, t, lap, drift, height>>

(* A tenth of the way, rounded so that the last per cent is made too. *)
Towards(v, target) == IF target > v THEN v + (target - v + 9) \div 10
                                    ELSE v - (v - target + 9) \div 10

Moves(x, z) == Abs(x) > 1 \/ Abs(z) > 1

StepTime == /\ t' = (t + 1) % Period
            /\ lap' = IF t' = 0 THEN 1 ELSE lap
            /\ drift' \in IF t' \in Roundings THEN {0, 1} ELSE {0}

(* slip: the gait is stopped where it is *)
FrozenTime(x, z) == IF Moves(x, z) THEN StepTime ELSE UNCHANGED <<t, lap, drift>>

NextTime(x, z) == IF Moves(x, z) THEN StepTime ELSE t' = 0 /\ lap' = 0 /\ drift' = 0

(* slip: a filter as slow as that of the velocity *)
SlowlyTo(now, goal) == (9 * now + goal) \div 10

HalfWay(now, goal) == (now + goal) \div 2

Iterate ==
  /\ vx' = Towards(vx, target_vx) /\ vt' = Towards(vt, target_vt)
  /\ NextTime(vx', vt')
  /\ height' = [leg \in Legs |->
                  HalfWay(height[leg], FootHeight(leg, Cycle(t', drift'), vt'))]
  /\ UNCHANGED <<target_vx, target_vt>>

Next == Iterate \/ \E msg \in Inputs : cmd_cb(msg)

(* The thread of the loop runs at its rate. *)
Spec == Init /\ [][Next]_vars /\ WF_vars(Iterate)

-----------------------------------------------------------------------------
TypeOK == /\ target_vx \in -100 .. 100 /\ vx \in -100 .. 100
          /\ target_vt \in -150 .. 150 /\ vt \in -150 .. 150
          /\ t \in 0 .. Period - 1 /\ lap \in {0, 1} /\ drift \in {0, 1}
          /\ height \in [Legs -> 0 .. SWING_HEIGHT]

Swingers == {leg \in Legs : Swinging(leg, Cycle(t, drift))}

(* The gait never asks two legs to swing at once, although the offsets are  *)
(* rounded to three digits, and never leaves all of them on the ground for  *)
(* longer than an iteration: the windows of the left rear and the right     *)
(* rear leg end a hair before the next one begins, and a sample that the    *)
(* sum of floats puts short of its place falls between them (WAVE_OFFSETS,  *)
(* DUTY_CYCLE, line 291).                                                   *)
OneSwing == [][ /\ Cardinality(Swingers') <= 1
                /\ Swingers = {} /\ Iterate => Swingers' # {} ]_vars

(* 5 mm, and what a turn lifts a standing foot with the lag of the filter:   *)
(* a foot above that swings or has just done so.                            *)
Clearance == 50

Airborne == {leg \in Legs : height[leg] > Clearance + 2 * Abs(vt)}

(* The filter keeps a foot in the air after its swing, but never until a     *)
(* third one rises, however often the walk is broken off in mid swing; and   *)
(* two of the same side only in the first iterations after the time of the   *)
(* gait was reset, when a walk that was broken off begins again with the     *)
(* left front leg: else the order of the offsets alternates the sides       *)
(* (loop, lines 290 to 302).                                                *)
NeverTwoOfASide ==
  /\ Cardinality(Airborne) <= 2
  /\ lap = 1 \/ t > 2 => /\ Cardinality(Airborne \cap Left) <= 1
                         /\ Cardinality(Airborne \cap Right) <= 1

(* When the command stays zero the robot comes to stand on its six feet and  *)
(* remains so, wherever in the cycle the walk was broken off.               *)
Resting == t = 0 /\ \A leg \in Legs : height[leg] = 0
ComesToRest == <>[](target_vx = 0 /\ target_vt = 0) => <>[]Resting

(* SPIDER_ROBOT_KINEMATICS.md, section 1: the gait "only lifts one leg at a  *)
(* time", with "5 legs on the ground at all times".                         *)
FiveOnTheGround == Cardinality(Airborne) <= 1
=============================================================================
