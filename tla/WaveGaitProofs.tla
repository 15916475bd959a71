--------------------------- MODULE WaveGaitProofs ---------------------------
(***************************************************************************)
(* Proofs about WaveGait, for every set of Twists.                         *)
(*                                                                         *)
(* Which feet are in the air depends on the past: the filter lowers a foot *)
(* for half a dozen iterations after its swing.  While the walk goes on,   *)
(* the place of a leg in its cycle bounds its height (OnCourse); a walk    *)
(* that is broken off keeps two feet up, wherever they are, until they     *)
(* have come down (BrokenOff).                                             *)
(***************************************************************************)
EXTENDS WaveGait, FiniteSetTheorems, TLAPS

(* The time of the gait and the commands stay in their ranges. *)
GaitInv == /\ t \in 0 .. Period - 1 /\ lap \in {0, 1} /\ drift \in {0, 1}
           /\ target_vx \in -100 .. 100 /\ vx \in -100 .. 100
           /\ target_vt \in -150 .. 150 /\ vt \in -150 .. 150

LEMMA ClampRange ==
  ASSUME NEW n \in Int, NEW bound \in Nat PROVE Clamp(n, bound) \in -bound .. bound
BY DEF Clamp

LEMMA TowardsRange ==
  ASSUME NEW bound \in Nat, NEW v \in -bound .. bound, NEW target \in -bound .. bound
  PROVE  Towards(v, target) \in -bound .. bound
<1>1. CASE target > v
  <2>1. (target - v + 9) \div 10 \in 0 .. target - v BY <1>1
  <2> QED BY <1>1, <2>1 DEF Towards
<1>2. CASE ~(target > v)
  <2>1. (v - target + 9) \div 10 \in 0 .. v - target BY <1>2
  <2> QED BY <1>2, <2>1 DEF Towards
<1> QED BY <1>1, <1>2

LEMMA Swings ==
  ASSUME NEW time \in 0 .. 39, NEW short \in {0, 1}, short = 0 \/ time \notin {0, 20}
  PROVE  /\ Swinging("lf", Cycle(time, short)) <=> time \in 0 .. 6
         /\ Swinging("rm", Cycle(time, short)) <=> time \in 7 .. 13
         /\ Swinging("lr", Cycle(time, short)) <=> time \in 14 .. 19
         /\ Swinging("rf", Cycle(time, short)) <=> time \in 20 .. 26
         /\ Swinging("lm", Cycle(time, short)) <=> time \in 27 .. 33
         /\ Swinging("rr", Cycle(time, short)) <=> time \in 34 .. 39
<1>1. CASE short = 0
  BY <1>1 DEF Swinging, LocalCycle, Cycle, WAVE_OFFSETS, DUTY_CYCLE
<1>2. CASE short = 1
  BY <1>2 DEF Swinging, LocalCycle, Cycle, WAVE_OFFSETS, DUTY_CYCLE
<1> QED BY <1>1, <1>2

(* A sample that falls short where a window ends finds no leg swinging. *)
LEMMA GapSwings ==
  ASSUME NEW time \in {0, 20}, NEW leg \in Legs PROVE ~Swinging(leg, Cycle(time, 1))
<1>1. CASE time = 0
  BY <1>1 DEF Swinging, LocalCycle, Cycle, WAVE_OFFSETS, DUTY_CYCLE, Legs
<1>2. CASE time = 20
  BY <1>2 DEF Swinging, LocalCycle, Cycle, WAVE_OFFSETS, DUTY_CYCLE, Legs
<1> QED BY <1>1, <1>2

(* Everywhere else one leg swings. *)
LEMMA OneSwings ==
  ASSUME NEW time \in 0 .. 39, NEW short \in {0, 1}, short = 0 \/ time \notin {0, 20}
  PROVE  \E l \in Legs : {leg \in Legs : Swinging(leg, Cycle(time, short))} = {l}
<1>1. Legs = {"lf", "lm", "lr", "rf", "rm", "rr"} BY DEF Legs
<1>2. CASE time \in 0 .. 6
  <2>1. {leg \in Legs : Swinging(leg, Cycle(time, short))} = {"lf"} BY <1>1, <1>2, Swings
  <2> QED BY <1>1, <2>1
<1>3. CASE time \in 7 .. 13
  <2>1. {leg \in Legs : Swinging(leg, Cycle(time, short))} = {"rm"} BY <1>1, <1>3, Swings
  <2> QED BY <1>1, <2>1
<1>4. CASE time \in 14 .. 19
  <2>1. {leg \in Legs : Swinging(leg, Cycle(time, short))} = {"lr"} BY <1>1, <1>4, Swings
  <2> QED BY <1>1, <2>1
<1>5. CASE time \in 20 .. 26
  <2>1. {leg \in Legs : Swinging(leg, Cycle(time, short))} = {"rf"} BY <1>1, <1>5, Swings
  <2> QED BY <1>1, <2>1
<1>6. CASE time \in 27 .. 33
  <2>1. {leg \in Legs : Swinging(leg, Cycle(time, short))} = {"lm"} BY <1>1, <1>6, Swings
  <2> QED BY <1>1, <2>1
<1>7. CASE time \in 34 .. 39
  <2>1. {leg \in Legs : Swinging(leg, Cycle(time, short))} = {"rr"} BY <1>1, <1>7, Swings
  <2> QED BY <1>1, <2>1
<1> QED BY <1>2, <1>3, <1>4, <1>5, <1>6, <1>7

LEMMA GaitStart == Init => GaitInv
BY DEF Init, GaitInv, Period

LEMMA GaitStep == GaitInv /\ [Next]_vars => GaitInv'
<1> SUFFICES ASSUME GaitInv, [Next]_vars PROVE GaitInv'
  OBVIOUS
<1>1. CASE Iterate
  <2>1. vx' \in -100 .. 100 /\ vt' \in -150 .. 150
    <3>1. Towards(vx, target_vx) \in -100 .. 100 BY TowardsRange, 100 \in Nat DEF GaitInv
    <3>2. Towards(vt, target_vt) \in -150 .. 150 BY TowardsRange, 150 \in Nat DEF GaitInv
    <3> QED BY <1>1, <3>1, <3>2 DEF Iterate
  <2>2. t' \in 0 .. Period - 1 /\ lap' \in {0, 1} /\ drift' \in {0, 1}
    <3>1. CASE StepTime BY <3>1 DEF GaitInv, StepTime, Period
    <3>2. CASE t' = 0 /\ lap' = 0 /\ drift' = 0 BY <3>2 DEF Period
    <3> QED BY <1>1, <3>1, <3>2 DEF Iterate, NextTime
  <2> QED BY <1>1, <2>1, <2>2 DEF GaitInv, Iterate
<1>2. ASSUME NEW msg \in Inputs, cmd_cb(msg) PROVE GaitInv'
  <2>1. msg.x \in Int /\ msg.z \in Int BY GaitAssumption
  <2>2. Clamp(msg.x, 100) \in -100 .. 100 BY <2>1, ClampRange, 100 \in Nat
  <2>3. Clamp(msg.z, 150) \in -150 .. 150 BY <2>1, ClampRange, 150 \in Nat
  <2>4. target_vx' = Clamp(msg.x, 100) /\ target_vt' = Clamp(msg.z, 150) BY <1>2 DEF cmd_cb
  <2> QED BY <1>2, <2>2, <2>3, <2>4 DEF GaitInv, cmd_cb
<1>3. CASE UNCHANGED vars BY <1>3 DEF vars, GaitInv
<1> QED BY <1>1, <1>2, <1>3 DEF Next

LEMMA SwingersNow ==
  ASSUME GaitInv
  PROVE  IF drift = 1 /\ t \in {0, 20} THEN Swingers = {} ELSE \E l \in Legs : Swingers = {l}
<1>1. t \in 0 .. 39 /\ drift \in {0, 1} BY DEF GaitInv, Period
<1>2. CASE drift = 1 /\ t \in {0, 20} BY <1>2, GapSwings DEF Swingers
<1>3. CASE drift = 0 \/ t \notin {0, 20}
  <2>1. \E l \in Legs : Swingers = {l} BY <1>1, <1>3, OneSwings DEF Swingers
  <2>2. ~(drift = 1 /\ t \in {0, 20}) BY <1>3
  <2> QED BY <2>1, <2>2
<1> QED BY <1>1, <1>2, <1>3

(* An iteration moves the time of the gait on by one, or back to its start. *)
LEMMA TimeStep ==
  ASSUME Iterate
  PROVE  StepTime \/ (t' = 0 /\ lap' = 0 /\ drift' = 0)
BY DEF Iterate, NextTime

(* At no iteration two legs are asked to swing, and at no two iterations in   *)
(* a row none, whatever the sum of the floats does to the time of the gait  *)
(* (spider_gait_engine.py, WAVE_OFFSETS, calculate_leg_ik and line 291).    *)
THEOREM GaitSwingsOne == Spec => OneSwing
<1> DEFINE Step == /\ Cardinality(Swingers') <= 1
                   /\ Swingers = {} /\ Iterate => Swingers' # {}
<1>1. ASSUME GaitInv, [Next]_vars PROVE Step
  <2>1. GaitInv' BY <1>1, GaitStep
  <2>2. \/ drift' = 1 /\ t' \in {0, 20} /\ Swingers' = {}
        \/ \E l \in Legs : Swingers' = {l}
    <3>1. t' \in 0 .. 39 /\ drift' \in {0, 1} BY <2>1 DEF GaitInv, Period
    <3>2. CASE drift' = 1 /\ t' \in {0, 20} BY <3>2, GapSwings DEF Swingers
    <3>3. CASE drift' = 0 \/ t' \notin {0, 20}
      <4>1. \E l \in Legs : Swingers' = {l} BY <3>1, <3>3, OneSwings DEF Swingers
      <4> QED BY <4>1
    <3> QED BY <3>1, <3>2, <3>3
  <2>3. Cardinality(Swingers') <= 1
    <3>1. CASE Swingers' = {}
      <4>1. Cardinality({}) = 0 BY FS_EmptySet
      <4> QED BY <3>1, <4>1
    <3>2. ASSUME NEW l \in Legs, Swingers' = {l} PROVE Cardinality(Swingers') <= 1
      <4>1. Cardinality({l}) = 1 BY FS_Singleton
      <4> QED BY <3>2, <4>1
    <3> QED BY <2>2, <3>1, <3>2
  <2>4. ASSUME Swingers = {}, Iterate PROVE Swingers' # {}
    <3>1. drift = 1 /\ t \in {0, 20} BY <1>1, <2>4, SwingersNow
    <3>2. ~(drift' = 1 /\ t' \in {0, 20})
      <4>1. CASE StepTime BY <3>1, <4>1 DEF StepTime, Period
      <4>2. CASE t' = 0 /\ lap' = 0 /\ drift' = 0 BY <4>2
      <4> QED BY <2>4, <4>1, <4>2, TimeStep
    <3> QED BY <2>2, <3>2
  <2> QED BY <2>3, <2>4
<1>2. [Step]_vars <=> [ /\ Cardinality(Swingers') <= 1
                        /\ Swingers = {} /\ Iterate => Swingers' # {} ]_vars
  OBVIOUS
<1>3. GaitInv /\ [Next]_vars => [Step]_vars BY <1>1
<1> HIDE DEF Step
<1>4. Spec => [][Step]_vars BY GaitStart, GaitStep, <1>3, PTL DEF Spec
<1> QED BY <1>2, <1>4, PTL DEF OneSwing

-----------------------------------------------------------------------------
(* The heights.  Ranges are stated as inequalities. *)

Between(n, low, high) == n \in Int /\ low <= n /\ n <= high

(* What is at most a hundred divisors gives a quotient of at most a hundred. *)
LEMMA PercentRange ==
  ASSUME NEW a \in Int, NEW b \in Nat \ {0}, 0 <= a, a <= 100 * b
  PROVE  Between(a \div b, 0, 100)
<1> DEFINE q == a \div b
<1>1. q \in Int /\ b * q <= a /\ a < b * (q + 1)
  BY SMT
<1> HIDE DEF q
<1>2. q >= 0
  <2> SUFFICES ASSUME q <= -1 PROVE FALSE BY <1>1
  <2>1. b * (q + 1) <= 0 BY <1>1
  <2> QED BY <1>1, <2>1
<1>3. q <= 100
  <2> SUFFICES ASSUME q >= 101 PROVE FALSE BY <1>1
  <2>1. b * q >= 101 * b BY <1>1
  <2> QED BY <1>1, <2>1
<1> QED BY <1>1, <1>2, <1>3 DEF q, Between

(* The sine stays between 0 and 1. *)
LEMMA SineRange ==
  ASSUME NEW x, Between(x, 0, 1000) PROVE Between(Sine(x), 0, 100)
<1> DEFINE p == x * (1000 - x)
<1>1. p = 250000 - (x - 500) * (x - 500) BY SMT DEF Between
<1>2. (x - 500) * (x - 500) >= 0 BY SMT DEF Between
<1>3. p \in Int /\ p >= 0 BY SMT DEF Between
<1>4. p <= 250000 BY SMT, <1>1, <1>2, <1>3 DEF Between
<1>5. 1600 * x * (1000 - x) = 1600 * p /\ 4 * x * (1000 - x) = 4 * p
  BY SMT DEF Between
<1> HIDE DEF p
<1> DEFINE a == 1600 * p
           b == 5000000 - 4 * p
<1>6. a \in Int /\ b \in Nat \ {0} /\ 0 <= a /\ a <= 100 * b BY SMT, <1>3, <1>4
<1>7. Sine(x) = a \div b BY SMT, <1>5 DEF Sine
<1> HIDE DEF a, b
<1>8. Between(a \div b, 0, 100) BY <1>6, PercentRange
<1> QED BY <1>7, <1>8

(* The height of a standing foot, from the turn and its sweep. *)
LEMMA TurnHeight ==
  ASSUME NEW a, NEW s, Between(a, 0, 150), Between(s, 0, 100)
  PROVE  Between((150 * a * s) \div 10000, 0, 400)
<1> DEFINE n == 150 * a * s
<1>1. a * s \in Int /\ a * s >= 0 /\ a * s <= 150 * s BY SMT DEF Between
<1>2. n = 150 * (a * s) BY SMT DEF Between
<1>3. n \in Int /\ n >= 0 /\ n <= 2250000 BY SMT, <1>1, <1>2 DEF Between
<1> HIDE DEF n
<1>4. Between(n \div 10000, 0, 400) BY SMT, <1>3 DEF Between
<1> QED BY SMT, <1>4 DEF n

LEMMA LiftRange ==
  ASSUME NEW s, Between(s, 0, 100) PROVE Between((400 * s) \div 100, 0, 400)
BY SMT DEF Between

LEMMA SweepRange ==
  ASSUME NEW c, Between(c, 1000, 5999) PROVE Between(Abs(500 - (c - 1000) \div 5), 0, 1000)
BY SMT DEF Abs, Between

LEMMA CycleRange ==
  ASSUME NEW leg \in Legs, NEW cycle \in Int
  PROVE  Between(LocalCycle(leg, cycle), 0, 5999)
<1> DEFINE n == cycle - WAVE_OFFSETS[leg]
<1>1. n \in Int BY SMT DEF WAVE_OFFSETS, Legs
<1> HIDE DEF n
<1>2. Between(n % 6000, 0, 5999) BY SMT, <1>1 DEF Between
<1> QED BY SMT, <1>2 DEF n, LocalCycle

(* No foot is ever asked to be lower than the stance or higher than a swing. *)
LEMMA FootHeightRange ==
  ASSUME NEW leg \in Legs, NEW cycle \in Int, NEW turn, Between(turn, -150, 150)
  PROVE  Between(FootHeight(leg, cycle, turn), 0, SWING_HEIGHT)
<1> DEFINE c == LocalCycle(leg, cycle)
<1>1. Between(c, 0, 5999) BY CycleRange
<1>2. Swinging(leg, cycle) <=> c < 1000 BY DEF Swinging, DUTY_CYCLE
<1>3. Lift(leg, cycle) = (400 * Sine(c)) \div 100 BY DEF Lift, SWING_HEIGHT
<1>4. Sweep(leg, cycle) = Sine(Abs(500 - (c - 1000) \div 5)) BY DEF Sweep, DUTY_CYCLE
<1> HIDE DEF c
<1>5. CASE Swinging(leg, cycle)
  <2>1. Between(c, 0, 1000) BY SMT, <1>1, <1>2, <1>5 DEF Between
  <2>2. Between(Sine(c), 0, 100) BY SMT, <2>1, SineRange
  <2>3. Between(Lift(leg, cycle), 0, 400) BY SMT, <2>2, <1>3, LiftRange
  <2> QED BY SMT, <1>5, <2>3 DEF FootHeight, SWING_HEIGHT
<1>6. CASE ~Swinging(leg, cycle)
  <2>1. Between(c, 1000, 5999) BY SMT, <1>1, <1>2, <1>6 DEF Between
  <2>2. Between(Abs(500 - (c - 1000) \div 5), 0, 1000) BY SMT, <2>1, SweepRange
  <2>3. Between(Sweep(leg, cycle), 0, 100) BY SMT, <2>2, <1>4, SineRange
  <2>4. Between(Abs(turn), 0, 150) BY SMT DEF Abs, Between
  <2>5. Between((150 * Abs(turn) * Sweep(leg, cycle)) \div 10000, 0, 400)
    BY SMT, <2>3, <2>4, TurnHeight
  <2> QED BY SMT, <1>6, <2>5 DEF FootHeight, SWING_HEIGHT, TURN_LIFT
<1> QED BY SMT, <1>5, <1>6

LEMMA HalfWayRange ==
  ASSUME NEW a, NEW b, NEW m \in Nat, Between(a, 0, m), Between(b, 0, m)
  PROVE  HalfWay(a, b) \in 0 .. m
BY SMT DEF HalfWay, Between

LEMMA CycleInt == ASSUME NEW time \in Int, NEW short \in Int PROVE Cycle(time, short) \in Int
BY DEF Cycle

LEMMA CycleNow ==
  ASSUME GaitInv
  PROVE  Cycle(t, drift) \in Int /\ Between(vt, -150, 150) /\ Between(Abs(vt), 0, 150)
<1>1. t \in Int /\ drift \in Int BY DEF GaitInv, Period
<1>2. Cycle(t, drift) \in Int BY <1>1, CycleInt
<1>3. Between(vt, -150, 150) BY DEF GaitInv, Between
<1>4. Between(Abs(vt), 0, 150) BY <1>3 DEF Abs, Between
<1> QED BY <1>2, <1>3, <1>4

LEMMA CycleNext ==
  ASSUME GaitInv'
  PROVE  /\ Cycle(t', drift') \in Int
         /\ Between(vt', -150, 150) /\ Between(Abs(vt'), 0, 150)
<1>1. t' \in Int /\ drift' \in Int BY DEF GaitInv, Period
<1>2. Cycle(t', drift') \in Int BY <1>1, CycleInt
<1>3. Between(vt', -150, 150) BY DEF GaitInv, Between
<1>4. Between(Abs(vt'), 0, 150)
  <2> DEFINE v == vt'
  <2>1. Between(v, -150, 150) BY <1>3
  <2> HIDE DEF v
  <2>2. Between(Abs(v), 0, 150) BY <2>1 DEF Abs, Between
  <2> QED BY <2>2 DEF v
<1> QED BY <1>2, <1>3, <1>4

LEMMA TypesStart == Init => TypeOK
<1>1. SWING_HEIGHT \in Nat BY SMT DEF SWING_HEIGHT
<1> QED BY SMT, <1>1 DEF Init, TypeOK, Period

LEMMA TypesStep == TypeOK /\ [Next]_vars => TypeOK'
<1> SUFFICES ASSUME TypeOK, [Next]_vars PROVE TypeOK'
  OBVIOUS
<1>1. GaitInv' BY GaitStep DEF TypeOK, GaitInv
<1>2. SWING_HEIGHT \in Nat BY SMT DEF SWING_HEIGHT
<1>3. height' \in [Legs -> 0 .. SWING_HEIGHT]
  <2>1. CASE Iterate
    <3> SUFFICES ASSUME NEW leg \in Legs
                 PROVE  HalfWay(height[leg], FootHeight(leg, Cycle(t', drift'), vt'))
                           \in 0 .. SWING_HEIGHT
      BY <2>1 DEF Iterate
    <3>1. Cycle(t', drift') \in Int /\ Between(vt', -150, 150) BY <1>1, CycleNext
    <3>2. Between(FootHeight(leg, Cycle(t', drift'), vt'), 0, SWING_HEIGHT)
      BY <3>1, FootHeightRange
    <3>3. Between(height[leg], 0, SWING_HEIGHT) BY <1>2 DEF TypeOK, Between
    <3> QED BY <1>2, <3>2, <3>3, HalfWayRange
  <2>2. ASSUME NEW msg \in Inputs, cmd_cb(msg) PROVE height' \in [Legs -> 0 .. SWING_HEIGHT]
    BY <2>2 DEF cmd_cb, TypeOK
  <2>3. CASE UNCHANGED vars BY <2>3 DEF vars, TypeOK
  <2> QED BY <2>1, <2>2, <2>3 DEF Next
<1> QED BY <1>1, <1>3 DEF TypeOK, GaitInv

(* No Twist drives a foot below the stance or above the height of a swing   *)
(* (calculate_leg_ik), and the filters stay within the limits of cmd_cb.    *)
THEOREM GaitTypeCorrect == Spec => []TypeOK
BY TypesStart, TypesStep, PTL DEF Spec

-----------------------------------------------------------------------------
(* NeverTwoOfASide: the heights a foot goes through after its swing.  All are *)
(* functions of its place in the cycle, as long as the walk goes on.         *)

(* A quotient of less than k + 1 divisors is at most k. *)
LEMMA QuotientBelow ==
  ASSUME NEW a \in Int, NEW b \in Int, NEW k \in Int, b > 0, a < (k + 1) * b
  PROVE  a \div b <= k
<1> DEFINE q == a \div b
<1>1. q \in Int /\ b * q <= a BY SMT
<1> HIDE DEF q
<1>2. SUFFICES ASSUME q >= k + 1 PROVE FALSE BY <1>1 DEF q
<1>3. b * (k + 1) <= b * q BY SMT, <1>1, <1>2
<1>4. b * (k + 1) = (k + 1) * b BY SMT
<1> QED BY SMT, <1>1, <1>3, <1>4

(* The sine from its argument's distance to a half turn. *)
LEMMA SineBelow ==
  ASSUME NEW x, Between(x, 0, 1000), NEW m \in Nat, NEW k \in Nat,
         m <= 250000, x * (1000 - x) <= m, 1600 * m < (k + 1) * (5000000 - 4 * m)
  PROVE  Sine(x) <= k
<1> DEFINE p == x * (1000 - x)
<1>1. p \in Int /\ p <= m BY SMT DEF Between
<1>2. 1600 * x * (1000 - x) = 1600 * p /\ 4 * x * (1000 - x) = 4 * p BY SMT DEF Between
<1> HIDE DEF p
<1> DEFINE a == 1600 * p
           b == 5000000 - 4 * p
           c == 5000000 - 4 * m
<1>3. Sine(x) = a \div b BY <1>2 DEF Sine
<1>4. a \in Int /\ b \in Int /\ c \in Int /\ c <= b /\ b > 0 /\ a <= 1600 * m BY <1>1
<1>5. 1600 * m < (k + 1) * c OBVIOUS
<1> HIDE DEF a, b, c
<1>6. (k + 1) * c <= (k + 1) * b BY SMT, <1>4
<1>7. (k + 1) * c \in Int /\ (k + 1) * b \in Int BY SMT, <1>4
<1>8. a < (k + 1) * b BY <1>4, <1>5, <1>6, <1>7
<1> QED BY <1>3, <1>4, <1>8, QuotientBelow

(* The first and the last two samples of a swing. *)
LEMMA Lifts ==
  ASSUME NEW c, Between(c, 0, 999)
  PROVE  /\ c <= 102 => (400 * Sine(c)) \div 100 <= 124
         /\ c >= 700 => (400 * Sine(c)) \div 100 <= 320
         /\ c >= 850 => (400 * Sine(c)) \div 100 <= 180
<1>1. Between(c, 0, 1000) /\ c \in Int BY DEF Between
<1>2. Between(Sine(c), 0, 100) BY <1>1, SineRange
<1>3. ASSUME c <= 102 PROVE Sine(c) <= 31
  <2>1. (102 - c) * (898 - c) >= 0 BY SMT, <1>3 DEF Between
  <2>2. (102 - c) * (898 - c) = 91596 - c * (1000 - c) BY SMT, <1>1
  <2>3. c * (1000 - c) \in Int BY SMT, <1>1
  <2>4. c * (1000 - c) <= 91596 BY <2>1, <2>2, <2>3
  <2> QED BY <1>1, <2>4, SineBelow
<1>4. ASSUME c >= 700 PROVE Sine(c) <= 80
  <2>1. (c - 700) * (c - 300) >= 0 BY SMT, <1>4 DEF Between
  <2>2. (c - 700) * (c - 300) = 210000 - c * (1000 - c) BY SMT, <1>1
  <2>3. c * (1000 - c) \in Int BY SMT, <1>1
  <2>4. c * (1000 - c) <= 210000 BY <2>1, <2>2, <2>3
  <2> QED BY <1>1, <2>4, SineBelow
<1>5. ASSUME c >= 850 PROVE Sine(c) <= 45
  <2>1. (c - 850) * (c - 150) >= 0 BY SMT, <1>5 DEF Between
  <2>2. (c - 850) * (c - 150) = 127500 - c * (1000 - c) BY SMT, <1>1
  <2>3. c * (1000 - c) \in Int BY SMT, <1>1
  <2>4. c * (1000 - c) <= 127500 BY <2>1, <2>2, <2>3
  <2> QED BY <1>1, <2>4, SineBelow
<1> DEFINE s == Sine(c)
<1>6. s \in Int BY <1>2 DEF Between
<1>7. (c <= 102 => s <= 31) /\ (c >= 700 => s <= 80) /\ (c >= 850 => s <= 45)
  BY <1>3, <1>4, <1>5
<1> HIDE DEF s
<1>8. (400 * s) \div 100 = 4 * s BY <1>6
<1> QED BY <1>6, <1>7, <1>8 DEF s

(* A standing foot rises with the turn. *)
LEMMA StandingHeight ==
  ASSUME NEW leg \in Legs, NEW cycle \in Int, NEW turn, Between(turn, -150, 150),
         ~Swinging(leg, cycle)
  PROVE  /\ FootHeight(leg, cycle, turn) \in Int
         /\ 2 * FootHeight(leg, cycle, turn) <= 3 * Abs(turn)
<1> DEFINE c == LocalCycle(leg, cycle)
           a == Abs(turn)
           s == Sweep(leg, cycle)
<1>1. Between(c, 0, 5999) BY CycleRange
<1>2. c >= 1000 BY <1>1 DEF Swinging, DUTY_CYCLE, Between
<1>3. Between(s, 0, 100)
  <2>1. Sweep(leg, cycle) = Sine(Abs(500 - (c - 1000) \div 5)) BY DEF Sweep, DUTY_CYCLE
  <2> HIDE DEF c
  <2>2. Between(c, 1000, 5999) BY <1>1, <1>2 DEF Between
  <2>3. Between(Abs(500 - (c - 1000) \div 5), 0, 1000) BY <2>2, SweepRange
  <2> QED BY <2>1, <2>3, SineRange
<1>4. a \in Int /\ 0 <= a BY DEF Between, Abs
<1>5. FootHeight(leg, cycle, turn) = (150 * a * s) \div 10000
  BY DEF FootHeight, TURN_LIFT
<1> HIDE DEF a, s, c
<1> DEFINE p == a * s
<1>6. p \in Int /\ 0 <= p /\ p <= 100 * a
  <2>1. a * s <= a * 100 BY SMT, <1>3, <1>4 DEF Between
  <2>2. a * s \in Int /\ a * s >= 0 BY SMT, <1>3, <1>4 DEF Between
  <2> QED BY <1>4, <2>1, <2>2
<1>7. 150 * a * s = 150 * p BY SMT, <1>3, <1>4 DEF Between
<1> HIDE DEF p
<1>8. (150 * p) \div 10000 \in Int /\ 2 * ((150 * p) \div 10000) <= 3 * a BY <1>4, <1>6
<1> QED BY <1>5, <1>7, <1>8 DEF a

(* The filtered turn decays by a tenth of what is missing. *)
LEMMA TurnDecays ==
  ASSUME NEW v, NEW goal, Between(v, -150, 150), Between(goal, -150, 150)
  PROVE  9 * Abs(v) <= 10 * Abs(Towards(v, goal)) + 159
<1> DEFINE w == Towards(v, goal)
<1>1. w \in Int /\ 10 * w <= 9 * v + 159 /\ 10 * w >= 9 * v - 159
  BY DEF Towards, Between
<1>2. v \in Int BY DEF Between
<1> HIDE DEF w
<1>3. 9 * Abs(v) <= 10 * Abs(w) + 159 BY <1>1, <1>2 DEF Abs
<1> QED BY <1>3 DEF w

(* Where a leg is in its cycle. *)
LEMMA Places ==
  ASSUME NEW leg \in Legs, NEW time \in 0 .. 39, NEW short \in {0, 1}
  PROVE  LocalCycle(leg, Cycle(time, short)) = (150 * time - short - WAVE_OFFSETS[leg]) % 6000
<1> DEFINE n == 150 * time - short
           o == WAVE_OFFSETS[leg]
<1>1. n \in Int /\ o \in Int BY DEF WAVE_OFFSETS, Legs
<1> HIDE DEF n, o
<1>2. ((n % 6000) - o) % 6000 = (n - o) % 6000 BY <1>1
<1> QED BY <1>2 DEF LocalCycle, Cycle, n, o

(* From one iteration to the next a leg moves on by 150 parts of its cycle, a *)
(* hair more or less.                                                       *)
LEMMA CycleStep ==
  ASSUME NEW leg \in Legs, NEW time \in 0 .. 39, NEW short \in {0, 1}, NEW next \in {0, 1},
         NEW c, c = LocalCycle(leg, Cycle(time, short)),
         NEW d, d = LocalCycle(leg, Cycle((time + 1) % 40, next))
  PROVE  /\ d < 140 => d <= 102 /\ c >= 1450
         /\ d >= 700 => c < d
         /\ d >= 850 => c >= 700
         /\ d >= 1000 => c >= 850
         /\ d >= 1150 => c >= 1000
         /\ d >= 1300 => c >= 1150
         /\ d >= 1450 => c >= 1300
<1> DEFINE Moved == /\ d < 140 => d <= 102 /\ c >= 1450
                    /\ d >= 700 => c < d
                    /\ d >= 850 => c >= 700
                    /\ d >= 1000 => c >= 850
                    /\ d >= 1150 => c >= 1000
                    /\ d >= 1300 => c >= 1150
                    /\ d >= 1450 => c >= 1300
           later == (time + 1) % 40
<1>1. later = (IF time = 39 THEN 0 ELSE time + 1) /\ later \in 0 .. 39 OBVIOUS
<1>2. /\ c = (150 * time - short - WAVE_OFFSETS[leg]) % 6000
      /\ d = (150 * later - next - WAVE_OFFSETS[leg]) % 6000
  BY <1>1, Places
<1> HIDE DEF later
<1>3. CASE leg = "lf" BY <1>1, <1>2, <1>3 DEF WAVE_OFFSETS
<1>4. CASE leg = "rm" BY <1>1, <1>2, <1>4 DEF WAVE_OFFSETS
<1>5. CASE leg = "lr" BY <1>1, <1>2, <1>5 DEF WAVE_OFFSETS
<1>6. CASE leg = "rf" BY <1>1, <1>2, <1>6 DEF WAVE_OFFSETS
<1>7. CASE leg = "lm" BY <1>1, <1>2, <1>7 DEF WAVE_OFFSETS
<1>8. CASE leg = "rr" BY <1>1, <1>2, <1>8 DEF WAVE_OFFSETS
<1> QED BY <1>3, <1>4, <1>5, <1>6, <1>7, <1>8 DEF Legs

(* Next to the leg that swings only the one before it, of the other side, has *)
(* swung recently.                                                          *)
Opposite(a, b) == (a \in Left /\ b \in Right) \/ (a \in Right /\ b \in Left)

HandOver(a, b, cycle) ==
  /\ Opposite(a, b) /\ LocalCycle(b, cycle) >= 1000
  /\ LocalCycle(b, cycle) < 1150 => LocalCycle(a, cycle) < 140 \/ LocalCycle(a, cycle) >= 1450
  /\ \A leg \in Legs \ {a, b} : LocalCycle(leg, cycle) >= 1450

LEMMA Neighbours ==
  ASSUME NEW time \in 0 .. 39, NEW short \in {0, 1}
  PROVE  \E a \in Legs, b \in Legs : HandOver(a, b, Cycle(time, short))
<1> DEFINE C(leg) == LocalCycle(leg, Cycle(time, short))
           Turn(a, b) == /\ Opposite(a, b) /\ C(b) >= 1000
                         /\ C(b) < 1150 => C(a) < 140 \/ C(a) >= 1450
                         /\ \A leg \in Legs \ {a, b} : C(leg) >= 1450
<1>1. \A leg \in Legs : C(leg) = (150 * time - short - WAVE_OFFSETS[leg]) % 6000
  BY Places
<1>2. /\ C("lf") = (150 * time - short) % 6000
      /\ C("rm") = (150 * time - short - 996) % 6000
      /\ C("lr") = (150 * time - short - 1998) % 6000
      /\ C("rf") = (150 * time - short - 3000) % 6000
      /\ C("lm") = (150 * time - short - 3996) % 6000
      /\ C("rr") = (150 * time - short - 4998) % 6000
  BY <1>1 DEF WAVE_OFFSETS, Legs
<1> HIDE DEF C
<1>3. ASSUME time \in 0 .. 6 PROVE Turn("lf", "rr") /\ "lf" \in Legs /\ "rr" \in Legs
  <2>1. Opposite("lf", "rr") /\ "lf" \in Legs /\ "rr" \in Legs
    BY DEF Opposite, Legs, Left, Right
  <2>2. C("rr") >= 1000 /\ (C("rr") < 1150 => C("lf") < 140 \/ C("lf") >= 1450)
    BY <1>2, <1>3
  <2>3. \A leg \in Legs \ {"lf", "rr"} : C(leg) >= 1450
    BY <1>2, <1>3 DEF Legs
  <2> QED BY <2>1, <2>2, <2>3
<1>4. ASSUME time \in 7 .. 13 PROVE Turn("rm", "lf") /\ "rm" \in Legs /\ "lf" \in Legs
  <2>1. Opposite("rm", "lf") /\ "rm" \in Legs /\ "lf" \in Legs
    BY DEF Opposite, Legs, Left, Right
  <2>2. C("lf") >= 1000 /\ (C("lf") < 1150 => C("rm") < 140 \/ C("rm") >= 1450)
    BY <1>2, <1>4
  <2>3. \A leg \in Legs \ {"rm", "lf"} : C(leg) >= 1450
    BY <1>2, <1>4 DEF Legs
  <2> QED BY <2>1, <2>2, <2>3
<1>5. ASSUME time \in 14 .. 19 PROVE Turn("lr", "rm") /\ "lr" \in Legs /\ "rm" \in Legs
  <2>1. Opposite("lr", "rm") /\ "lr" \in Legs /\ "rm" \in Legs
    BY DEF Opposite, Legs, Left, Right
  <2>2. C("rm") >= 1000 /\ (C("rm") < 1150 => C("lr") < 140 \/ C("lr") >= 1450)
    BY <1>2, <1>5
  <2>3. \A leg \in Legs \ {"lr", "rm"} : C(leg) >= 1450
    BY <1>2, <1>5 DEF Legs
  <2> QED BY <2>1, <2>2, <2>3
<1>6. ASSUME time \in 20 .. 26 PROVE Turn("rf", "lr") /\ "rf" \in Legs /\ "lr" \in Legs
  <2>1. Opposite("rf", "lr") /\ "rf" \in Legs /\ "lr" \in Legs
    BY DEF Opposite, Legs, Left, Right
  <2>2. C("lr") >= 1000 /\ (C("lr") < 1150 => C("rf") < 140 \/ C("rf") >= 1450)
    BY <1>2, <1>6
  <2>3. \A leg \in Legs \ {"rf", "lr"} : C(leg) >= 1450
    BY <1>2, <1>6 DEF Legs
  <2> QED BY <2>1, <2>2, <2>3
<1>7. ASSUME time \in 27 .. 33 PROVE Turn("lm", "rf") /\ "lm" \in Legs /\ "rf" \in Legs
  <2>1. Opposite("lm", "rf") /\ "lm" \in Legs /\ "rf" \in Legs
    BY DEF Opposite, Legs, Left, Right
  <2>2. C("rf") >= 1000 /\ (C("rf") < 1150 => C("lm") < 140 \/ C("lm") >= 1450)
    BY <1>2, <1>7
  <2>3. \A leg \in Legs \ {"lm", "rf"} : C(leg) >= 1450
    BY <1>2, <1>7 DEF Legs
  <2> QED BY <2>1, <2>2, <2>3
<1>8. ASSUME time \in 34 .. 39 PROVE Turn("rr", "lm") /\ "rr" \in Legs /\ "lm" \in Legs
  <2>1. Opposite("rr", "lm") /\ "rr" \in Legs /\ "lm" \in Legs
    BY DEF Opposite, Legs, Left, Right
  <2>2. C("lm") >= 1000 /\ (C("lm") < 1150 => C("rr") < 140 \/ C("rr") >= 1450)
    BY <1>2, <1>8
  <2>3. \A leg \in Legs \ {"rr", "lm"} : C(leg) >= 1450
    BY <1>2, <1>8 DEF Legs
  <2> QED BY <2>1, <2>2, <2>3
<1>9. \/ time \in 0 .. 6 \/ time \in 7 .. 13 \/ time \in 14 .. 19
      \/ time \in 20 .. 26 \/ time \in 27 .. 33 \/ time \in 34 .. 39
  OBVIOUS
<1>10. \A a \in Legs, b \in Legs : Turn(a, b) => HandOver(a, b, Cycle(time, short))
  BY DEF HandOver, C
<1> HIDE DEF Turn
<1>11. \E a \in Legs, b \in Legs : Turn(a, b)
  BY <1>9, <1>3, <1>4, <1>5, <1>6, <1>7, <1>8
<1> QED BY <1>10, <1>11

(* How high a foot is at most at a place of its cycle, while the walk goes on *)
(* and the robot turns at a filtered rate of a.                             *)
Follows(h, c, a) ==
  /\ c < 140   => h <= 105 + 2 * a
  /\ c >= 700 /\ c < 1000 => h <= 360
  /\ c >= 850 /\ c < 1000 => h <= 270
  /\ c >= 1000 => h <= 135 + 2 * a
  /\ c >= 1150 => h <= 86 + 2 * a
  /\ c >= 1300 => h <= 61 + 2 * a
  /\ c >= 1450 => h <= 50 + 2 * a

Stood(leg, high) == height[leg] <= high + 2 * Abs(vt)

OnCourse ==
  \A leg \in Legs : Follows(height[leg], LocalCycle(leg, Cycle(t, drift)), Abs(vt))

(* A walk is broken off when the filtered velocities have all but decayed.    *)
(* Two feet may be up then, one of them no more than 10 mm, unless it is the *)
(* left front foot; when the walk starts again they sink, while the left     *)
(* front foot rises and the turn, and with it the other feet, grows.        *)
Broken ==
  /\ t = 0 /\ lap = 0 /\ Abs(vt) <= 1
  /\ \E x \in Legs, y \in Legs :
        /\ height[x] <= 200 /\ (y = "lf" \/ height[y] <= 100)
        /\ \A leg \in Legs \ {x, y} : height[leg] <= 50

Restarted(n, high, turn) ==
  /\ t = n /\ lap = 0
  /\ \E x \in Legs : /\ (x = "lf" \/ height[x] <= high + turn * Abs(vt))
                     /\ \A leg \in Legs \ {x, "lf"} : Stood(leg, 50)

BrokenOff == Broken \/ Restarted(1, 100, 1) \/ Restarted(2, 59, 2)

StrideInv == TypeOK /\ (OnCourse \/ BrokenOff)

LEMMA Heights ==
  ASSUME TypeOK, NEW leg \in Legs PROVE Between(height[leg], 0, 400)
BY DEF TypeOK, SWING_HEIGHT, Between

LEMMA GaitHolds == (TypeOK => GaitInv) /\ (TypeOK' => GaitInv')
BY DEF TypeOK, GaitInv

LEMMA Turns ==
  ASSUME TypeOK PROVE Between(vt, -150, 150) /\ Between(Abs(vt), 0, 150)
BY GaitHolds, CycleNow

(* What an iteration makes of the height of a foot. *)
LEMMA FootNext ==
  ASSUME TypeOK, TypeOK', Iterate, NEW leg \in Legs
  PROVE  /\ Between(height[leg], 0, 400) /\ Between(height'[leg], 0, 400)
         /\ Between(FootHeight(leg, Cycle(t', drift'), vt'), 0, 400)
         /\ 2 * height'[leg] <= height[leg] + FootHeight(leg, Cycle(t', drift'), vt')
<1>1. Between(height[leg], 0, 400) BY Heights
<1>2. Between(height'[leg], 0, 400) BY DEF TypeOK, SWING_HEIGHT, Between
<1>3. Cycle(t', drift') \in Int /\ Between(vt', -150, 150)
  BY GaitHolds, CycleNext
<1>4. Between(FootHeight(leg, Cycle(t', drift'), vt'), 0, 400)
  BY <1>3, FootHeightRange DEF SWING_HEIGHT
<1>5. height'[leg] = HalfWay(height[leg], FootHeight(leg, Cycle(t', drift'), vt'))
  BY DEF Iterate
<1> DEFINE h == height[leg]
           f == FootHeight(leg, Cycle(t', drift'), vt')
<1>6. h \in Int /\ f \in Int BY <1>1, <1>4 DEF Between
<1> HIDE DEF h, f
<1>7. 2 * HalfWay(h, f) <= h + f BY <1>6 DEF HalfWay
<1> QED BY <1>1, <1>2, <1>4, <1>5, <1>7 DEF h, f

(* What it makes of the turn. *)
LEMMA TurnNext ==
  ASSUME TypeOK, TypeOK', Iterate
  PROVE  /\ Between(Abs(vt), 0, 150) /\ Between(Abs(vt'), 0, 150)
         /\ 9 * Abs(vt) <= 10 * Abs(vt') + 159
<1>1. Between(Abs(vt), 0, 150) BY Turns
<1>2. Between(Abs(vt'), 0, 150) BY GaitHolds, CycleNext
<1>3. Between(vt, -150, 150) /\ Between(target_vt, -150, 150) BY DEF TypeOK, Between
<1>4. vt' = Towards(vt, target_vt) BY DEF Iterate
<1> QED BY <1>1, <1>2, <1>3, <1>4, TurnDecays

(* A foot that stands sinks towards what the turn makes of it. *)
LEMMA Stands ==
  ASSUME TypeOK, TypeOK', Iterate, NEW leg \in Legs, ~Swinging(leg, Cycle(t', drift')),
         NEW high \in Nat, NEW low \in Nat
  PROVE  /\ height[leg] <= 2 * low => (height[leg] <= low + Abs(vt))' /\ Stood(leg, low)'
         /\ high <= 2 * low - 36 /\ Stood(leg, high) => Stood(leg, low)'
         /\ high <= 2 * low - 18 /\ height[leg] <= high + Abs(vt) => Stood(leg, low)'
<1> DEFINE h == height[leg]
           g == height'[leg]
           f == FootHeight(leg, Cycle(t', drift'), vt')
           a == Abs(vt)
           b == Abs(vt')
<1>1. Between(h, 0, 400) /\ Between(g, 0, 400) /\ Between(f, 0, 400) /\ 2 * g <= h + f
  BY FootNext
<1>2. Between(a, 0, 150) /\ Between(b, 0, 150) /\ 9 * a <= 10 * b + 159 BY TurnNext
<1>3. 2 * f <= 3 * b
  <2>1. Cycle(t', drift') \in Int /\ Between(vt', -150, 150)
    BY GaitHolds, CycleNext
  <2> QED BY <2>1, StandingHeight
<1>4. (Stood(leg, low)' <=> g <= low + 2 * b) /\ (Stood(leg, high) <=> h <= high + 2 * a)
  BY DEF Stood
<1> HIDE DEF h, g, f, a, b
<1>5. h <= 2 * low => g <= low + b /\ g <= low + 2 * b BY <1>1, <1>2, <1>3 DEF Between
<1>6. high <= 2 * low - 36 /\ h <= high + 2 * a => g <= low + 2 * b
  BY <1>1, <1>2, <1>3 DEF Between
<1>7. high <= 2 * low - 18 /\ h <= high + a => g <= low + 2 * b
  BY <1>1, <1>2, <1>3 DEF Between
<1>8. (height[leg] <= low + Abs(vt))' <=> g <= low + b BY DEF g, b
<1> QED BY <1>4, <1>5, <1>6, <1>7, <1>8 DEF h, a

(* The walk goes on: every foot moves on in its cycle. *)
LEMMA WalksOn ==
  ASSUME TypeOK, TypeOK', OnCourse, Iterate, StepTime
  PROVE  OnCourse'
<1> SUFFICES ASSUME NEW leg \in Legs
             PROVE  Follows(height[leg], LocalCycle(leg, Cycle(t, drift)), Abs(vt))'
  BY DEF OnCourse
<1> DEFINE c == LocalCycle(leg, Cycle(t, drift))
           d == LocalCycle(leg, Cycle(t', drift'))
           h == height[leg]
           g == height'[leg]
           f == FootHeight(leg, Cycle(t', drift'), vt')
           a == Abs(vt)
           b == Abs(vt')
<1>1. /\ t \in 0 .. 39 /\ t' = (t + 1) % 40 /\ drift \in {0, 1} /\ drift' \in {0, 1}
      /\ Cycle(t, drift) \in Int /\ Cycle(t', drift') \in Int
  <2>1. t \in 0 .. 39 /\ t' = (t + 1) % 40 /\ drift \in {0, 1} /\ drift' \in {0, 1}
    BY DEF TypeOK, Period, StepTime
  <2>2. Cycle(t, drift) \in Int /\ Cycle(t', drift') \in Int
    BY GaitHolds, CycleNow, CycleNext
  <2> QED BY <2>1, <2>2
<1>2. Between(c, 0, 5999) /\ Between(d, 0, 5999) BY <1>1, CycleRange
<1>3. /\ d < 140 => d <= 102 /\ c >= 1450
      /\ d >= 700 => c < d
      /\ d >= 850 => c >= 700
      /\ d >= 1000 => c >= 850
      /\ d >= 1150 => c >= 1000
      /\ d >= 1300 => c >= 1150
      /\ d >= 1450 => c >= 1300
  BY <1>1, CycleStep
<1>4. Between(h, 0, 400) /\ Between(g, 0, 400) /\ Between(f, 0, 400) /\ 2 * g <= h + f
  BY FootNext
<1>5. Swinging(leg, Cycle(t', drift')) <=> d < 1000 BY DEF Swinging, DUTY_CYCLE
<1>6. d < 1000 => f = (400 * Sine(d)) \div 100
  BY <1>5 DEF FootHeight, Lift, SWING_HEIGHT
<1>7. Between(a, 0, 150) /\ Between(b, 0, 150) /\ 9 * a <= 10 * b + 159 BY TurnNext
<1>8. Follows(h, c, a) BY DEF OnCourse
<1>9. ASSUME NEW low \in Nat, d >= 1000
      PROVE  /\ h <= 2 * low => g <= low + 2 * b
             /\ \A high \in Nat : high <= 2 * low - 36 /\ h <= high + 2 * a => g <= low + 2 * b
  <2>1. ~Swinging(leg, Cycle(t', drift')) BY <1>2, <1>5, <1>9 DEF Between
  <2>2. /\ Stood(leg, low)' <=> g <= low + 2 * b
        /\ \A high \in Nat : Stood(leg, high) <=> h <= high + 2 * a
    BY DEF Stood
  <2>3. h <= 2 * low => g <= low + 2 * b BY <2>1, <2>2, <1>9, Stands
  <2>4. ASSUME NEW high \in Nat, high <= 2 * low - 36, h <= high + 2 * a
        PROVE  g <= low + 2 * b
    BY <2>1, <2>2, <2>4, <1>9, Stands
  <2> QED BY <2>3, <2>4
<1>10. Follows(height[leg], LocalCycle(leg, Cycle(t, drift)), Abs(vt))' <=> Follows(g, d, b)
  BY DEF Follows
<1> HIDE DEF c, d, h, g, f, a, b
<1>11. d < 1000 => /\ d <= 102 => f <= 124
                   /\ d >= 700 => f <= 320
                   /\ d >= 850 => f <= 180
  <2> SUFFICES ASSUME d < 1000 PROVE /\ d <= 102 => f <= 124
                                     /\ d >= 700 => f <= 320
                                     /\ d >= 850 => f <= 180
    OBVIOUS
  <2>1. Between(d, 0, 999) BY <1>2 DEF Between
  <2> QED BY <1>6, <2>1, Lifts
<1>12. d < 140 => g <= 105 + 2 * b
  <2> SUFFICES ASSUME d < 140 PROVE g <= 105 + 2 * b
    OBVIOUS
  <2>1. h <= 50 + 2 * a BY <1>3, <1>8 DEF Follows
  <2>2. f <= 124 BY <1>2, <1>3, <1>11 DEF Between
  <2> QED BY <1>4, <1>7, <2>1, <2>2 DEF Between
<1>13. d >= 1000 =>
         /\ g <= 135 + 2 * b
         /\ d >= 1150 => g <= 86 + 2 * b
         /\ d >= 1300 => g <= 61 + 2 * b
         /\ d >= 1450 => g <= 50 + 2 * b
  <2> SUFFICES ASSUME d >= 1000
               PROVE  /\ g <= 135 + 2 * b
                      /\ d >= 1150 => g <= 86 + 2 * b
                      /\ d >= 1300 => g <= 61 + 2 * b
                      /\ d >= 1450 => g <= 50 + 2 * b
    OBVIOUS
  <2>1. g <= 135 + 2 * b
    <3>1. CASE c < 1000
      <4>1. h <= 2 * 135 BY <1>3, <1>8, <3>1 DEF Follows
      <4> QED BY <4>1, <1>9
    <3>2. CASE c >= 1000
      <4>1. h <= 135 + 2 * a BY <1>8, <3>2 DEF Follows
      <4>2. 135 <= 2 * 135 - 36 OBVIOUS
      <4> QED BY <4>1, <4>2, <1>9
    <3> QED BY <3>1, <3>2, <1>2 DEF Between
  <2>2. ASSUME d >= 1150 PROVE g <= 86 + 2 * b
    <3>1. h <= 135 + 2 * a BY <1>3, <1>8, <2>2 DEF Follows
    <3>2. 135 <= 2 * 86 - 36 OBVIOUS
    <3> QED BY <3>1, <3>2, <1>9
  <2>3. ASSUME d >= 1300 PROVE g <= 61 + 2 * b
    <3>1. h <= 86 + 2 * a BY <1>3, <1>8, <2>3 DEF Follows
    <3>2. 86 <= 2 * 61 - 36 OBVIOUS
    <3> QED BY <3>1, <3>2, <1>9
  <2>4. ASSUME d >= 1450 PROVE g <= 50 + 2 * b
    <3>1. h <= 61 + 2 * a BY <1>3, <1>8, <2>4 DEF Follows
    <3>2. 61 <= 2 * 50 - 36 OBVIOUS
    <3> QED BY <3>1, <3>2, <1>9
  <2> QED BY <2>1, <2>2, <2>3, <2>4
<1>14. d >= 700 /\ d < 1000 => g <= 360 BY <1>4, <1>11 DEF Between
<1>15. d >= 850 /\ d < 1000 => g <= 270
  <2> SUFFICES ASSUME d >= 850, d < 1000 PROVE g <= 270
    OBVIOUS
  <2>1. h <= 360 BY <1>2, <1>3, <1>8 DEF Follows, Between
  <2> QED BY <2>1, <1>4, <1>11 DEF Between
<1>16. d >= 1150 => d >= 1000 BY <1>2 DEF Between
<1>17. (d >= 1300 => d >= 1000) /\ (d >= 1450 => d >= 1000) BY <1>2 DEF Between
<1>18. Follows(g, d, b) BY <1>12, <1>13, <1>14, <1>15, <1>16, <1>17 DEF Follows
<1> QED BY <1>10, <1>18

(* A foot sinks to half its height when the walk is broken off. *)
LEMMA SinksToHalf ==
  ASSUME TypeOK, TypeOK', Iterate, t' = 0, drift' = 0, Abs(vt') <= 1, NEW leg \in Legs
  PROVE  Between(height[leg], 0, 400) /\ Between(height'[leg], 0, 400)
         /\ 2 * height'[leg] <= height[leg] + 1
<1>1. Between(height[leg], 0, 400) /\ Between(height'[leg], 0, 400)
  BY FootNext
<1> DEFINE f == FootHeight(leg, Cycle(t', drift'), vt')
           b == Abs(vt')
<1>2. 2 * height'[leg] <= height[leg] + f /\ f \in Int BY FootNext DEF Between
<1>3. f <= 1
  <2>1. Cycle(t', drift') = 0 BY DEF Cycle
  <2>2. CASE leg = "lf"
    <3>1. LocalCycle("lf", 0) = 0 BY DEF LocalCycle, WAVE_OFFSETS
    <3>2. Sine(0) = 0 BY DEF Sine
    <3>3. f = (400 * 0) \div 100
      BY <2>1, <2>2, <3>1, <3>2 DEF FootHeight, Swinging, DUTY_CYCLE, Lift, SWING_HEIGHT
    <3> QED BY <3>3
  <2>3. CASE leg # "lf"
    <3>1. ~Swinging(leg, Cycle(t', drift'))
      BY <2>1, <2>3 DEF Swinging, DUTY_CYCLE, LocalCycle, WAVE_OFFSETS, Legs
    <3>2. Between(vt', -150, 150) /\ Between(b, 0, 150) BY GaitHolds, CycleNext
    <3>3. 2 * f <= 3 * b BY <2>1, <3>1, <3>2, StandingHeight
    <3>4. b <= 1 OBVIOUS
    <3> HIDE DEF f, b
    <3> QED BY <1>2, <3>2, <3>3, <3>4 DEF Between
  <2> QED BY <2>2, <2>3
<1> HIDE DEF f
<1> QED BY <1>1, <1>2, <1>3 DEF Between

LEMMA BreaksOff ==
  ASSUME TypeOK, TypeOK', OnCourse \/ BrokenOff, Iterate,
         t' = 0, lap' = 0, drift' = 0, Abs(vt') <= 1
  PROVE  Broken'
<1>1. Abs(vt) \in Int /\ Abs(vt) <= 18
  <2> DEFINE a == Abs(vt)
             b == Abs(vt')
  <2>1. Between(a, 0, 150) /\ Between(b, 0, 150) /\ 9 * a <= 10 * b + 159 /\ b <= 1
    BY TurnNext
  <2> HIDE DEF a, b
  <2>2. a \in Int /\ a <= 18 BY <2>1 DEF Between
  <2> QED BY <2>2 DEF a
<1>2. ASSUME NEW leg \in Legs
      PROVE  /\ height'[leg] <= 200
             /\ height[leg] <= 105 + 2 * Abs(vt) => height'[leg] <= 100
             /\ height[leg] <= 100 => height'[leg] <= 100
             /\ Stood(leg, 50) => height'[leg] <= 50
             /\ height[leg] <= 50 => height'[leg] <= 50
  <2> DEFINE h == height[leg]
             g == height'[leg]
             a == Abs(vt)
  <2>1. Between(h, 0, 400) /\ Between(g, 0, 400) /\ 2 * g <= h + 1 BY SinksToHalf
  <2>2. Stood(leg, 50) <=> h <= 50 + 2 * a BY DEF Stood
  <2>3. a \in Int /\ a <= 18 BY <1>1
  <2> HIDE DEF h, g, a
  <2>4. /\ g <= 200 /\ (h <= 105 + 2 * a => g <= 100) /\ (h <= 100 => g <= 100)
        /\ (h <= 50 + 2 * a => g <= 50) /\ (h <= 50 => g <= 50)
    BY <2>1, <2>3 DEF Between
  <2> QED BY <2>2, <2>4 DEF g, h, a
<1>3. ASSUME NEW x \in Legs, NEW y \in Legs, y = "lf" \/ height'[y] <= 100,
             \A leg \in Legs \ {x, y} : height'[leg] <= 50
      PROVE  Broken'
  BY <1>2, <1>3 DEF Broken
<1>4. CASE OnCourse
  <2>1. t \in 0 .. 39 /\ drift \in {0, 1} BY DEF TypeOK, Period
  <2> DEFINE C(leg) == LocalCycle(leg, Cycle(t, drift))
  <2>2. PICK a \in Legs, b \in Legs : HandOver(a, b, Cycle(t, drift)) BY <2>1, Neighbours
  <2>3. /\ C(b) < 1150 => C(a) < 140 \/ C(a) >= 1450
        /\ \A leg \in Legs \ {a, b} : C(leg) >= 1450
    BY <2>2 DEF HandOver
  <2>4. \A leg \in Legs : C(leg) \in Int /\ Follows(height[leg], C(leg), Abs(vt))
    BY <1>4, <2>1, CycleRange, CycleInt DEF OnCourse, Between
  <2> HIDE DEF C
  <2>5. \A leg \in Legs : C(leg) >= 1450 => height'[leg] <= 50
    BY <1>2, <2>4 DEF Follows, Stood
  <2>6. \A leg \in Legs \ {a, b} : height'[leg] <= 50 BY <2>5, <2>3
  <2>7. CASE C(b) >= 1150
    <3>1. height[b] <= 105 + 2 * Abs(vt)
      <4>1. height[b] <= 86 + 2 * Abs(vt) BY <2>4, <2>7 DEF Follows
      <4>2. height[b] \in Int BY Heights DEF Between
      <4> QED BY <1>1, <4>1, <4>2
    <3>2. height'[b] <= 100 BY <1>2, <3>1
    <3> QED BY <1>3, <2>6, <3>2
  <2>8. CASE ~(C(b) >= 1150)
    <3>1. C(a) < 140 \/ C(a) >= 1450 BY <2>4, <2>8, <2>3
    <3>2. height[a] <= 105 + 2 * Abs(vt)
      <4>1. CASE C(a) < 140 BY <2>4, <4>1 DEF Follows
      <4>2. CASE C(a) >= 1450
        <5>1. height[a] <= 50 + 2 * Abs(vt) BY <2>4, <4>2 DEF Follows
        <5>2. height[a] \in Int BY Heights DEF Between
        <5> QED BY <1>1, <5>1, <5>2
      <4> QED BY <3>1, <4>1, <4>2
    <3>3. height'[a] <= 100 BY <1>2, <3>2
    <3>4. \A leg \in Legs \ {b, a} : height'[leg] <= 50 BY <2>6
    <3> QED BY <1>3, <3>3, <3>4
  <2> QED BY <2>7, <2>8
<1>5. CASE Broken
  <2>1. PICK x \in Legs, y \in Legs :
          /\ height[x] <= 200 /\ (y = "lf" \/ height[y] <= 100)
          /\ \A leg \in Legs \ {x, y} : height[leg] <= 50
    BY <1>5 DEF Broken
  <2>2. y = "lf" \/ height'[y] <= 100 BY <1>2, <2>1
  <2>3. \A leg \in Legs \ {x, y} : height'[leg] <= 50 BY <1>2, <2>1
  <2> QED BY <1>3, <2>2, <2>3
<1>6. ASSUME NEW n, NEW high, NEW turn, Restarted(n, high, turn) PROVE Broken'
  <2>1. PICK x \in Legs : \A leg \in Legs \ {x, "lf"} : Stood(leg, 50)
    BY <1>6 DEF Restarted
  <2>2. \A leg \in Legs \ {x, "lf"} : height'[leg] <= 50 BY <1>2, <2>1
  <2>3. "lf" \in Legs BY DEF Legs
  <2> QED BY <1>3, <2>2, <2>3
<1> QED BY <1>4, <1>5, <1>6 DEF BrokenOff

LEMMA OthersStand ==
  ASSUME TypeOK', t' \in 1 .. 3, NEW leg \in Legs \ {"lf"}
  PROVE  ~Swinging(leg, Cycle(t', drift'))
<1>1. drift' \in {0, 1} /\ t' \in 0 .. 39 /\ t' \notin {0, 20} BY DEF TypeOK
<1> QED BY <1>1, Swings DEF Legs

(* The walk starts again: all but the left front foot stand and sink. *)
LEMMA StartsAgain ==
  ASSUME TypeOK, TypeOK', Iterate, t' \in 2 .. 3, NEW leg \in Legs \ {"lf"}
  PROVE  /\ Stood(leg, 50) => Stood(leg, 50)'
         /\ Stood(leg, 59) => Stood(leg, 50)'
         /\ height[leg] <= 100 + Abs(vt) => Stood(leg, 59)'
<1>1. ~Swinging(leg, Cycle(t', drift'))
  <2>1. t' \in 1 .. 3 OBVIOUS
  <2> QED BY <2>1, OthersStand
<1>2. 50 \in Nat /\ 50 <= 2 * 50 - 36 /\ 59 \in Nat /\ 59 <= 2 * 50 - 36 OBVIOUS
<1>3. 100 \in Nat /\ 100 <= 2 * 59 - 18 OBVIOUS
<1>4. Stood(leg, 50) => Stood(leg, 50)' BY <1>1, <1>2, Stands
<1>5. Stood(leg, 59) => Stood(leg, 50)' BY <1>1, <1>2, Stands
<1>6. height[leg] <= 100 + Abs(vt) => Stood(leg, 59)' BY <1>1, <1>2, <1>3, Stands
<1> QED BY <1>4, <1>5, <1>6

(* In three iterations the feet that were up have come down. *)
LEMMA BrokenStep ==
  ASSUME TypeOK, TypeOK', Iterate, BrokenOff, StepTime
  PROVE  (OnCourse \/ BrokenOff)'
<1>1. t' = (t + 1) % 40 /\ lap' = IF t' = 0 THEN 1 ELSE lap BY DEF StepTime, Period
<1>2. CASE Broken
  <2>1. t' = 1 /\ lap' = 0 BY <1>1, <1>2 DEF Broken
  <2>2. PICK x \in Legs, y \in Legs :
           /\ height[x] <= 200 /\ (y = "lf" \/ height[y] <= 100)
           /\ \A leg \in Legs \ {x, y} : height[leg] <= 50
    BY <1>2 DEF Broken
  <2>3. ASSUME NEW leg \in Legs \ {"lf"}
        PROVE  /\ height[leg] <= 200 => (height[leg] <= 100 + Abs(vt))'
               /\ height[leg] <= 100 => Stood(leg, 50)'
    <3>1. ~Swinging(leg, Cycle(t', drift')) BY <2>1, OthersStand
    <3>2. height[leg] <= 2 * 100 => (height[leg] <= 100 + Abs(vt))'
      BY <3>1, Stands, 100 \in Nat
    <3>3. height[leg] <= 2 * 50 => Stood(leg, 50)' BY <3>1, Stands, 50 \in Nat
    <3> QED BY <3>2, <3>3
  <2>4. x = "lf" \/ (height[x] <= 100 + Abs(vt))' BY <2>2, <2>3
  <2>5. ASSUME NEW leg \in Legs \ {x, "lf"} PROVE Stood(leg, 50)'
    <3>1. height[leg] <= 100
      <4>1. CASE leg = y BY <2>2, <4>1
      <4>2. CASE leg # y
        <5>1. height[leg] <= 50 BY <2>2, <4>2
        <5>2. height[leg] \in Int BY Heights DEF Between
        <5> QED BY <5>1, <5>2
      <4> QED BY <4>1, <4>2
    <3> QED BY <2>3, <3>1
  <2>6. (height[x] <= 100 + Abs(vt))' => (height[x] <= 100 + 1 * Abs(vt))'
    <3>1. Between(Abs(vt'), 0, 150) BY TurnNext
    <3>2. 1 * Abs(vt') = Abs(vt') BY <3>1 DEF Between
    <3> QED BY <3>2
  <2>7. Restarted(1, 100, 1)' BY <2>1, <2>4, <2>5, <2>6 DEF Restarted
  <2> QED BY <2>7 DEF BrokenOff
<1>3. CASE Restarted(1, 100, 1)
  <2>1. t' = 2 /\ lap' = 0 BY <1>1, <1>3 DEF Restarted
  <2>2. PICK x \in Legs : /\ (x = "lf" \/ height[x] <= 100 + 1 * Abs(vt))
                          /\ \A leg \in Legs \ {x, "lf"} : Stood(leg, 50)
    BY <1>3 DEF Restarted
  <2>3. x = "lf" \/ height[x] <= 100 + Abs(vt)
    <3>1. Between(Abs(vt), 0, 150) BY TurnNext
    <3>2. 1 * Abs(vt) = Abs(vt) BY <3>1 DEF Between
    <3> QED BY <2>2, <3>2
  <2>4. t' \in 2 .. 3 BY <2>1
  <2>5. x = "lf" \/ Stood(x, 59)' BY <2>3, <2>4, StartsAgain
  <2>6. \A leg \in Legs \ {x, "lf"} : Stood(leg, 50)' BY <2>2, <2>4, StartsAgain
  <2>7. Restarted(2, 59, 2)' BY <2>1, <2>5, <2>6 DEF Restarted, Stood
  <2> QED BY <2>7 DEF BrokenOff
<1>4. CASE Restarted(2, 59, 2)
  <2>1. t' = 3 BY <1>1, <1>4 DEF Restarted
  <2>2. PICK x \in Legs : /\ (x = "lf" \/ Stood(x, 59))
                          /\ \A leg \in Legs \ {x, "lf"} : Stood(leg, 50)
    BY <1>4 DEF Restarted, Stood
  <2>3. \A leg \in Legs \ {"lf"} : height'[leg] <= 50 + 2 * Abs(vt')
    <3>1. t' \in 2 .. 3 BY <2>1
    <3>2. \A leg \in Legs \ {"lf"} : Stood(leg, 50)' BY <2>2, <3>1, StartsAgain
    <3> QED BY <3>2 DEF Stood
  <2>4. ASSUME NEW leg \in Legs
        PROVE  Follows(height[leg], LocalCycle(leg, Cycle(t, drift)), Abs(vt))'
    <3> DEFINE g == height'[leg]
               b == Abs(vt')
               d == LocalCycle(leg, Cycle(t', drift'))
    <3>1. Between(g, 0, 400) /\ Between(b, 0, 150) BY FootNext, TurnNext
    <3>2. Follows(height[leg], LocalCycle(leg, Cycle(t, drift)), Abs(vt))' <=> Follows(g, d, b)
      BY DEF Follows
    <3>3. CASE leg = "lf"
      <4>1. drift' \in {0, 1} BY DEF TypeOK
      <4>2. d \in Int /\ d >= 140 /\ d < 700
        <5>1. d = (150 * 3 - drift' - WAVE_OFFSETS["lf"]) % 6000
          BY <2>1, <3>3, <4>1, Places DEF Legs
        <5>2. WAVE_OFFSETS["lf"] = 0 BY DEF WAVE_OFFSETS
        <5>3. d = 450 \/ d = 449
          <6>1. CASE drift' = 0
            <7>1. d = (150 * 3 - 0 - 0) % 6000 BY <5>1, <5>2, <6>1
            <7>2. (150 * 3 - 0 - 0) % 6000 = 450 OBVIOUS
            <7> QED BY <7>1, <7>2
          <6>2. CASE drift' = 1
            <7>1. d = (150 * 3 - 1 - 0) % 6000 BY <5>1, <5>2, <6>2
            <7>2. (150 * 3 - 1 - 0) % 6000 = 449 OBVIOUS
            <7> QED BY <7>1, <7>2
          <6> QED BY <4>1, <6>1, <6>2
        <5>4. /\ 450 \in Int /\ 450 >= 140 /\ 450 < 700
              /\ 449 \in Int /\ 449 >= 140 /\ 449 < 700
          OBVIOUS
        <5> HIDE DEF d
        <5> QED BY <5>3, <5>4
      <4> HIDE DEF d, g, b
      <4>3. Follows(g, d, b) BY <4>2 DEF Follows
      <4> QED BY <3>2, <4>3
    <3>4. CASE leg # "lf"
      <4>1. g <= 50 + 2 * b BY <2>3, <3>4
      <4>2. ~(d < 1000)
        <5>1. ~Swinging(leg, Cycle(t', drift')) BY <2>1, <3>4, OthersStand
        <5> QED BY <5>1 DEF Swinging, DUTY_CYCLE
      <4> HIDE DEF d, g, b
      <4>3. g <= 105 + 2 * b /\ g <= 135 + 2 * b /\ g <= 86 + 2 * b /\ g <= 61 + 2 * b
        BY <3>1, <4>1 DEF Between
      <4>4. Follows(g, d, b) BY <4>1, <4>2, <4>3 DEF Follows
      <4> QED BY <3>2, <4>4
    <3> QED BY <3>3, <3>4
  <2> QED BY <2>4 DEF OnCourse
<1> QED BY <1>2, <1>3, <1>4 DEF BrokenOff

LEMMA StrideStart == Init => StrideInv
<1> SUFFICES ASSUME Init PROVE StrideInv
  OBVIOUS
<1>1. \A leg \in Legs : height[leg] = 0 BY DEF Init
<1>2. Abs(vt) = 0 BY DEF Init, Abs
<1>3. OnCourse BY <1>1, <1>2 DEF OnCourse, Follows
<1> QED BY <1>3, TypesStart DEF StrideInv

LEMMA StrideStep ==
  ASSUME StrideInv, [Next]_vars
  PROVE  StrideInv'
<1>1. TypeOK /\ TypeOK' /\ (OnCourse \/ BrokenOff) BY TypesStep DEF StrideInv
<1>2. CASE Iterate
  <2>1. CASE Moves(vx', vt')
    <3>1. StepTime BY <1>2, <2>1 DEF Iterate, NextTime
    <3>2. OnCourse => OnCourse' BY <1>1, <1>2, <3>1, WalksOn
    <3>3. BrokenOff => (OnCourse \/ BrokenOff)' BY <1>1, <1>2, <3>1, BrokenStep
    <3> QED BY <1>1, <3>2, <3>3 DEF StrideInv
  <2>2. CASE ~Moves(vx', vt')
    <3>1. t' = 0 /\ lap' = 0 /\ drift' = 0 BY <1>2, <2>2 DEF Iterate, NextTime
    <3>2. Abs(vt') <= 1
      <4> DEFINE b == Abs(vt')
      <4>1. Between(b, 0, 150) BY <1>1, <1>2, TurnNext
      <4>2. ~(b > 1) BY <2>2 DEF Moves
      <4> HIDE DEF b
      <4>3. b <= 1 BY <4>1, <4>2 DEF Between
      <4> QED BY <4>3 DEF b
    <3>3. Broken' BY <1>1, <1>2, <3>1, <3>2, BreaksOff
    <3> QED BY <1>1, <3>3 DEF StrideInv, BrokenOff
  <2> QED BY <2>1, <2>2
<1>3. ASSUME NEW msg \in Inputs, cmd_cb(msg) PROVE StrideInv'
  <2>1. UNCHANGED <<t, lap, drift, vt, height>> BY <1>3 DEF cmd_cb
  <2>2. OnCourse => OnCourse' BY <2>1 DEF OnCourse, Follows
  <2>3. BrokenOff => BrokenOff' BY <2>1 DEF BrokenOff, Broken, Restarted, Stood
  <2> QED BY <1>1, <2>2, <2>3 DEF StrideInv
<1>4. CASE UNCHANGED vars
  <2>1. OnCourse => OnCourse' BY <1>4 DEF vars, OnCourse, Follows
  <2>2. BrokenOff => BrokenOff' BY <1>4 DEF vars, BrokenOff, Broken, Restarted, Stood
  <2> QED BY <1>1, <2>1, <2>2 DEF StrideInv
<1> QED BY <1>2, <1>3, <1>4 DEF Next

(* At most two feet are in the air, and on different sides but for the first   *)
(* three iterations after the gait's time was reset, whatever Twists arrive   *)
(* and however the time is rounded (loop, lines 290 to 302).                 *)
THEOREM SidesAlternate == Spec => []NeverTwoOfASide
<1>1. StrideInv => NeverTwoOfASide
  <2> SUFFICES ASSUME StrideInv PROVE NeverTwoOfASide
    OBVIOUS
  <2>1. TypeOK /\ t \in 0 .. 39 /\ drift \in {0, 1} BY DEF StrideInv, TypeOK, Period
  <2>2. ASSUME NEW x, NEW y, \A leg \in Legs \ {x, y} : Stood(leg, 50)
        PROVE  Airborne \subseteq {x, y}
    <3> SUFFICES ASSUME NEW leg \in Legs \ {x, y}
                 PROVE  ~(height[leg] > Clearance + 2 * Abs(vt))
      BY DEF Airborne
    <3> DEFINE h == height[leg]
               a == Abs(vt)
    <3>1. Between(h, 0, 400) /\ Between(a, 0, 150) BY <2>1, Heights, Turns
    <3>2. h <= 50 + 2 * a BY <2>2 DEF Stood
    <3> HIDE DEF h, a
    <3>3. ~(h > 50 + 2 * a) BY <3>1, <3>2 DEF Between
    <3> QED BY <3>3 DEF Clearance, h, a
  <2>3. ASSUME NEW S, NEW x, NEW y, S \subseteq {x, y} PROVE Cardinality(S) <= 2
    <3>1. IsFiniteSet({x, y}) /\ Cardinality({x, y}) <= 2
      <4>1. IsFiniteSet({x}) /\ Cardinality({x}) = 1 BY FS_Singleton
      <4>2. {x, y} = {x} \cup {y} OBVIOUS
      <4>3. /\ IsFiniteSet({x} \cup {y})
            /\ Cardinality({x} \cup {y}) = IF y \in {x} THEN Cardinality({x}) ELSE Cardinality({x}) + 1
        BY <4>1, FS_AddElement
      <4> QED BY <4>1, <4>2, <4>3
    <3>2. Cardinality(S) <= Cardinality({x, y}) /\ IsFiniteSet(S) BY <2>3, <3>1, FS_Subset
    <3>3. Cardinality(S) \in Nat /\ Cardinality({x, y}) \in Nat BY <3>1, <3>2, FS_CardinalityType
    <3> QED BY <3>1, <3>2, <3>3
  <2>4. ASSUME NEW S, NEW x, S \subseteq {x} PROVE Cardinality(S) <= 1
    <3>1. S = {} \/ S = {x} BY <2>4
    <3>2. Cardinality({}) = 0 BY FS_EmptySet
    <3>3. Cardinality({x}) = 1 BY FS_Singleton
    <3> QED BY <3>1, <3>2, <3>3
  <2>5. CASE OnCourse
    <3>1. PICK a \in Legs, b \in Legs : HandOver(a, b, Cycle(t, drift)) BY <2>1, Neighbours
    <3>2. Airborne \subseteq {a, b}
      <4>1. \A leg \in Legs \ {a, b} : Stood(leg, 50)
        BY <2>5, <3>1 DEF OnCourse, Follows, Stood, HandOver
      <4> QED BY <2>2, <4>1
    <3>3. \/ Airborne \cap Left \subseteq {a} /\ Airborne \cap Right \subseteq {b}
          \/ Airborne \cap Left \subseteq {b} /\ Airborne \cap Right \subseteq {a}
      BY <3>1, <3>2 DEF HandOver, Opposite, Right
    <3>4. Cardinality(Airborne \cap Left) <= 1 /\ Cardinality(Airborne \cap Right) <= 1
      BY <2>4, <3>3
    <3>5. Cardinality(Airborne) <= 2 BY <2>3, <3>2
    <3> QED BY <3>4, <3>5 DEF NeverTwoOfASide
  <2>6. CASE BrokenOff
    <3>1. \E x \in Legs, y \in Legs : \A leg \in Legs \ {x, y} : Stood(leg, 50)
      <4>1. "lf" \in Legs BY DEF Legs
      <4>2. CASE Broken
        <5>1. PICK x \in Legs, y \in Legs : \A leg \in Legs \ {x, y} : height[leg] <= 50
          BY <4>2 DEF Broken
        <5>2. ASSUME NEW leg \in Legs \ {x, y} PROVE Stood(leg, 50)
          <6> DEFINE h == height[leg]
                     a == Abs(vt)
          <6>1. Between(h, 0, 400) /\ Between(a, 0, 150) BY <2>1, Heights, Turns
          <6>2. h <= 50 BY <5>1
          <6> HIDE DEF h, a
          <6>3. h <= 50 + 2 * a BY <6>1, <6>2 DEF Between
          <6> QED BY <6>3 DEF Stood, h, a
        <5> QED BY <5>2
      <4>3. ASSUME NEW n, NEW high, NEW turn, Restarted(n, high, turn)
            PROVE  \E x \in Legs, y \in Legs : \A leg \in Legs \ {x, y} : Stood(leg, 50)
        BY <4>1, <4>3 DEF Restarted
      <4> QED BY <2>6, <4>2, <4>3 DEF BrokenOff
    <3>2. Cardinality(Airborne) <= 2
      <4>1. PICK x \in Legs, y \in Legs : \A leg \in Legs \ {x, y} : Stood(leg, 50) BY <3>1
      <4>2. Airborne \subseteq {x, y} BY <2>2, <4>1
      <4> QED BY <2>3, <4>2
    <3>3. t <= 2 /\ lap = 0 BY <2>6 DEF BrokenOff, Broken, Restarted
    <3> QED BY <2>1, <3>2, <3>3 DEF NeverTwoOfASide
  <2> QED BY <2>5, <2>6 DEF StrideInv
<1>2. StrideInv /\ [Next]_vars => StrideInv' BY StrideStep
<1> QED BY <1>1, <1>2, StrideStart, PTL DEF Spec

-----------------------------------------------------------------------------
(* How a walk comes to its end, iteration by iteration.                      *)

(* A filtered velocity that is not what it should be comes closer, and does  *)
(* not pass it.                                                              *)
Nearer(v, now, goal) ==
  \/ v = goal /\ now = goal
  \/ v < goal /\ v < now /\ now <= goal
  \/ v > goal /\ v > now /\ now >= goal

LEMMA TowardsNears ==
  ASSUME NEW v \in Int, NEW goal \in Int PROVE Nearer(v, Towards(v, goal), goal)
<1>1. CASE goal > v
  <2>1. (goal - v + 9) \div 10 \in Int /\ 1 <= (goal - v + 9) \div 10
        /\ (goal - v + 9) \div 10 <= goal - v
    BY <1>1
  <2> QED BY <1>1, <2>1 DEF Towards, Nearer
<1>2. CASE goal < v
  <2>1. (v - goal + 9) \div 10 \in Int /\ 1 <= (v - goal + 9) \div 10
        /\ (v - goal + 9) \div 10 <= v - goal
    BY <1>2
  <2> QED BY <1>2, <2>1 DEF Towards, Nearer
<1>3. CASE goal = v
  <2>1. (v - goal + 9) \div 10 = 0 BY <1>3
  <2> QED BY <1>3, <2>1 DEF Towards, Nearer
<1> QED BY <1>1, <1>2, <1>3

(* At the start of the cycle a robot that does not turn asks its feet down.  *)
LEMMA NoFootAsked == ASSUME NEW leg \in Legs PROVE FootHeight(leg, 0, 0) = 0
<1>1. CASE leg = "lf"
  <2>1. LocalCycle(leg, 0) = 0 BY <1>1 DEF LocalCycle, WAVE_OFFSETS
  <2>2. Sine(0) = 0 BY DEF Sine
  <2>3. Lift(leg, 0) = 0 BY <2>1, <2>2 DEF Lift, SWING_HEIGHT
  <2> QED BY <2>1, <2>3 DEF FootHeight, Swinging, DUTY_CYCLE
<1>2. CASE leg # "lf"
  <2>1. ~Swinging(leg, 0)
    BY <1>2 DEF Swinging, DUTY_CYCLE, LocalCycle, WAVE_OFFSETS, Legs
  <2>2. Abs(0) = 0 BY DEF Abs
  <2>3. Between(Sweep(leg, 0), 0, 100)
    <3>1. Between(LocalCycle(leg, 0), 1000, 5999)
      BY <2>1, CycleRange DEF Swinging, DUTY_CYCLE, Between
    <3>2. Between(Abs(500 - (LocalCycle(leg, 0) - 1000) \div 5), 0, 1000) BY <3>1, SweepRange
    <3> QED BY <3>2, SineRange DEF Sweep, DUTY_CYCLE
  <2>4. (TURN_LIFT * Abs(0) * Sweep(leg, 0)) \div 10000 = 0
    <3>1. Sweep(leg, 0) \in Int BY <2>3 DEF Between
    <3>2. TURN_LIFT * Abs(0) * Sweep(leg, 0) = 0 BY <2>2, <3>1 DEF TURN_LIFT
    <3> QED BY <3>2
  <2> QED BY <2>1, <2>4 DEF FootHeight
<1> QED BY <1>1, <1>2

(* Every iteration of the loop brings the velocities closer to the last Twist, *)
(* never past it, until they are what it asks for; and once the robot is     *)
(* told to stand and has stopped, every iteration restarts the cycle and     *)
(* halves the height of every foot (loop, lines 286 to 302).  A walk that is *)
(* broken off ends after a bounded number of iterations.                     *)
THEOREM WalkSettles ==
  ASSUME TypeOK, Iterate
  PROVE  /\ Nearer(vx, vx', target_vx) /\ Nearer(vt, vt', target_vt)
         /\ target_vx = 0 /\ target_vt = 0 /\ vx = 0 /\ vt = 0 =>
              /\ vx' = 0 /\ vt' = 0 /\ t' = 0
              /\ \A leg \in Legs : 2 * height'[leg] <= height[leg]
<1>1. Nearer(vx, vx', target_vx) /\ Nearer(vt, vt', target_vt)
  <2>1. vx \in Int /\ vt \in Int /\ target_vx \in Int /\ target_vt \in Int BY DEF TypeOK
  <2>2. vx' = Towards(vx, target_vx) /\ vt' = Towards(vt, target_vt) BY DEF Iterate
  <2> QED BY <2>1, <2>2, TowardsNears
<1>2. ASSUME target_vx = 0, target_vt = 0, vx = 0, vt = 0
      PROVE  /\ vx' = 0 /\ vt' = 0 /\ t' = 0
             /\ \A leg \in Legs : 2 * height'[leg] <= height[leg]
  <2>1. vx' = 0 /\ vt' = 0
    BY <1>1, <1>2 DEF Nearer
  <2>2. t' = 0 /\ drift' = 0
    <3>1. ~Moves(0, 0) BY DEF Moves, Abs
    <3> QED BY <2>1, <3>1 DEF Iterate, NextTime
  <2>3. ASSUME NEW leg \in Legs PROVE 2 * height'[leg] <= height[leg]
    <3>1. height'[leg] = HalfWay(height[leg], FootHeight(leg, Cycle(t', drift'), vt'))
      BY DEF Iterate
    <3>2. FootHeight(leg, Cycle(t', drift'), vt') = 0
      <4>1. Cycle(t', drift') = 0 BY <2>2 DEF Cycle
      <4> QED BY <2>1, <4>1, NoFootAsked
    <3>3. height[leg] \in Int BY Heights DEF Between
    <3> QED BY <3>1, <3>2, <3>3 DEF HalfWay
  <2> QED BY <2>1, <2>2, <2>3
<1> QED BY <1>1, <1>2
=============================================================================
