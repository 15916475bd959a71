------------------------- MODULE SpiderDriveProofs -------------------------
(***************************************************************************)
(* Proofs about SpiderDrive, for all durations, faults and stops.          *)
(*                                                                         *)
(* The bridge keeps no account of the line.  What keeps the line from      *)
(* filling is that the packet being sent always ends before the sleep, or  *)
(* the interval of the rate limit, that comes before the next write.       *)
(*                                                                         *)
(* What keeps the robot gentle both ways is that a packet finds the servo  *)
(* at its last goal and asks for no more than the curves do in the time it *)
(* is given.  For the rise that bounds the last goal from below by what    *)
(* the engine had reached at the last write, elapsed - since, a difference *)
(* no correction of the wall clock changes; for the descent it bounds it   *)
(* from above by the pose of sit_down at that write.                       *)
(***************************************************************************)
EXTENDS SpiderDrive, SequenceTheorems, TLAPS

OnLine(level, time, rest) == [goal |-> level, time |-> time, left |-> rest]

(* Nothing is on the line, or one packet that leaves it in n ticks at most. *)
FreeIn(n) ==
  \/ line = <<>>
  \/ \E level, time : \E k \in 1 .. n : line = <<OnLine(level, time, k)>>

TwoOnLine ==
  \E l1, t1, l2, t2 : \E k1 \in 1 .. FRAME, k2 \in 1 .. FRAME :
    line = <<OnLine(l1, t1, k1), OnLine(l2, t2, k2)>>

LineInv ==
  /\ wait \in Nat /\ since \in Int
  /\ bridge \in {"down", "boot", "center", "ready", "closed"}
  /\ bridge \in {"down", "boot", "center"} => FreeIn(wait)
  /\ bridge = "ready" => FreeIn(FRAME - since)
  /\ FreeIn(FRAME) \/ (bridge = "closed" /\ TwoOnLine)

LEMMA Durations ==
  /\ FRAME \in Nat \ {0} /\ THROTTLE \in Nat /\ CENTER \in Nat
  /\ STARTUP \in Nat /\ RESPAWN \in Nat
  /\ FRAME <= THROTTLE /\ FRAME <= CENTER /\ FRAME <= STARTUP /\ FRAME <= RESPAWN
BY DriveAssumption, LineAssumption

LEMMA LineStart == Init => LineInv
BY DriveAssumption DEF Init, LineInv, FreeIn

(* What the operators on sequences make of a line of one or two packets. *)
LEMMA OneSent ==
  ASSUME NEW level, NEW time, NEW k \in Int
  PROVE  LET s == <<OnLine(level, time, k)>>
         IN /\ s # <<>> /\ Len(s) = 1 /\ Head(s).left = k /\ Tail(s) = <<>>
            /\ [s EXCEPT ![1].left = @ - 1] = <<OnLine(level, time, k - 1)>>
BY DEF OnLine

LEMMA TwoSent ==
  ASSUME NEW l1, NEW t1, NEW k1 \in Int, NEW l2, NEW t2, NEW k2 \in Int
  PROVE  LET s == <<OnLine(l1, t1, k1), OnLine(l2, t2, k2)>>
         IN /\ s # <<>> /\ Len(s) = 2 /\ Head(s).left = k1
            /\ Tail(s) = <<OnLine(l2, t2, k2)>>
            /\ [s EXCEPT ![1].left = @ - 1]
                 = <<OnLine(l1, t1, k1 - 1), OnLine(l2, t2, k2)>>
BY DEF OnLine

LEMMA Appended ==
  ASSUME NEW a, NEW b
  PROVE  Append(<<>>, a) = <<a>> /\ Append(<<a>>, b) = <<a, b>>
<1> DEFINE S == {a, b}
<1>1. <<>> \in Seq(S) /\ <<a>> \in Seq(S) /\ <<a, b>> \in Seq(S) /\ a \in S /\ b \in S
  OBVIOUS
<1>2. Append(<<>>, a) = <<a>>
  <2>1. /\ Append(<<>>, a) \in Seq(S) /\ Len(Append(<<>>, a)) = 1
        /\ Append(<<>>, a)[1] = a
    BY <1>1, AppendProperties
  <2> QED BY <1>1, <2>1, SeqEqual
<1>3. Append(<<a>>, b) = <<a, b>>
  <2>1. /\ Append(<<a>>, b) \in Seq(S) /\ Len(Append(<<a>>, b)) = 2
        /\ Append(<<a>>, b)[1] = a /\ Append(<<a>>, b)[2] = b
    BY <1>1, AppendProperties
  <2>2. /\ Len(<<a, b>>) = 2
        /\ \A n \in 1 .. 2 : Append(<<a>>, b)[n] = <<a, b>>[n]
    BY <2>1
  <2> QED BY <1>1, <2>1, <2>2, SeqEqual
<1> QED BY <1>2, <1>3

LEMMA FreeStays ==
  ASSUME NEW n \in Int, NEW m \in Int, n <= m, FreeIn(n), line' = line
  PROVE  FreeIn(m)'
BY DEF FreeIn

LEMMA FreeLonger ==
  ASSUME NEW n \in Int, NEW m \in Int, n <= m, FreeIn(n)'
  PROVE  FreeIn(m)'
BY DEF FreeIn

-----------------------------------------------------------------------------
(* A write adds one packet, or none when it fails. *)
LEMMA WriteOnFree ==
  ASSUME NEW level, NEW time, line = <<>>, Write(level, time)
  PROVE  FreeIn(FRAME)'
<1>1. CASE line' = Append(line, Packet(level, time))
  <2>1. line' = <<OnLine(level, time, FRAME)>>
    BY <1>1, Appended DEF Packet, OnLine
  <2> QED BY <2>1, Durations DEF FreeIn
<1>2. CASE line' = line BY <1>2 DEF FreeIn
<1> QED BY <1>1, <1>2 DEF Write

LEMMA WriteOnOne ==
  ASSUME NEW level, NEW time, FreeIn(FRAME), Write(level, time)
  PROVE  FreeIn(FRAME)' \/ TwoOnLine'
<1>1. CASE line = <<>> BY <1>1, WriteOnFree
<1>2. CASE line' = line BY <1>2 DEF FreeIn
<1>3. CASE line # <<>> /\ line' = Append(line, Packet(level, time))
  <2>1. PICK l1, t1 : \E k \in 1 .. FRAME : line = <<OnLine(l1, t1, k)>>
    BY <1>3 DEF FreeIn
  <2>2. PICK k1 \in 1 .. FRAME : line = <<OnLine(l1, t1, k1)>> BY <2>1
  <2>3. line' = <<OnLine(l1, t1, k1), OnLine(level, time, FRAME)>>
    BY <1>3, <2>2, Appended DEF Packet, OnLine
  <2> QED BY <2>3, Durations DEF TwoOnLine
<1> QED BY <1>1, <1>2, <1>3 DEF Write

LEMMA TickLine ==
  ASSUME line # <<>>, Tick
  PROVE  line' = IF Head(line).left = 1 THEN Tail(line)
                 ELSE [line EXCEPT ![1].left = @ - 1]
BY DEF Tick

(* A tick brings the packet being sent nearer to its end. *)
LEMMA TickOne ==
  ASSUME NEW n \in Int, FreeIn(n), Tick
  PROVE  FreeIn(n - 1)'
<1>1. CASE line = <<>> BY <1>1 DEF Tick, FreeIn
<1>2. CASE line # <<>>
  <2>1. PICK l, t : \E k \in 1 .. n : line = <<OnLine(l, t, k)>> BY <1>2 DEF FreeIn
  <2>2. PICK k \in 1 .. n : line = <<OnLine(l, t, k)>> BY <2>1
  <2>3. line' = IF k = 1 THEN <<>> ELSE <<OnLine(l, t, k - 1)>>
    <3>1. /\ Head(line).left = k /\ Tail(line) = <<>>
          /\ [line EXCEPT ![1].left = @ - 1] = <<OnLine(l, t, k - 1)>>
      BY <2>2, OneSent
    <3> QED BY <1>2, <3>1, TickLine
  <2> QED BY <2>3 DEF FreeIn
<1> QED BY <1>1, <1>2

LEMMA TickTwo ==
  ASSUME TwoOnLine, Tick
  PROVE  FreeIn(FRAME)' \/ TwoOnLine'
<1>1. PICK l1, t1, l2, t2 : \E k1 \in 1 .. FRAME, k2 \in 1 .. FRAME :
        line = <<OnLine(l1, t1, k1), OnLine(l2, t2, k2)>>
  BY DEF TwoOnLine
<1>2. PICK k1 \in 1 .. FRAME, k2 \in 1 .. FRAME :
        line = <<OnLine(l1, t1, k1), OnLine(l2, t2, k2)>>
  BY <1>1
<1>3. line' = IF k1 = 1 THEN <<OnLine(l2, t2, k2)>>
              ELSE <<OnLine(l1, t1, k1 - 1), OnLine(l2, t2, k2)>>
  <2>1. /\ line # <<>> /\ Head(line).left = k1 /\ Tail(line) = <<OnLine(l2, t2, k2)>>
        /\ [line EXCEPT ![1].left = @ - 1]
             = <<OnLine(l1, t1, k1 - 1), OnLine(l2, t2, k2)>>
    BY <1>2, TwoSent
  <2> QED BY <2>1, TickLine
<1>4. CASE k1 = 1 BY <1>3, <1>4 DEF FreeIn
<1>5. CASE k1 # 1
  <2>1. k1 - 1 \in 1 .. FRAME BY <1>5, Durations
  <2> QED BY <1>3, <1>5, <2>1 DEF TwoOnLine
<1> QED BY <1>4, <1>5

-----------------------------------------------------------------------------
(* Corrections of the clock that do not set it forward. *)
NeverForward == \A d \in ClockSteps : d <= 0

LEMMA LineStep ==
  ASSUME ClockStep => NeverForward, LineInv, [Next]_vars
  PROVE  LineInv'
<1> USE Durations
<1>1. CASE Engine
  BY <1>1 DEF Engine, LoopCheck, LoopAct, SitStart, SitStep, SitEnd, LineInv,
              FreeIn, TwoOnLine, bridgeVars, worldVars
<1>2. CASE Boot
  <2>1. line = <<>> BY <1>2 DEF Boot, LineInv, FreeIn
  <2> QED BY <1>2, <2>1 DEF Boot, LineInv, FreeIn
<1>3. CASE CenterAll
  <2>1. line = <<>> BY <1>3 DEF CenterAll, LineInv, FreeIn
  <2>2. FreeIn(FRAME)' BY <1>3, <2>1, WriteOnFree DEF CenterAll
  <2>3. FreeIn(CENTER)' BY <2>2 DEF FreeIn
  <2> QED BY <1>3, <2>2, <2>3 DEF CenterAll, LineInv
<1>4. CASE Subscribe
  <2>1. line = <<>> BY <1>4 DEF Subscribe, LineInv, FreeIn
  <2> QED BY <1>4, <2>1 DEF Subscribe, LineInv, FreeIn
<1>5. CASE joint_state_callback
  <2>1. CASE Due
    <3>1. line = <<>> BY <1>5, <2>1 DEF joint_state_callback, Due, LineInv, FreeIn
    <3>2. FreeIn(FRAME)' BY <1>5, <2>1, <3>1, WriteOnFree DEF joint_state_callback
    <3>3. since' = 0 /\ wait' = wait /\ bridge' = bridge /\ bridge = "ready"
      BY <1>5, <2>1 DEF joint_state_callback
    <3>4. FreeIn(FRAME - since)' BY <3>2, <3>3 DEF FreeIn
    <3> QED BY <3>2, <3>3, <3>4 DEF LineInv
  <2>2. CASE ~Due
    BY <1>5, <2>2 DEF joint_state_callback, SinceDropped, LineInv, FreeIn
  <2> QED BY <2>1, <2>2
<1>6. CASE Shutdown
  <2>1. FreeIn(FRAME) BY <1>6 DEF Shutdown, LineInv
  <2>2. FreeIn(FRAME)' \/ TwoOnLine'
    <3>1. CASE bridge = "ready" BY <1>6, <2>1, <3>1, WriteOnOne DEF Shutdown
    <3>2. CASE bridge # "ready" BY <1>6, <2>1, <3>2 DEF Shutdown, FreeIn
    <3> QED BY <3>1, <3>2
  <2>3. bridge' = "closed" /\ wait' = 0 /\ since' = since BY <1>6 DEF Shutdown
  <2> QED BY <2>2, <2>3 DEF LineInv
<1>7. CASE Tick
  <2>1. /\ wait' = Larger(wait - 1, 0) /\ since' = Smaller(since + 1, THROTTLE)
        /\ bridge' = bridge /\ (wait = 0 => bridge \in {"ready", "closed"})
    BY <1>7 DEF Tick, Quiet
  <2>2. wait' \in Nat /\ since' \in Int BY <2>1 DEF LineInv, Larger, Smaller
  <2>3. bridge \in {"down", "boot", "center"} => FreeIn(wait)'
    <3>1. CASE bridge \in {"down", "boot", "center"}
      <4>1. wait' = wait - 1 BY <2>1, <3>1 DEF LineInv, Larger
      <4>2. PICK n \in Int : n = wait BY DEF LineInv
      <4>3. FreeIn(n) BY <3>1, <4>2 DEF LineInv
      <4>4. FreeIn(n - 1)' BY <1>7, <4>3, TickOne
      <4>5. wait' = n - 1 BY <4>1, <4>2
      <4> QED BY <4>4, <4>5 DEF FreeIn
    <3> QED BY <3>1
  <2>4. bridge = "ready" => FreeIn(FRAME - since)'
    <3>1. CASE bridge = "ready"
      <4>1. PICK n \in Int : n = FRAME - since BY DEF LineInv
      <4>2. PICK m \in Int : m = FRAME - since'
        <5>1. FRAME - since' \in Int BY <2>2
        <5> QED BY <5>1
      <4>3. FreeIn(n) BY <3>1, <4>1 DEF LineInv
      <4>4. FreeIn(n - 1)' BY <1>7, <4>3, TickOne
      <4>5. n - 1 <= m BY <2>1, <4>1, <4>2 DEF LineInv, Smaller
      <4>6. FreeIn(m)' BY <4>4, <4>5, FreeLonger
      <4> QED BY <4>2, <4>6 DEF FreeIn
    <3> QED BY <3>1
  <2>5. FreeIn(FRAME)' \/ (bridge' = "closed" /\ TwoOnLine')
    <3>1. CASE FreeIn(FRAME)
      <4>1. FreeIn(FRAME - 1)' BY <1>7, <3>1, TickOne
      <4> QED BY <4>1 DEF FreeIn
    <3>2. CASE bridge = "closed" /\ TwoOnLine BY <1>7, <2>1, <3>2, TickTwo
    <3> QED BY <3>1, <3>2 DEF LineInv
  <2> QED BY <2>1, <2>2, <2>3, <2>4, <2>5 DEF LineInv
<1>8. CASE Kill BY <1>8 DEF Kill, bridgeVars, LineInv, FreeIn, TwoOnLine
<1>9. CASE Crash
  <2>1. FreeIn(FRAME) /\ line' = line /\ bridge' = "down" /\ wait' = RESPAWN /\ since' = since
    BY <1>9 DEF Crash, LineInv
  <2> QED BY <2>1 DEF LineInv, FreeIn
<1>10. CASE ClockStep
  <2>1. PICK d \in ClockSteps : since' = Smaller(since + d, THROTTLE)
    BY <1>10 DEF ClockStep
  <2>2. d \in Int /\ d <= 0 BY <1>10, DriveAssumption DEF NeverForward
  <2>3. since' \in Int /\ since' <= since BY <2>1, <2>2 DEF LineInv, Smaller
  <2>4. line' = line /\ bridge' = bridge /\ wait' = wait BY <1>10 DEF ClockStep
  <2>5. bridge = "ready" => FreeIn(FRAME - since)'
    <3>1. CASE bridge = "ready"
      <4>1. PICK n \in Int : n = FRAME - since BY DEF LineInv
      <4>2. PICK m \in Int : m = FRAME - since'
        <5>1. FRAME - since' \in Int BY <2>3
        <5> QED BY <5>1
      <4>3. FreeIn(n) BY <3>1, <4>1 DEF LineInv
      <4>4. n <= m
        <5>1. since \in Int BY DEF LineInv
        <5>2. \A a, b \in Int : a <= b => FRAME - b <= FRAME - a OBVIOUS
        <5>3. FRAME - since <= FRAME - since' BY <2>3, <5>1, <5>2
        <5> QED BY <4>1, <4>2, <5>3
      <4>5. FreeIn(m)' BY <2>4, <4>3, <4>4, FreeStays
      <4> QED BY <4>2, <4>5 DEF FreeIn
    <3> QED BY <3>1
  <2>6. FreeIn(FRAME)' \/ (bridge' = "closed" /\ TwoOnLine')
    BY <2>4 DEF LineInv, FreeIn, TwoOnLine
  <2>7. bridge' \in {"down", "boot", "center"} => FreeIn(wait)'
    BY <2>4 DEF LineInv, FreeIn
  <2> QED BY <2>3, <2>4, <2>5, <2>6, <2>7 DEF LineInv
<1>11. CASE UNCHANGED vars
  BY <1>11 DEF vars, bridgeVars, LineInv, FreeIn, TwoOnLine
<1> QED BY <1>1, <1>2, <1>3, <1>4, <1>5, <1>6, <1>7, <1>8, <1>9, <1>10, <1>11
        DEF Next, Bridge

(* While the wall clock is not set forward, the bridge writes only when the   *)
(* line is free, but for the packet that centres the servos at shutdown     *)
(* (lsc32_hardware_bridge.py:55-58 and 94-99), whatever crashes, respawns,  *)
(* lost writes and stops happen.                                            *)
THEOREM LineNeverOverrun ==
  ASSUME NeverForward PROVE Spec => []UartKeepsUp
<1>1. LineInv => UartKeepsUp
  <2> SUFFICES ASSUME LineInv PROVE Len(line) <= IF bridge = "closed" THEN 2 ELSE 1
    BY DEF UartKeepsUp
  <2>1. CASE FreeIn(FRAME)
    <3>1. CASE line = <<>> BY <3>1
    <3>2. CASE line # <<>>
      <4>1. PICK l, t : \E k \in 1 .. FRAME : line = <<OnLine(l, t, k)>>
        BY <2>1, <3>2 DEF FreeIn
      <4> QED BY <4>1
    <3> QED BY <3>1, <3>2
  <2>2. CASE bridge = "closed" /\ TwoOnLine BY <2>2, TwoSent, Durations DEF TwoOnLine
  <2> QED BY <2>1, <2>2 DEF LineInv
<1> QED BY LineStart, LineStep, <1>1, PTL DEF Spec

-----------------------------------------------------------------------------
(* The levels: every pose, packet and servo stays between flat and stance.   *)
(* Ranges are stated as inequalities.                                        *)

(* What is at most Standing divisors gives a quotient of at most Standing. *)
LEMMA LevelQuotient ==
  ASSUME NEW a \in Int, NEW b \in Nat \ {0}, 0 <= a, a <= Standing * b
  PROVE  a \div b \in Int /\ 0 <= a \div b /\ a \div b <= Standing
<1> DEFINE q == a \div b
<1>1. q \in Int /\ b * q <= a /\ a < b * (q + 1)
  BY SMT
<1>2. Standing = 1000 BY DEF Standing
<1> HIDE DEF q
<1>3. q >= 0
  <2> SUFFICES ASSUME q <= -1 PROVE FALSE BY <1>1
  <2>1. b * (q + 1) <= 0 BY <1>1
  <2> QED BY <1>1, <2>1
<1>4. q <= Standing
  <2> SUFFICES ASSUME q >= 1001 PROVE FALSE BY <1>1, <1>2
  <2>1. b * q >= 1001 * b BY <1>1
  <2> QED BY <1>1, <1>2, <2>1
<1> QED BY <1>1, <1>3, <1>4 DEF q

LEMMA QuotientGrows ==
  ASSUME NEW a \in Int, NEW c \in Int, NEW b \in Nat \ {0}, a <= c
  PROVE  a \div b <= c \div b
<1> DEFINE q == a \div b
           r == c \div b
<1>1. q \in Int /\ b * q <= a /\ r \in Int /\ c < b * (r + 1)
  BY SMT
<1> HIDE DEF q, r
<1> SUFFICES ASSUME q >= r + 1 PROVE FALSE BY <1>1 DEF q, r
<1>2. b * q >= b * (r + 1) BY <1>1
<1> QED BY <1>1, <1>2

(* The S-curve without its scale: k k (3 n - 2 k), out of n n n. *)
Curve(k, n) == k * k * (3 * n - 2 * k)

LEMMA SmoothIsCurve ==
  ASSUME NEW k \in Int, NEW n \in Nat \ {0}
  PROVE  /\ Curve(k, n) \in Int
         /\ n * n * n \in Nat \ {0}
         /\ Smooth(k, n) = (Standing * Curve(k, n)) \div (n * n * n)
<1>1. n * n \in Nat \ {0} BY SMT
<1>2. n * n * n \in Nat \ {0} BY SMT, <1>1
<1>3. Standing * k * k * (3 * n - 2 * k) = Standing * (k * k * (3 * n - 2 * k))
  BY SMT DEF Standing
<1> QED BY <1>2, <1>3 DEF Curve, Smooth

LEMMA CurveGrows ==
  ASSUME NEW j \in Int, NEW k \in Int, NEW n \in Int, 0 <= j, j <= k, k <= n
  PROVE  Curve(j, n) <= Curve(k, n)
<1> DEFINE d == k - j
           e == n - k
<1>1. /\ d \in Int /\ d >= 0 /\ e \in Int /\ e >= 0
      /\ k = j + d /\ n = j + d + e
  OBVIOUS
<1> HIDE DEF d, e
<1>2. Curve(k, n) - Curve(j, n) = d * (d * (d + 3 * j) + 3 * e * (2 * j + d))
  BY SMT, <1>1 DEF Curve
<1>3. d * (d + 3 * j) >= 0 /\ e * (2 * j + d) >= 0 BY SMT, <1>1
<1> DEFINE f == d * (d + 3 * j)
           g == e * (2 * j + d)
<1>4. f \in Int /\ g \in Int BY <1>1
<1>5. 3 * e * (2 * j + d) = 3 * g BY SMT, <1>1
<1> HIDE DEF f, g
<1>6. d * (f + 3 * g) >= 0 BY SMT, <1>1, <1>3, <1>4 DEF f, g
<1>7. Curve(k, n) \in Int /\ Curve(j, n) \in Int BY SMT DEF Curve
<1> QED BY <1>2, <1>5, <1>6, <1>7 DEF f

LEMMA SmoothGrows ==
  ASSUME NEW j \in Int, NEW k \in Int, NEW n \in Nat \ {0}, 0 <= j, j <= k, k <= n
  PROVE  Smooth(j, n) <= Smooth(k, n)
<1>1. Standing * Curve(j, n) <= Standing * Curve(k, n)
  BY CurveGrows, SmoothIsCurve DEF Standing
<1>2. Standing * Curve(j, n) \in Int /\ Standing * Curve(k, n) \in Int
  BY SmoothIsCurve DEF Standing
<1> QED BY <1>1, <1>2, SmoothIsCurve, QuotientGrows

LEMMA SmoothRange ==
  ASSUME NEW k \in Int, NEW n \in Nat \ {0}, 0 <= k, k <= n
  PROVE  Smooth(k, n) \in Level
<1>1. Curve(0, n) = 0 /\ Curve(n, n) = n * n * n BY SMT DEF Curve
<1>2. 0 <= Curve(k, n) /\ Curve(k, n) <= n * n * n BY <1>1, CurveGrows
<1> DEFINE c == Curve(k, n)
           b == n * n * n
<1>3. c \in Int /\ b \in Nat \ {0} /\ 0 <= c /\ c <= b BY <1>2, SmoothIsCurve
<1>4. Smooth(k, n) = (Standing * c) \div b BY SmoothIsCurve
<1> HIDE DEF c, b
<1>5. Standing * c \in Int /\ 0 <= Standing * c /\ Standing * c <= Standing * b
  BY <1>3 DEF Standing
<1> QED BY <1>3, <1>4, <1>5, LevelQuotient DEF Level

LEMMA StandingNat == Standing \in Nat
BY DEF Standing

(* A pose of the engine is a level: on the ramp, in the stance, on the way down. *)
LEMMA PoseRange ==
  ASSUME NEW now \in Level, elapsed \in Int
  PROVE  Pose(now) \in Level
<1>1. HOLD \in Nat \ {0} /\ RAMP \in Nat \ {0} BY DriveAssumption
<1>2. CASE elapsed < HOLD
  <2>1. Pose(now) = 0 BY <1>1, <1>2 DEF Pose, Up
  <2> QED BY <2>1, StandingNat DEF Level
<1>3. CASE elapsed >= HOLD /\ elapsed < Up
  <2>1. elapsed - HOLD \in Int /\ 0 <= elapsed - HOLD /\ elapsed - HOLD <= RAMP
    BY <1>1, <1>3 DEF Up
  <2>2. Smooth(elapsed - HOLD, RAMP) \in Level BY <1>1, <2>1, SmoothRange
  <2>3. Pose(now) = Smooth(elapsed - HOLD, RAMP) BY <1>1, <1>3 DEF Pose, Up
  <2> QED BY <2>2, <2>3
<1>4. CASE elapsed >= HOLD /\ elapsed >= Up
  <2>1. Pose(now) = Stance(now) BY <1>1, <1>4 DEF Pose, Up
  <2>2. Stance(now) \in Level BY StandingNat DEF Stance, Level
  <2> QED BY <2>1, <2>2
<1> QED BY <1>1, <1>2, <1>3, <1>4 DEF Up

LEMMA DescendedRange ==
  ASSUME NEW k \in Int, 0 <= k, k <= DESCENT, start \in Level
  PROVE  /\ Descended(k) \in Level
         /\ Descended(k) <= Standing - Smooth(k, DESCENT)
<1>1. DESCENT \in Nat \ {0} BY DriveAssumption
<1> DEFINE s == Smooth(k, DESCENT)
           u == Standing - s
<1>2. s \in Level BY <1>1, SmoothRange
<1>3. u \in Level BY <1>2, StandingNat DEF Level
<1>4. Descended(k) = (start * u) \div Standing BY DEF Descended
<1> HIDE DEF s, u
<1>5. start * u \in Int /\ 0 <= start * u /\ start * u <= Standing * u
  BY SMT, <1>3 DEF Level, Standing
<1> DEFINE p == start * u
<1> HIDE DEF p
<1>6. p \in Int /\ 0 <= p /\ p <= 1000 * u /\ u \in Int BY <1>3, <1>5 DEF p, Level, Standing
<1>7. p \div 1000 \in Int /\ 0 <= p \div 1000 /\ p \div 1000 <= u BY SMT, <1>6
<1>8. Descended(k) = p \div 1000 BY <1>4 DEF p, Standing
<1>9. Descended(k) <= u /\ Descended(k) \in Level BY <1>3, <1>7, <1>8, StandingNat DEF Level
<1> QED BY <1>9 DEF u, s

(* The servo stops short of its goal or at it, from either side. *)
LEMMA StepTowards ==
  ASSUME NEW d \in Int, NEW m \in Nat \ {0}
  PROVE  /\ d \div m \in Int
         /\ d >= 0 => 0 <= d \div m /\ d \div m <= d
         /\ d <= 0 => d <= d \div m /\ d \div m <= 0
<1> DEFINE q == d \div m
<1>1. q \in Int /\ m * q <= d /\ d < m * (q + 1) BY SMT
<1> HIDE DEF q
<1>2. ASSUME q >= 1 PROVE q <= d
  <2>1. m * q >= q BY SMT, <1>1, <1>2
  <2> QED BY <1>1, <2>1
<1>3. ASSUME q <= -1 PROVE d <= q /\ d < 0
  <2>1. m * (q + 1) <= q + 1 BY SMT, <1>1, <1>3
  <2> QED BY <1>1, <1>3, <2>1
<1>4. ASSUME q >= 0 PROVE d >= 0
  <2>1. m * q >= 0 BY SMT, <1>1, <1>4
  <2> QED BY <1>1, <2>1
<1>5. ASSUME d <= 0, q >= 1 PROVE FALSE
  BY <1>1, <1>2, <1>5
<1> QED BY <1>1, <1>2, <1>3, <1>4, <1>5 DEF q

ServoType == [at : Level, goal : Level, move : 0 .. Larger(THROTTLE, CENTER)]

LEMMA MovedRange ==
  ASSUME NEW s \in ServoType
  PROVE  Moved(s) \in ServoType /\ Moved(s).goal = s.goal
<1>1. CASE s.move = 0 BY <1>1 DEF Moved
<1>2. CASE s.move # 0
  <2>1. Larger(THROTTLE, CENTER) \in Nat BY Durations DEF Larger
  <2>2. s.move \in Nat \ {0} /\ s.move - 1 \in 0 .. Larger(THROTTLE, CENTER)
    BY <1>2, <2>1 DEF ServoType
  <2>3. s.goal \in Level /\ s.at \in Level BY DEF ServoType
  <2> DEFINE q == (s.goal - s.at) \div s.move
  <2>4. s.goal - s.at \in Int BY <2>3, StandingNat DEF Level
  <2>5. /\ q \in Int
        /\ s.goal - s.at >= 0 => 0 <= q /\ q <= s.goal - s.at
        /\ s.goal - s.at <= 0 => s.goal - s.at <= q /\ q <= 0
    BY <2>2, <2>4, StepTowards
  <2> HIDE DEF q
  <2>6. s.at + q \in Level BY <2>3, <2>5, StandingNat DEF Level
  <2>7. Moved(s) = [s EXCEPT !.at = s.at + q, !.move = s.move - 1] BY <1>2 DEF Moved, q
  <2> QED BY <2>2, <2>6, <2>7 DEF ServoType
<1> QED BY <1>1, <1>2

PacketType == [goal : Level, time : {THROTTLE, CENTER}, left : 1 .. FRAME]

LEMMA PacketOfType ==
  ASSUME NEW level \in Level, NEW time \in {THROTTLE, CENTER}
  PROVE  Packet(level, time) \in PacketType
BY Durations DEF Packet, PacketType

(* The part of the types each kind of step can disturb. *)
LineType == line \in Seq(PacketType)
FaultType == faults \in Seq(Faults) /\ Len(faults) <= MaxFaults
MailType == mail \in {<<>>} \cup {<<level>> : level \in Level}

LEMMA WriteTypes ==
  ASSUME LineType, FaultType, NEW level \in Level, NEW time \in {THROTTLE, CENTER},
         Write(level, time)
  PROVE  LineType' /\ FaultType'
<1>1. CASE line' = Append(line, Packet(level, time)) /\ UNCHANGED faults
  BY <1>1, PacketOfType DEF LineType, FaultType
<1>2. CASE Fault("write") /\ UNCHANGED line
  BY <1>2, DriveAssumption DEF LineType, FaultType, Fault
<1> QED BY <1>1, <1>2 DEF Write

LEMMA FaultTypes ==
  ASSUME FaultType, NEW kind, Fault(kind)
  PROVE  FaultType'
BY DriveAssumption DEF FaultType, Fault

LEMMA PublishTypes ==
  ASSUME NEW level \in Level, Publish(level)
  PROVE  MailType'
BY DEF MailType, Publish

LEMMA TypesAre ==
  TypeOK <=>
    /\ loop \in {"check", "act", "sleep", "ended"}
    /\ sitter \in {"idle", "step", "sleep", "ended"}
    /\ i \in 0 .. DESCENT /\ start \in Level /\ current \in Level
    /\ elapsed \in Int /\ elapsed <= Horizon /\ since \in Int /\ since <= THROTTLE
    /\ MailType
    /\ bridge \in {"down", "boot", "center", "ready", "closed"} /\ wait \in Nat
    /\ LineType /\ servo \in ServoType
    /\ killed \subseteq {"engine", "bridge"} /\ FaultType
BY DEF TypeOK, MailType, LineType, PacketType, ServoType, FaultType

LEMMA DriveTypesStart == Init => TypeOK
<1> SUFFICES ASSUME Init PROVE TypeOK
  OBVIOUS
<1>1. 0 \in Level BY StandingNat DEF Level
<1>2. 0 \in 0 .. Larger(THROTTLE, CENTER) BY Durations DEF Larger
<1>3. DESCENT \in Nat /\ HOLD \in Nat /\ RAMP \in Nat /\ Skews \subseteq Nat /\ MaxFaults \in Nat
  BY DriveAssumption
<1>4. LineType /\ FaultType /\ MailType /\ servo \in ServoType
  BY <1>1, <1>2, <1>3 DEF Init, LineType, FaultType, MailType, ServoType
<1> QED BY <1>1, <1>3, <1>4, TypesAre, Durations DEF Init, Horizon, Up

LEMMA EngineTypes == TypeOK /\ Engine => TypeOK'
<1> SUFFICES ASSUME TypeOK, Engine PROVE TypeOK'
  OBVIOUS
<1>1. DESCENT \in Nat \ {0} BY DriveAssumption
<1>2. CASE LoopCheck BY <1>2 DEF LoopCheck, TypeOK, bridgeVars, worldVars
<1>3. CASE LoopAct
  <2>1. Pose(current) \in Level BY PoseRange, TypesAre
  <2>2. current' \in Level /\ MailType'
    BY <1>3, <2>1, PublishTypes DEF LoopAct
  <2> QED BY <1>3, <2>2 DEF LoopAct, TypeOK, MailType, bridgeVars, worldVars
<1>4. CASE SitStart
  BY <1>1, <1>4 DEF SitStart, TypeOK, bridgeVars, worldVars
<1>5. CASE SitStep
  <2>1. i \in Int /\ 0 <= i /\ i <= DESCENT /\ i + 1 \in 0 .. DESCENT
    BY <1>1, <1>5 DEF SitStep, TypeOK
  <2>2. Descended(i) \in Level BY <2>1, DescendedRange, TypesAre
  <2>3. current' \in Level /\ MailType'
    BY <1>5, <2>2, PublishTypes DEF SitStep
  <2> QED BY <1>5, <2>1, <2>3 DEF SitStep, TypeOK, MailType, bridgeVars, worldVars
<1>6. CASE SitEnd BY <1>6 DEF SitEnd, TypeOK, bridgeVars, worldVars
<1> QED BY <1>2, <1>3, <1>4, <1>5, <1>6 DEF Engine

LEMMA BridgeTypes == TypeOK /\ Bridge => TypeOK'
<1> SUFFICES ASSUME TypeOK, Bridge PROVE TypeOK'
  OBVIOUS
<1>1. 0 \in Level BY StandingNat DEF Level
<1>2. LineType /\ FaultType /\ MailType BY TypesAre
<1>4. CASE Boot
  <2>1. FaultType' BY <1>2, <1>4, FaultTypes DEF Boot, FaultType
  <2>2. wait' \in Nat BY <1>4, Durations DEF Boot, TypeOK
  <2> QED BY <1>4, <2>1, <2>2 DEF Boot, TypeOK, FaultType, engineVars
<1>5. CASE CenterAll
  <2>1. LineType' /\ FaultType' BY <1>1, <1>2, <1>5, WriteTypes DEF CenterAll
  <2>2. wait' \in Nat BY <1>5, Durations DEF CenterAll
  <2> QED BY <1>5, <2>1, <2>2 DEF CenterAll, TypeOK, LineType, PacketType, FaultType, engineVars
<1>6. CASE Subscribe
  BY <1>6, Durations DEF Subscribe, TypeOK, engineVars, worldVars
<1>7. CASE joint_state_callback
  <2>1. Head(mail) \in Level BY <1>2, <1>7 DEF joint_state_callback, MailType
  <2>2. LineType' /\ FaultType'
    <3>1. CASE Due BY <1>2, <1>7, <2>1, <3>1, WriteTypes DEF joint_state_callback
    <3>2. CASE ~Due BY <1>2, <1>7, <3>2 DEF joint_state_callback, LineType, FaultType
    <3> QED BY <3>1, <3>2
  <2>3. since' \in Int /\ since' <= THROTTLE
    BY <1>7, Durations DEF joint_state_callback, TypeOK, SinceDropped
  <2> QED BY <1>7, <2>2, <2>3
         DEF joint_state_callback, TypeOK, LineType, PacketType, FaultType, engineVars
<1>8. CASE Shutdown
  <2>1. LineType' /\ FaultType'
    <3>1. CASE bridge = "ready" BY <1>1, <1>2, <1>8, <3>1, WriteTypes DEF Shutdown
    <3>2. CASE bridge # "ready" BY <1>2, <1>8, <3>2 DEF Shutdown, LineType, FaultType
    <3> QED BY <3>1, <3>2
  <2> QED BY <1>8, <2>1 DEF Shutdown, TypeOK, LineType, PacketType, FaultType, engineVars
<1> QED BY <1>4, <1>5, <1>6, <1>7, <1>8 DEF Bridge

(* A packet of the right type stays one while its remaining time shrinks. *)
LEMMA SendingTypes ==
  ASSUME LineType, line # <<>>, Head(line).left # 1
  PROVE  [line EXCEPT ![1].left = @ - 1] \in Seq(PacketType)
<1> DEFINE p == line[1]
           e == [p EXCEPT !.left = @ - 1]
<1>1. p \in PacketType /\ Len(line) \in Nat /\ Len(line) >= 1 /\ p = Head(line)
  BY DEF LineType
<1>2. e \in PacketType
  <2>1. p.left \in 1 .. FRAME /\ p.left # 1 BY <1>1 DEF PacketType
  <2>2. p.left - 1 \in 1 .. FRAME BY <2>1, Durations
  <2> QED BY <1>1, <2>2 DEF PacketType
<1>3. [line EXCEPT ![1] = e] \in Seq(PacketType)
  <2>1. 1 \in 1 .. Len(line) BY <1>1
  <2> QED BY <1>2, <2>1, ExceptSeq DEF LineType
<1>4. [line EXCEPT ![1].left = @ - 1] = [line EXCEPT ![1] = e]
  OBVIOUS
<1> QED BY <1>3, <1>4

LEMMA TickTypes == TypeOK /\ Tick => TypeOK'
<1> SUFFICES ASSUME TypeOK, Tick PROVE TypeOK'
  OBVIOUS
<1>1. LineType /\ FaultType /\ MailType /\ servo \in ServoType BY TypesAre
<1>2. Horizon \in Int BY DriveAssumption DEF Horizon, Up
<1>3. LineType' /\ servo' \in ServoType
  <2>1. Moved(servo) \in ServoType BY <1>1, MovedRange
  <2>2. CASE line = <<>> BY <1>1, <2>1, <2>2 DEF Tick, LineType
  <2>3. CASE line # <<>> /\ Head(line).left = 1
    <3>1. Head(line) \in PacketType /\ Tail(line) \in Seq(PacketType)
      BY <1>1, <2>3 DEF LineType
    <3>2. /\ Head(line).goal \in Level
          /\ Head(line).time \in 0 .. Larger(THROTTLE, CENTER)
      BY <3>1, Durations DEF PacketType, Larger
    <3>3. Commanded(Moved(servo), Head(line)) \in ServoType
      BY <2>1, <3>2 DEF Commanded, ServoType
    <3> QED BY <2>3, <3>1, <3>3 DEF Tick, LineType
  <2>4. CASE line # <<>> /\ Head(line).left # 1
    BY <1>1, <2>1, <2>4, SendingTypes DEF Tick, LineType
  <2> QED BY <2>2, <2>3, <2>4
<1>4. /\ elapsed' \in Int /\ elapsed' <= Horizon /\ since' \in Int /\ since' <= THROTTLE
      /\ wait' \in Nat
  <2>1. elapsed \in Int /\ since \in Int /\ wait \in Nat BY TypesAre
  <2>2. /\ elapsed' = Smaller(elapsed + 1, Horizon)
        /\ since' = Smaller(since + 1, THROTTLE) /\ wait' = Larger(wait - 1, 0)
    BY DEF Tick
  <2>3. elapsed' \in Int /\ elapsed' <= Horizon BY <1>2, <2>1, <2>2 DEF Smaller
  <2>4. since' \in Int /\ since' <= THROTTLE BY <2>1, <2>2, Durations DEF Smaller
  <2>5. wait' \in Nat BY <2>1, <2>2 DEF Larger
  <2> QED BY <2>3, <2>4, <2>5
<1>5. /\ loop' \in {"check", "act", "sleep", "ended"}
      /\ sitter' \in {"idle", "step", "sleep", "ended"}
  BY DEF Tick, TypeOK
<1> QED BY <1>3, <1>4, <1>5 DEF Tick, TypeOK, LineType, PacketType, ServoType

LEMMA WorldTypes == TypeOK /\ (Kill \/ Crash \/ ClockStep) => TypeOK'
<1> SUFFICES ASSUME TypeOK, Kill \/ Crash \/ ClockStep PROVE TypeOK'
  OBVIOUS
<1>1. CASE Kill
  <2>1. killed' \subseteq {"engine", "bridge"} BY <1>1, DriveAssumption DEF Kill
  <2> QED BY <1>1, <2>1 DEF Kill, TypeOK, engineVars, bridgeVars
<1>2. CASE Crash
  <2>1. FaultType' BY <1>2, TypesAre, FaultTypes DEF Crash
  <2>2. wait' \in Nat BY <1>2, Durations DEF Crash
  <2> QED BY <1>2, <2>1, <2>2 DEF Crash, TypeOK, FaultType, engineVars
<1>3. CASE ClockStep
  <2>1. FaultType' BY <1>3, TypesAre, FaultTypes DEF ClockStep
  <2>2. Horizon \in Int BY DriveAssumption DEF Horizon, Up
  <2>3. PICK d \in ClockSteps :
          /\ IF elapsed < Horizon THEN elapsed' = Smaller(elapsed + d, Horizon)
                                  ELSE elapsed' \in Smaller(elapsed + d, Horizon) .. Horizon
          /\ since' = Smaller(since + d, THROTTLE)
    BY <1>3 DEF ClockStep
  <2>4. d \in Int BY DriveAssumption
  <2>5. since' \in Int /\ since' <= THROTTLE
    BY <2>3, <2>4, Durations DEF TypeOK, Smaller
  <2>6. elapsed' \in Int /\ elapsed' <= Horizon
    BY <2>2, <2>3, <2>4 DEF TypeOK, Smaller
  <2> QED BY <1>3, <2>1, <2>5, <2>6 DEF ClockStep, TypeOK, FaultType, engineVars
<1> QED BY <1>1, <1>2, <1>3

LEMMA DriveTypesStep == TypeOK /\ [Next]_vars => TypeOK'
<1>1. TypeOK /\ UNCHANGED vars => TypeOK'
  BY DEF TypeOK, vars, engineVars, bridgeVars, worldVars
<1> QED BY <1>1, EngineTypes, BridgeTypes, TickTypes, WorldTypes DEF Next

(* Whatever crashes, is lost or is set back, every pose the engine computes,  *)
(* every packet of the bridge and the position of every servo stay between  *)
(* the flat pose and the stance (spider_gait_engine.py:74-99 and 122-150).  *)
THEOREM DriveTypeCorrect == Spec => []TypeOK
BY DriveTypesStart, DriveTypesStep, PTL DEF Spec

-----------------------------------------------------------------------------
(* The descent: what the servos were last told follows the curve of sit_down *)
(* from above, as late as the rate limit makes it.                          *)

Bound(j) == Standing - Smooth(j, DESCENT)
Below(level, n) == \A j \in 0 .. n : level <= Bound(j)
LineGoal == IF line = <<>> THEN servo.goal ELSE line[Len(line)].goal

DescentInv ==
  /\ since >= 0
  /\ bridge # "ready" => LineGoal = 0
  /\ sitter # "idle" /\ loop = "act"
       => \/ sitter = "step" /\ i = 0
          \/ sitter = "sleep" /\ i = 1
  /\ sitter = "sleep" => i >= 1
  /\ sitter = "ended" => i = DESCENT
  /\ (sitter = "step" /\ i >= 1) \/ sitter = "ended" => mail = <<>>
  /\ sitter = "sleep" /\ mail # <<>> => Below(mail[1], i - 1)
  /\ bridge = "ready" /\ sitter = "sleep" /\ mail = <<>> => since < THROTTLE
  /\ bridge = "ready" /\ sitter = "sleep" => Below(LineGoal, i - 1 - since)
  /\ bridge = "ready" /\ sitter = "step" => Below(LineGoal, i - since)
  /\ bridge = "ready" /\ sitter = "ended" => Below(LineGoal, DESCENT - THROTTLE)

GroundInv == TypeOK /\ (faults = <<>> => DescentInv)

LEMMA BoundFacts ==
  /\ \A j \in Int : 0 <= j /\ j <= DESCENT => Bound(j) \in Level
  /\ Bound(0) = Standing
  /\ \A j, k \in Int : 0 <= j /\ j <= k /\ k <= DESCENT => Bound(k) <= Bound(j)
<1>1. DESCENT \in Nat \ {0} BY DriveAssumption
<1>2. ASSUME NEW j \in Int, 0 <= j, j <= DESCENT PROVE Bound(j) \in Level
  <2>1. Smooth(j, DESCENT) \in Level BY <1>1, <1>2, SmoothRange
  <2> QED BY <2>1, StandingNat DEF Bound, Level
<1>3. Bound(0) = Standing
  <2>1. Smooth(0, DESCENT) = 0
    <3>1. Standing * Curve(0, DESCENT) = 0 BY <1>1 DEF Curve, Standing
    <3>2. \A b \in Nat \ {0} : 0 \div b = 0 BY SMT
    <3> QED BY <1>1, <3>1, <3>2, SmoothIsCurve
  <2> QED BY <2>1, StandingNat DEF Bound
<1>4. ASSUME NEW j \in Int, NEW k \in Int, 0 <= j, j <= k, k <= DESCENT
      PROVE  Bound(k) <= Bound(j)
  <2>1. Smooth(j, DESCENT) <= Smooth(k, DESCENT) BY <1>1, <1>4, SmoothGrows
  <2>2. Smooth(j, DESCENT) \in Level /\ Smooth(k, DESCENT) \in Level
    BY <1>1, <1>4, SmoothRange
  <2> QED BY <2>1, <2>2, StandingNat DEF Bound, Level
<1> QED BY <1>2, <1>3, <1>4

LEMMA FlatIsBelow ==
  ASSUME NEW n \in Int, n <= DESCENT
  PROVE  Below(0, n)
BY BoundFacts, StandingNat, DriveAssumption DEF Below, Level

LEMMA AnyIsBelowTop ==
  ASSUME NEW level \in Level, NEW n \in Int, n <= 0
  PROVE  Below(level, n)
BY BoundFacts, StandingNat DEF Below, Level

LEMMA BelowLess ==
  ASSUME NEW level, NEW m \in Int, NEW n \in Int, m <= n, Below(level, n)
  PROVE  Below(level, m)
BY DEF Below

LEMMA DescendedIsBelow ==
  ASSUME NEW k \in Int, 0 <= k, k <= DESCENT, start \in Level
  PROVE  Below(Descended(k), k)
<1> SUFFICES ASSUME NEW j \in 0 .. k PROVE Descended(k) <= Bound(j)
  BY DEF Below
<1>1. DESCENT \in Nat BY DriveAssumption
<1>2. Descended(k) <= Bound(k) /\ Descended(k) \in Level
  BY DescendedRange DEF Bound
<1>3. Bound(k) <= Bound(j) /\ Bound(k) \in Level /\ Bound(j) \in Level
  BY <1>1, BoundFacts
<1> QED BY <1>2, <1>3, StandingNat DEF Level

LEMMA GoalIsLevel ==
  ASSUME TypeOK
  PROVE  LineGoal \in Level
<1>1. LineType /\ servo \in ServoType BY TypesAre
<1>2. CASE line = <<>> BY <1>1, <1>2 DEF LineGoal, ServoType
<1>3. CASE line # <<>>
  <2>1. line[Len(line)] \in PacketType BY <1>1, <1>3 DEF LineType
  <2> QED BY <1>3, <2>1 DEF LineGoal, PacketType
<1> QED BY <1>2, <1>3

LEMMA GoalStays ==
  ASSUME UNCHANGED <<line, servo>>
  PROVE  LineGoal' = LineGoal
BY DEF LineGoal

(* A fault leaves its mark. *)
LEMMA FaultMarks ==
  ASSUME FaultType, NEW kind, Fault(kind)
  PROVE  faults' # <<>>
BY DEF FaultType, Fault

LEMMA GoalWritten ==
  ASSUME TypeOK, NEW level \in Level, NEW time \in {THROTTLE, CENTER},
         Write(level, time), faults' = <<>>
  PROVE  LineGoal' = level
<1>1. LineType /\ FaultType BY TypesAre
<1>2. line' = Append(line, Packet(level, time)) BY <1>1, FaultMarks DEF Write
<1>3. Packet(level, time) \in PacketType BY PacketOfType
<1>4. /\ Len(line') = Len(line) + 1 /\ line' # <<>>
      /\ line'[Len(line) + 1] = Packet(level, time)
  BY <1>1, <1>2, <1>3, AppendProperties DEF LineType
<1> QED BY <1>4 DEF LineGoal, Packet

LEMMA GoalSent ==
  ASSUME TypeOK, Tick
  PROVE  LineGoal' = LineGoal
<1>1. LineType /\ servo \in ServoType BY TypesAre
<1>2. Moved(servo) \in ServoType /\ Moved(servo).goal = servo.goal BY <1>1, MovedRange
<1>3. CASE line = <<>> BY <1>2, <1>3 DEF Tick, LineGoal
<1>4. CASE line # <<>> /\ Head(line).left = 1
  <2>1. line' = Tail(line) /\ servo' = Commanded(Moved(servo), Head(line))
    BY <1>4 DEF Tick
  <2>2. servo'.goal = line[1].goal
    <3>1. Head(line) = line[1] BY <1>1, <1>4 DEF LineType
    <3> QED BY <1>2, <2>1, <3>1 DEF Commanded, ServoType
  <2>3. /\ Tail(line) \in Seq(PacketType) /\ Len(Tail(line)) = Len(line) - 1
        /\ \A n \in 1 .. Len(Tail(line)) : Tail(line)[n] = line[n + 1]
        /\ Len(line) \in Nat
    BY <1>1, <1>4, HeadTailProperties, LenProperties DEF LineType
  <2>4. Tail(line) = <<>> <=> Len(line) = 1
    <3> DEFINE t == Tail(line)
    <3>1. t \in Seq(PacketType) /\ Len(t) = Len(line) - 1 /\ Len(line) \in Nat BY <2>3
    <3> HIDE DEF t
    <3>2. t = <<>> => Len(t) = 0 BY EmptySeq
    <3>3. t # <<>> => Len(t) \in Nat \ {0} BY <3>1, EmptySeq
    <3> QED BY <3>1, <3>2, <3>3 DEF t
  <2>5. CASE Len(line) = 1 BY <1>4, <2>1, <2>2, <2>4, <2>5 DEF LineGoal
  <2>6. CASE Len(line) # 1
    <3>1. Len(line) - 1 \in 1 .. Len(Tail(line)) BY <1>1, <1>4, <2>3, <2>6 DEF LineType
    <3>2. Tail(line)[Len(line) - 1] = line[Len(line)] BY <2>3, <3>1
    <3> QED BY <1>4, <2>1, <2>3, <2>4, <2>6, <3>2 DEF LineGoal
  <2> QED BY <2>5, <2>6
<1>5. CASE line # <<>> /\ Head(line).left # 1
  <2>1. line' = [line EXCEPT ![1].left = @ - 1] BY <1>5 DEF Tick
  <2> DEFINE e == [line[1] EXCEPT !.left = @ - 1]
             n == Len(line)
  <2>2. n \in Nat /\ n >= 1 /\ line[1] \in PacketType /\ DOMAIN line = 1 .. n
    BY <1>1, <1>5 DEF LineType
  <2>3. e.goal = line[1].goal BY <2>2 DEF PacketType
  <2>4. line' = [line EXCEPT ![1] = e] BY <2>1
  <2>5. line' \in Seq(PacketType)
    BY <1>1, <1>5, <2>1, SendingTypes
  <2>6. DOMAIN line' = 1 .. n BY <2>2, <2>4
  <2>7. Len(line') = n /\ line' # <<>> BY <2>2, <2>5, <2>6
  <2>8. line'[n].goal = line[n].goal
    <3> HIDE DEF e
    <3>1. line'[n] = IF n = 1 THEN e ELSE line[n] BY <2>2, <2>4
    <3> QED BY <2>3, <3>1
  <2> QED BY <1>5, <2>7, <2>8 DEF LineGoal
<1> QED BY <1>3, <1>4, <1>5

LEMMA GroundStart == Init => DescentInv
<1>1. THROTTLE \in Nat \ {0} BY DriveAssumption
<1> QED BY <1>1 DEF Init, DescentInv, LineGoal

LEMMA GroundEngine ==
  ASSUME TypeOK, DescentInv, Engine
  PROVE  DescentInv'
<1>1. /\ DESCENT \in Nat \ {0} /\ THROTTLE \in Nat \ {0}
      /\ since \in Int /\ since >= 0 /\ since <= THROTTLE
      /\ i \in Int /\ 0 <= i /\ i <= DESCENT /\ start \in Level /\ current \in Level
  BY DriveAssumption DEF TypeOK, DescentInv
<1>2. LineGoal \in Level BY GoalIsLevel
<1>3. LineGoal' = LineGoal
  BY GoalStays DEF Engine, LoopCheck, LoopAct, SitStart, SitStep, SitEnd, bridgeVars, worldVars
<1>4. CASE LoopCheck
  BY <1>3, <1>4 DEF LoopCheck, Goes, DescentInv, bridgeVars, Below
<1>5. CASE LoopAct
  <2>1. /\ loop' = "sleep" /\ Publish(current') /\ current' = Pose(current)
        /\ UNCHANGED <<sitter, i, bridge, since>>
        /\ loop = "act"
    BY <1>5 DEF LoopAct, bridgeVars
  <2>2. current' \in Level BY <1>1, <2>1, PoseRange DEF TypeOK
  <2>3. sitter = "idle" \/ (sitter = "step" /\ i = 0) \/ (sitter = "sleep" /\ i = 1)
    BY <2>1 DEF DescentInv, TypeOK
  <2>4. ASSUME sitter = "sleep", mail' # <<>> PROVE Below(mail[1], i - 1)'
    <3>1. mail'[1] = current' BY <2>1, <2>4 DEF Publish
    <3>2. Below(current', i - 1) BY <1>1, <2>2, <2>3, <2>4, AnyIsBelowTop
    <3> QED BY <2>1, <3>1, <3>2 DEF Below
  <2>5. bridge = "ready" => mail' # <<>> BY <2>1 DEF Publish
  <2>6. /\ bridge = "ready" /\ sitter = "sleep" => Below(LineGoal, i - 1 - since)'
        /\ bridge = "ready" /\ sitter = "step" => Below(LineGoal, i - since)'
    BY <1>3, <2>1 DEF DescentInv, Below
  <2> QED BY <1>1, <1>3, <2>1, <2>3, <2>4, <2>5, <2>6 DEF DescentInv
<1>6. CASE SitStart
  <2>1. /\ sitter = "idle" /\ sitter' = "step" /\ i' = 0
        /\ UNCHANGED <<loop, mail, bridge, since>>
    BY <1>6 DEF SitStart, bridgeVars
  <2>2. Below(LineGoal, 0 - since) BY <1>1, <1>2, AnyIsBelowTop
  <2>3. Below(LineGoal, i - since)' BY <1>3, <2>1, <2>2 DEF Below
  <2> QED BY <1>1, <1>3, <2>1, <2>3 DEF DescentInv
<1>7. CASE SitStep
  <2>1. /\ sitter = "step" /\ i < DESCENT /\ i' = i + 1 /\ sitter' = "sleep"
        /\ current' = Descended(i) /\ Publish(current')
        /\ UNCHANGED <<loop, bridge, since>>
    BY <1>7 DEF SitStep, bridgeVars
  <2>2. bridge = "ready" => Below(LineGoal, i - 1 - since)'
    <3>1. bridge = "ready" => Below(LineGoal, i - since) BY <2>1 DEF DescentInv
    <3>2. i' - 1 - since' = i - since BY <1>1, <2>1
    <3> QED BY <1>3, <3>1, <3>2 DEF Below
  <2>3. ASSUME mail' # <<>> PROVE Below(mail[1], i - 1)'
    <3>1. mail'[1] = Descended(i) BY <2>1, <2>3 DEF Publish
    <3>2. Below(Descended(i), i) BY <1>1, DescendedIsBelow
    <3>3. i' - 1 = i BY <1>1, <2>1
    <3> QED BY <3>1, <3>2, <3>3 DEF Below
  <2>4. bridge = "ready" => mail' # <<>> BY <2>1 DEF Publish
  <2>5. i' >= 1 /\ (loop = "act" => i' = 1) BY <1>1, <2>1 DEF DescentInv
  <2> QED BY <1>1, <1>3, <2>1, <2>2, <2>3, <2>4, <2>5 DEF DescentInv
<1>8. CASE SitEnd
  <2>1. /\ sitter = "step" /\ i = DESCENT /\ sitter' = "ended"
        /\ UNCHANGED <<loop, i, mail, bridge, since>>
    BY <1>8 DEF SitEnd, bridgeVars
  <2>2. bridge = "ready" => Below(LineGoal, DESCENT - THROTTLE)'
    <3>1. bridge = "ready" => Below(LineGoal, i - since) BY <2>1 DEF DescentInv
    <3>2. DESCENT - THROTTLE <= i - since /\ i - since \in Int /\ DESCENT - THROTTLE \in Int
      BY <1>1, <2>1
    <3>3. bridge = "ready" => Below(LineGoal, DESCENT - THROTTLE)
      BY <3>1, <3>2, BelowLess
    <3> QED BY <1>3, <3>3 DEF Below
  <2>3. mail = <<>> /\ loop # "act" BY <1>1, <2>1 DEF DescentInv
  <2> QED BY <1>1, <1>3, <2>1, <2>2, <2>3 DEF DescentInv
<1> QED BY <1>4, <1>5, <1>6, <1>7, <1>8 DEF Engine

LEMMA GroundBridge ==
  ASSUME TypeOK, DescentInv, Bridge, faults' = <<>>
  PROVE  DescentInv'
<1>1. /\ DESCENT \in Nat \ {0} /\ THROTTLE \in Nat \ {0}
      /\ since \in Int /\ since >= 0 /\ since <= THROTTLE
      /\ i \in Int /\ 0 <= i /\ i <= DESCENT
  BY DriveAssumption DEF TypeOK, DescentInv
<1>2. LineGoal \in Level /\ 0 \in Level /\ FaultType
  BY GoalIsLevel, StandingNat, TypesAre DEF Level
<1>3. CASE Boot
  <2>1. LineGoal' = LineGoal BY <1>3, GoalStays DEF Boot
  <2>2. bridge # "ready" /\ bridge' # "ready" BY <1>3 DEF Boot
  <2> QED BY <1>3, <2>1, <2>2 DEF Boot, DescentInv, engineVars, Below
<1>4. CASE CenterAll
  <2>1. LineGoal' = 0 BY <1>2, <1>4, GoalWritten DEF CenterAll
  <2> QED BY <1>4, <2>1 DEF CenterAll, DescentInv, engineVars, Below
<1>5. CASE Subscribe
  <2>1. LineGoal' = LineGoal BY <1>5, GoalStays DEF Subscribe, worldVars
  <2>2. LineGoal' = 0 /\ since' = 0 /\ UNCHANGED <<loop, sitter, i, mail>>
    BY <1>5, <2>1 DEF Subscribe, DescentInv, engineVars
  <2>3. Below(0, i - 1) /\ Below(0, i) /\ Below(0, DESCENT - THROTTLE)
    BY <1>1, FlatIsBelow
  <2>4. i - 1 - 0 = i - 1 /\ i - 0 = i BY <1>1
  <2>5. /\ Below(LineGoal, i - 1 - since)' /\ Below(LineGoal, i - since)'
        /\ Below(LineGoal, DESCENT - THROTTLE)'
    BY <2>2, <2>3, <2>4 DEF Below
  <2>6. sitter = "sleep" /\ mail # <<>> => Below(mail[1], i - 1)'
    BY <2>2 DEF DescentInv, Below
  <2> QED BY <1>1, <1>5, <2>2, <2>5, <2>6 DEF DescentInv, Subscribe
<1>6. CASE joint_state_callback
  <2>1. /\ bridge = "ready" /\ mail # <<>> /\ mail' = <<>>
        /\ UNCHANGED <<loop, sitter, i, bridge>>
    BY <1>6 DEF joint_state_callback, engineVars
  <2>2. sitter # "ended" /\ ~(sitter = "step" /\ i >= 1) BY <2>1 DEF DescentInv
  <2>3. CASE Due
    <3>1. Head(mail) \in Level /\ mail[1] = Head(mail)
      BY <2>1, TypesAre DEF MailType
    <3>2. Write(Head(mail), THROTTLE) /\ since' = 0
      BY <1>6, <2>3 DEF joint_state_callback
    <3>3. LineGoal' = mail[1] BY <3>1, <3>2, GoalWritten
    <3>4. sitter = "sleep" => Below(LineGoal, i - 1 - since)'
      <4>1. sitter = "sleep" => Below(mail[1], i - 1) BY <2>1 DEF DescentInv
      <4>2. i - 1 - 0 = i - 1 BY <1>1
      <4> QED BY <2>1, <3>2, <3>3, <4>1, <4>2 DEF Below
    <3>5. sitter = "step" => Below(LineGoal, i - since)'
      <4>1. sitter = "step" => i = 0 BY <1>1, <2>2
      <4>2. Below(mail[1], 0) BY <3>1, AnyIsBelowTop
      <4> QED BY <2>1, <3>2, <3>3, <4>1, <4>2 DEF Below
    <3> QED BY <1>1, <2>1, <2>2, <3>2, <3>4, <3>5 DEF DescentInv
  <2>4. CASE ~Due
    <3>1. since' = since /\ LineGoal' = LineGoal
      BY <1>6, <2>4, GoalStays DEF joint_state_callback, SinceDropped
    <3>2. since < THROTTLE BY <1>1, <2>4 DEF Due
    <3> QED BY <1>1, <2>1, <2>2, <3>1, <3>2 DEF DescentInv, Below
  <2> QED BY <2>3, <2>4
<1>7. CASE Shutdown
  <2>1. LineGoal' = 0
    <3>1. CASE bridge = "ready"
      BY <1>2, <1>7, <3>1, GoalWritten DEF Shutdown
    <3>2. CASE bridge # "ready"
      BY <1>7, <3>2, GoalStays DEF Shutdown, DescentInv
    <3> QED BY <3>1, <3>2
  <2> QED BY <1>7, <2>1 DEF Shutdown, DescentInv, engineVars
<1> QED BY <1>3, <1>4, <1>5, <1>6, <1>7 DEF Bridge

LEMMA GroundTick ==
  ASSUME TypeOK, DescentInv, Tick
  PROVE  DescentInv'
<1>1. /\ DESCENT \in Nat \ {0} /\ THROTTLE \in Nat \ {0}
      /\ since \in Int /\ since >= 0 /\ since <= THROTTLE
      /\ i \in Int /\ 0 <= i /\ i <= DESCENT
  BY DriveAssumption DEF TypeOK, DescentInv
<1>2. LineGoal' = LineGoal BY GoalSent
<1>3. /\ since' = Smaller(since + 1, THROTTLE) /\ mail = <<>>
      /\ UNCHANGED <<i, mail, bridge>> /\ loop # "act" /\ loop' # "act"
      /\ sitter # "step" /\ sitter' = IF sitter = "sleep" THEN "step" ELSE sitter
  BY DEF Tick, Quiet
<1>4. since' \in Int /\ since' >= 0 /\ since' <= THROTTLE BY <1>1, <1>3 DEF Smaller
<1>5. bridge = "ready" /\ sitter = "sleep" => Below(LineGoal, i - since)'
  <2>1. CASE bridge = "ready" /\ sitter = "sleep"
    <3>1. since < THROTTLE /\ Below(LineGoal, i - 1 - since) BY <1>3, <2>1 DEF DescentInv
    <3>2. since' = since + 1 BY <1>1, <1>3, <3>1 DEF Smaller
    <3>3. i' - since' = i - 1 - since BY <1>1, <1>3, <3>2
    <3> QED BY <1>2, <3>1, <3>3 DEF Below
  <2> QED BY <2>1
<1>6. bridge = "ready" /\ sitter = "ended" => Below(LineGoal, DESCENT - THROTTLE)'
  BY <1>2 DEF DescentInv, Below
<1> QED BY <1>1, <1>2, <1>3, <1>4, <1>5, <1>6 DEF DescentInv, TypeOK

LEMMA GroundStep ==
  ASSUME GroundInv, [Next]_vars
  PROVE  GroundInv'
<1>1. TypeOK /\ TypeOK' BY DriveTypesStep DEF GroundInv
<1> SUFFICES ASSUME faults' = <<>> PROVE DescentInv'
  BY <1>1 DEF GroundInv
<1>2. FaultType BY <1>1, TypesAre
<1>3. \A kind : ~Fault(kind) BY <1>2, FaultMarks
<1>4. faults = <<>>
  BY <1>3 DEF Next, Engine, LoopCheck, LoopAct, SitStart, SitStep, SitEnd, Bridge, Boot,
              CenterAll, Subscribe, joint_state_callback, Shutdown, Write, Tick, Kill, Crash,
              ClockStep, vars, worldVars
<1>5. DescentInv BY <1>4 DEF GroundInv
<1>6. CASE Kill
  <2>1. LineGoal' = LineGoal BY <1>6, GoalStays DEF Kill, bridgeVars
  <2> QED BY <1>5, <1>6, <2>1 DEF Kill, DescentInv, Below, engineVars, bridgeVars
<1>7. CASE UNCHANGED vars
  <2>1. LineGoal' = LineGoal BY <1>7, GoalStays DEF vars, bridgeVars, worldVars
  <2> QED BY <1>5, <1>7, <2>1 DEF vars, DescentInv, Below, engineVars, bridgeVars, worldVars
<1> QED BY <1>1, <1>3, <1>5, <1>6, <1>7, GroundEngine, GroundBridge, GroundTick
        DEF Next, Crash, ClockStep

(* As long as nothing goes wrong the robot is told to lie down: when sit_down *)
(* has ended (spider_gait_engine.py:91-120) and the serial line is empty,   *)
(* the servos are on their way to a pose no higher than the curve of the    *)
(* descent was (1 + MaxFaults) intervals of the rate limit before its end,  *)
(* although the bridge drops most messages (lsc32_hardware_bridge.py:55-58) *)
(* and may be stopped at any time.                                          *)
THEOREM GroundReached ==
  ASSUME (1 + MaxFaults) * THROTTLE <= DESCENT
  PROVE  Spec => []SafelyOnGround
<1>1. Init => GroundInv BY DriveTypesStart, GroundStart DEF GroundInv
<1>2. GroundInv => SafelyOnGround
  <2> SUFFICES ASSUME GroundInv, sitter = "ended", line = <<>>, NoFaultOf(Faults)
               PROVE  servo.goal <= Nearly
    BY DEF SafelyOnGround
  <2>1. faults = <<>>
    <3>1. FaultType BY TypesAre DEF GroundInv
    <3> SUFFICES ASSUME faults # <<>> PROVE FALSE OBVIOUS
    <3>2. 1 \in DOMAIN faults /\ faults[1] \in Faults BY <3>1 DEF FaultType
    <3> QED BY <3>2 DEF NoFaultOf
  <2>2. DescentInv /\ LineGoal = servo.goal BY <2>1 DEF GroundInv, LineGoal
  <2> DEFINE m == MaxFaults * THROTTLE
             j == DESCENT - (1 + MaxFaults) * THROTTLE
  <2>3. DESCENT \in Nat /\ THROTTLE \in Nat /\ MaxFaults \in Nat BY DriveAssumption
  <2>4. m \in Nat /\ (1 + MaxFaults) * THROTTLE = THROTTLE + m BY SMT, <2>3
  <2>5. j \in Int /\ 0 <= j /\ j <= DESCENT - THROTTLE /\ j <= DESCENT BY <2>3, <2>4
  <2> HIDE DEF j, m
  <2>6. Nearly = Bound(j) BY DEF Nearly, Bound, j
  <2>7. CASE bridge = "ready"
    <3>1. Below(servo.goal, DESCENT - THROTTLE) BY <2>2, <2>7 DEF DescentInv
    <3> QED BY <2>3, <2>5, <2>6, <3>1 DEF Below
  <2>8. CASE bridge # "ready"
    <3>1. servo.goal = 0 BY <2>2, <2>8 DEF DescentInv
    <3>2. Bound(j) \in Level BY <2>5, BoundFacts
    <3> QED BY <2>6, <3>1, <3>2, StandingNat DEF Level
  <2> QED BY <2>7, <2>8
<1> QED BY <1>1, <1>2, GroundStep, PTL DEF Spec

-----------------------------------------------------------------------------
(* The speed of the curves. *)

Reach == THROTTLE * MaxSpeed    \* what a servo may travel between two packets

LEMMA QuotientRises ==
  ASSUME NEW a \in Int, NEW c \in Int, NEW q \in Int, NEW b \in Nat \ {0}, c <= a + q * b
  PROVE  c \div b <= a \div b + q
<1> DEFINE r == c \div b
           s == a \div b
<1>1. r \in Int /\ b * r <= c /\ s \in Int /\ a < b * (s + 1)
  BY SMT
<1> HIDE DEF r, s
<1> SUFFICES ASSUME r >= s + q + 1 PROVE FALSE BY <1>1 DEF r, s
<1>2. b * r >= b * (s + q + 1) BY <1>1
<1>3. b * (s + q + 1) = b * (s + 1) + q * b BY <1>1
<1> QED BY <1>1, <1>2, <1>3

LEMMA SpeedFacts ==
  /\ MaxSpeed \in Nat \ {0}
  /\ 1500 <= RAMP * MaxSpeed /\ 1500 <= DESCENT * MaxSpeed
<1>1. RAMP \in Nat \ {0} /\ DESCENT \in Nat \ {0} BY DriveAssumption
<1> DEFINE n == Smaller(RAMP, DESCENT)
           q == 3000 \div (2 * n)
<1>2. n \in Nat \ {0} /\ n <= RAMP /\ n <= DESCENT BY <1>1 DEF Smaller
<1>3. MaxSpeed = q + 1 BY DEF MaxSpeed, Standing
<1> HIDE DEF n
<1>4. q \in Int /\ 3000 < (2 * n) * (q + 1) /\ (2 * n) * q <= 3000 /\ q >= 0 BY SMT, <1>2
<1> HIDE DEF q
<1>5. 1500 < n * (q + 1) BY SMT, <1>2, <1>4
<1>6. n * (q + 1) <= RAMP * (q + 1) /\ n * (q + 1) <= DESCENT * (q + 1)
  BY SMT, <1>1, <1>2, <1>4
<1>7. RAMP * (q + 1) \in Int /\ DESCENT * (q + 1) \in Int /\ n * (q + 1) \in Int
  BY SMT, <1>1, <1>2, <1>4
<1> QED BY <1>3, <1>4, <1>5, <1>6, <1>7

LEMMA ReachFacts ==
  /\ Reach \in Nat /\ MaxSpeed <= Reach
  /\ \A d \in Int : 0 <= d /\ d <= THROTTLE => d * MaxSpeed <= Reach
<1>1. THROTTLE \in Nat \ {0} BY DriveAssumption
<1>2. MaxSpeed \in Nat BY SpeedFacts
<1>3. ASSUME NEW d \in Int, 0 <= d, d <= THROTTLE PROVE d * MaxSpeed <= Reach
  BY SMT, <1>1, <1>2, <1>3 DEF Reach
<1>4. Reach \in Nat BY SMT, <1>1, <1>2 DEF Reach
<1>5. 1 * MaxSpeed <= Reach BY <1>1, <1>3
<1> QED BY <1>2, <1>3, <1>4, <1>5

(* The curve is steepest in its middle, at three halves of its mean. *)
LEMMA CurveSlope ==
  ASSUME NEW j \in Int, NEW d \in Int, NEW n \in Int, 0 <= d
  PROVE  2 * Curve(j + d, n) <= 2 * Curve(j, n) + 3 * (d * (n * n))
<1> DEFINE m == n - 2 * j - d
           f == 3 * (m * m) + d * d
<1>1. m \in Int /\ m * m >= 0 /\ d * d >= 0 /\ m * m \in Int /\ d * d \in Int BY SMT
<1>2. f \in Int /\ f >= 0 BY <1>1
<1>3. 3 * (d * (n * n)) + 2 * Curve(j, n) - 2 * Curve(j + d, n) = d * f
  BY SMT DEF Curve
<1> HIDE DEF f
<1>4. d * f >= 0 /\ d * f \in Int BY SMT, <1>2
<1>5. Curve(j, n) \in Int /\ Curve(j + d, n) \in Int /\ d * (n * n) \in Int BY SMT DEF Curve
<1> QED BY <1>3, <1>4, <1>5

LEMMA SmoothSlope ==
  ASSUME NEW j \in Int, NEW d \in Int, NEW n \in {RAMP, DESCENT}, 0 <= d
  PROVE  Smooth(j + d, n) <= Smooth(j, n) + d * MaxSpeed
<1>1. n \in Nat \ {0} BY DriveAssumption
<1>2. MaxSpeed \in Nat /\ 1500 <= n * MaxSpeed BY SpeedFacts
<1> DEFINE a == Curve(j, n)
           c == Curve(j + d, n)
           s == n * n
           b == n * n * n
           q == d * MaxSpeed
<1>3. /\ a \in Int /\ c \in Int /\ b \in Nat \ {0} /\ q \in Int /\ s \in Nat
      /\ Smooth(j, n) = (1000 * a) \div b /\ Smooth(j + d, n) = (1000 * c) \div b
  <2>1. /\ a \in Int /\ b \in Nat \ {0} /\ c \in Int
        /\ Smooth(j, n) = (Standing * a) \div b /\ Smooth(j + d, n) = (Standing * c) \div b
    BY <1>1, SmoothIsCurve
  <2>2. q \in Int /\ s \in Nat BY SMT, <1>1, <1>2
  <2> QED BY <2>1, <2>2 DEF Standing
<1>4. 2 * c <= 2 * a + 3 * (d * s)
  <2>1. n \in Int BY <1>1
  <2> HIDE <1>1
  <2> QED BY <2>1, CurveSlope
<1>5. 1500 * (d * s) <= q * b
  <2>1. d * s \in Int /\ d * s >= 0 BY SMT, <1>1
  <2>2. q * b = (d * s) * (n * MaxSpeed) BY SMT, <1>1, <1>2
  <2> DEFINE e == d * s
             f == n * MaxSpeed
  <2>3. f \in Int /\ 1500 <= f BY SMT, <1>1, <1>2
  <2> HIDE DEF e, f
  <2>4. 1500 * e <= e * f BY SMT, <2>1, <2>3 DEF e
  <2> QED BY <2>2, <2>4 DEF e, f
<1>6. q * b \in Int /\ d * s \in Int BY SMT, <1>1, <1>2
<1> HIDE DEF a, c, s, b, q
<1>7. 1000 * c <= 1000 * a + q * b BY <1>3, <1>4, <1>5, <1>6
<1>8. (1000 * c) \div b <= (1000 * a) \div b + q BY <1>3, <1>7, QuotientRises
<1> QED BY <1>3, <1>8 DEF q

(* What the engine has commanded at most, and at least, when its clock has    *)
(* shown e: one step of the ramp apart.                                     *)
Clip(e, n) == IF e < HOLD THEN 0 ELSE Smaller(e - HOLD, n)
Risen(e)   == Smooth(Clip(e, RAMP), RAMP)
Reached(e) == Smooth(Clip(e, RAMP - 1), RAMP)

LEMMA SmoothEnds ==
  ASSUME NEW n \in Nat \ {0}
  PROVE  Smooth(0, n) = 0 /\ Smooth(n, n) = Standing
<1> DEFINE b == n * n * n
<1>1. b \in Nat \ {0} BY SmoothIsCurve
<1>2. Curve(0, n) = 0 /\ Curve(n, n) = b BY SMT DEF Curve
<1>3. Smooth(0, n) = (Standing * 0) \div b /\ Smooth(n, n) = (Standing * b) \div b
  BY <1>2, SmoothIsCurve
<1> HIDE DEF b
<1>4. (1000 * 0) \div b = 0 /\ (1000 * b) \div b = 1000
  <2>1. 0 \div b = 0 BY SMT, <1>1
  <2> DEFINE q == (1000 * b) \div b
  <2>2. q \in Int /\ b * q <= 1000 * b /\ 1000 * b < b * (q + 1) BY SMT, <1>1
  <2> HIDE DEF q
  <2>3. ASSUME q >= 1001 PROVE FALSE
    <3>1. b * q >= b * 1001 BY SMT, <1>1, <2>2, <2>3
    <3> QED BY <1>1, <2>2, <3>1
  <2>4. ASSUME q <= 999 PROVE FALSE
    <3>1. b * (q + 1) <= b * 1000 BY SMT, <1>1, <2>2, <2>4
    <3> QED BY <1>1, <2>2, <3>1
  <2>5. q = 1000 BY <2>2, <2>3, <2>4
  <2> QED BY <2>1, <2>5 DEF q
<1> QED BY <1>3, <1>4 DEF Standing

LEMMA ClipFacts ==
  ASSUME NEW e \in Int, NEW n \in Nat
  PROVE  /\ Clip(e, n) \in Int /\ 0 <= Clip(e, n) /\ Clip(e, n) <= n
         /\ e <= HOLD => Clip(e, n) = 0
         /\ e >= HOLD + n => Clip(e, n) = n
         /\ e >= HOLD /\ e <= HOLD + n => Clip(e, n) = e - HOLD
BY DriveAssumption DEF Clip, Smaller

LEMMA RampFacts ==
  ASSUME NEW e \in Int, NEW f \in Int
  PROVE  /\ Risen(e) \in Level /\ Reached(e) \in Level /\ Reached(e) <= Risen(e)
         /\ e <= HOLD => Risen(e) = 0 /\ Reached(e) = 0
         /\ e >= Up => Risen(e) = Standing
         /\ e <= f => Risen(e) <= Risen(f) /\ Reached(e) <= Reached(f)
         /\ e >= Up - 1 /\ f >= Up - 1 => Reached(e) = Reached(f)
         /\ e >= HOLD /\ e <= Up - 1 => Risen(e) = Smooth(e - HOLD, RAMP) /\ Reached(e) = Risen(e)
<1>1. RAMP \in Nat \ {0} /\ HOLD \in Nat \ {0} /\ RAMP - 1 \in Nat BY DriveAssumption
<1>2. Smooth(0, RAMP) = 0 /\ Smooth(RAMP, RAMP) = Standing BY <1>1, SmoothEnds
<1>3. Up = HOLD + RAMP BY DEF Up
<1> DEFINE a == Clip(e, RAMP)
           b == Clip(e, RAMP - 1)
           c == Clip(f, RAMP)
           d == Clip(f, RAMP - 1)
<1>4. /\ a \in Int /\ 0 <= a /\ a <= RAMP /\ b \in Int /\ 0 <= b /\ b <= RAMP
      /\ c \in Int /\ 0 <= c /\ c <= RAMP /\ d \in Int /\ 0 <= d /\ d <= RAMP
  <2>1. /\ a \in Int /\ 0 <= a /\ a <= RAMP
        /\ c \in Int /\ 0 <= c /\ c <= RAMP
    BY <1>1, ClipFacts
  <2>2. /\ b \in Int /\ 0 <= b /\ b <= RAMP - 1
        /\ d \in Int /\ 0 <= d /\ d <= RAMP - 1
    BY <1>1, ClipFacts
  <2> HIDE DEF a, b, c, d
  <2> QED BY <1>1, <2>1, <2>2
<1>5. b <= a /\ (e <= f => a <= c /\ b <= d) BY <1>1 DEF Clip, Smaller
<1>6. /\ e <= HOLD => a = 0 /\ b = 0
      /\ e >= Up => a = RAMP
      /\ e >= Up - 1 /\ f >= Up - 1 => b = d
      /\ e >= HOLD /\ e <= Up - 1 => a = e - HOLD /\ b = a
  BY <1>1, <1>3 DEF Clip, Smaller
<1>7. Risen(e) = Smooth(a, RAMP) /\ Reached(e) = Smooth(b, RAMP) BY DEF Risen, Reached
<1>8. Risen(f) = Smooth(c, RAMP) /\ Reached(f) = Smooth(d, RAMP) BY DEF Risen, Reached
<1> HIDE DEF a, b, c, d
<1>9. Smooth(a, RAMP) \in Level /\ Smooth(b, RAMP) \in Level BY <1>1, <1>4, SmoothRange
<1>10. Smooth(b, RAMP) <= Smooth(a, RAMP) BY <1>1, <1>4, <1>5, SmoothGrows
<1>11. e <= f => Smooth(a, RAMP) <= Smooth(c, RAMP) /\ Smooth(b, RAMP) <= Smooth(d, RAMP)
  BY <1>1, <1>4, <1>5, SmoothGrows
<1> QED BY <1>2, <1>6, <1>7, <1>8, <1>9, <1>10, <1>11

LEMMA RampSlope ==
  ASSUME NEW e \in Int, NEW f \in Int, NEW d \in Int, 1 <= d, f <= e + d
  PROVE  Risen(f) <= Reached(e) + d * MaxSpeed
<1>1. RAMP \in Nat \ {0} /\ HOLD \in Nat \ {0} /\ RAMP - 1 \in Nat BY DriveAssumption
<1> DEFINE a == Clip(e, RAMP - 1)
           c == Clip(f, RAMP)
<1>2. a \in Int /\ 0 <= a /\ a <= RAMP /\ c \in Int /\ 0 <= c /\ c <= RAMP
  BY <1>1, ClipFacts
<1>3. c <= a + d BY <1>1 DEF Clip, Smaller
<1>4. Risen(f) = Smooth(c, RAMP) /\ Reached(e) = Smooth(a, RAMP) BY DEF Risen, Reached
<1>5. MaxSpeed \in Nat BY SpeedFacts
<1> HIDE DEF a, c
<1>6. Smooth(a, RAMP) \in Int /\ Smooth(c, RAMP) \in Int
  BY <1>1, <1>2, SmoothRange, StandingNat DEF Level
<1>7. CASE c <= a
  <2>1. Smooth(c, RAMP) <= Smooth(a, RAMP) BY <1>1, <1>2, <1>7, SmoothGrows
  <2>2. d * MaxSpeed \in Int /\ d * MaxSpeed >= 0 BY SMT, <1>5
  <2> QED BY <1>4, <1>6, <2>1, <2>2
<1>8. CASE a < c
  <2> DEFINE g == c - a
  <2>1. g \in Int /\ 0 <= g /\ g <= d /\ a + g = c BY <1>2, <1>3, <1>8
  <2> HIDE DEF g
  <2>2. Smooth(a + g, RAMP) <= Smooth(a, RAMP) + g * MaxSpeed
    <3> HIDE <1>1
    <3> QED BY <1>2, <2>1, SmoothSlope
  <2>3. g * MaxSpeed <= d * MaxSpeed /\ g * MaxSpeed \in Int /\ d * MaxSpeed \in Int
    BY SMT, <1>5, <2>1
  <2> QED BY <1>4, <1>6, <2>1, <2>2, <2>3
<1> QED BY <1>2, <1>7, <1>8

(* The pose of the loop lies on the ramp, and is never below the one before   *)
(* unless the clock has been set back.                                      *)
LEMMA PoseFacts ==
  ASSUME NEW now \in Level, elapsed \in Int
  PROVE  /\ Pose(now) \in Level /\ Pose(now) <= Risen(elapsed)
         /\ now <= Risen(elapsed) => now <= Pose(now)
         /\ elapsed < Up \/ Reached(elapsed) <= now => Reached(elapsed) <= Pose(now)
<1>1. HOLD \in Nat \ {0} /\ RAMP \in Nat \ {0} /\ Up = HOLD + RAMP
  BY DriveAssumption DEF Up
<1>2. now \in Int /\ 0 <= now /\ now <= Standing /\ Standing = 1000
  BY DEF Level, Standing
<1>3. Pose(now) \in Level BY PoseRange
<1>4. CASE elapsed < HOLD
  <2>1. Pose(now) = 0 BY <1>1, <1>4 DEF Pose
  <2>2. Risen(elapsed) = 0 /\ Reached(elapsed) = 0 BY <1>1, <1>4, RampFacts
  <2> QED BY <1>3, <2>1, <2>2, <1>2
<1>5. CASE elapsed >= HOLD /\ elapsed <= Up - 1
  <2>1. Pose(now) = Smooth(elapsed - HOLD, RAMP) BY <1>1, <1>5 DEF Pose
  <2>2. Risen(elapsed) = Pose(now) /\ Reached(elapsed) = Pose(now) BY <1>5, <2>1, RampFacts
  <2> QED BY <1>2, <1>3, <2>2 DEF Level
<1>6. CASE elapsed >= Up
  <2>1. Pose(now) = (now + 1000 + 1) \div 2 BY <1>1, <1>6 DEF Pose, Stance, Standing
  <2>2. Risen(elapsed) = 1000 BY <1>2, <1>6, RampFacts
  <2>3. now <= Pose(now) /\ Pose(now) <= 1000 BY SMT, <1>2, <2>1
  <2>4. Reached(elapsed) \in Int BY RampFacts DEF Level
  <2> QED BY <1>1, <1>2, <1>3, <1>6, <2>2, <2>3, <2>4 DEF Level
<1> QED BY <1>1, <1>4, <1>5, <1>6

(* The poses of sit_down fall from the first one at the pace of the curve. *)
Fallen(from, k) == (from * (Standing - Smooth(k, DESCENT))) \div Standing

LEMMA FallenFacts ==
  ASSUME NEW from \in Level, NEW j \in Int, NEW k \in Int, 0 <= j, j <= k, k <= DESCENT
  PROVE  /\ Fallen(from, j) \in Level /\ Fallen(from, k) \in Level
         /\ Fallen(from, 0) = from /\ Fallen(from, j) <= from
         /\ Fallen(from, k) <= Fallen(from, j)
         /\ Fallen(from, j) <= Fallen(from, k) + (k - j) * MaxSpeed
         /\ from <= Fallen(from, k) + Smooth(k, DESCENT)
<1>1. DESCENT \in Nat \ {0} BY DriveAssumption
<1>2. from \in Int /\ 0 <= from /\ from <= 1000 /\ Standing = 1000
  BY DEF Level, Standing
<1> DEFINE s(x) == Smooth(x, DESCENT)
           p(x) == Fallen(from, x)
<1>3. ASSUME NEW x \in Int, NEW y \in Int, 0 <= x, x <= y, y <= DESCENT
      PROVE  /\ p(y) <= p(x) /\ p(x) <= p(y) + (s(y) - s(x))
             /\ p(x) \in Int /\ 0 <= p(x) /\ p(x) <= 1000
             /\ s(x) \in Int /\ s(y) \in Int
  <2> DEFINE a == s(x)
             c == s(y)
             u == from * (1000 - a)
             w == from * (1000 - c)
  <2>1. a \in Level /\ c \in Level BY <1>1, <1>3, SmoothRange
  <2>2. a <= c BY <1>1, <1>3, SmoothGrows
  <2>3. a \in Int /\ c \in Int /\ 0 <= a /\ a <= 1000 /\ c <= 1000
    <3> HIDE DEF a, c
    <3> QED BY <1>2, <2>1 DEF Level
  <2>4. p(x) = u \div 1000 /\ p(y) = w \div 1000 BY <1>2 DEF Fallen
  <2> DEFINE g == c - a
  <2>5. g \in Int /\ g >= 0 BY <2>2, <2>3
  <2>6. u - w = from * g BY SMT, <1>2, <2>3
  <2>7. u \in Int /\ w \in Int BY SMT, <1>2, <2>3
  <2>8. 0 <= u /\ u <= 1000 * 1000
    <3> HIDE DEF a
    <3>1. 0 <= from * (1000 - a) BY SMT, <1>2, <2>3
    <3>2. from * (1000 - a) <= 1000 * (1000 - a) BY SMT, <1>2, <2>3
    <3> QED BY <2>3, <2>7, <3>1, <3>2
  <2> HIDE DEF a, c, u, w, g
  <2>9. 0 <= from * g /\ from * g <= 1000 * g /\ from * g \in Int BY SMT, <1>2, <2>5
  <2>10. w <= u /\ u <= w + g * 1000 BY <2>5, <2>6, <2>7, <2>9
  <2>11. w \div 1000 <= u \div 1000 BY <2>7, <2>10, QuotientGrows
  <2>12. u \div 1000 <= w \div 1000 + g BY <2>5, <2>7, <2>10, QuotientRises
  <2>13. u \div 1000 \in Int /\ 0 <= u \div 1000 /\ u \div 1000 <= 1000
    BY <1>2, <2>7, <2>8, LevelQuotient
  <2> QED BY <2>3, <2>4, <2>11, <2>12, <2>13 DEF g, a, c
<1>4. s(0) = 0 BY <1>1, SmoothEnds
<1>5. p(0) = from
  <2>1. p(0) = (from * (1000 - 0)) \div 1000 BY <1>2, <1>4 DEF Fallen
  <2>2. (from * 1000) \div 1000 = from BY SMT, <1>2
  <2> QED BY <1>2, <2>1, <2>2
<1>6. s(k) - s(j) <= (k - j) * MaxSpeed
  <2> DEFINE d == k - j
  <2>1. d \in Int /\ 0 <= d /\ j + d = k OBVIOUS
  <2> HIDE DEF d
  <2>2. Smooth(j + d, DESCENT) <= Smooth(j, DESCENT) + d * MaxSpeed BY <2>1, SmoothSlope
  <2>3. s(k) \in Int /\ s(j) \in Int BY <1>3
  <2>4. d * MaxSpeed \in Int BY SMT, <2>1, SpeedFacts
  <2>5. s(k) <= s(j) + d * MaxSpeed BY <2>1, <2>2
  <2> HIDE DEF s
  <2> QED BY <2>3, <2>4, <2>5 DEF d
<1>7. (k - j) * MaxSpeed \in Int BY SMT, SpeedFacts
<1>8. /\ p(j) <= p(0) /\ p(0) <= p(k) + (s(k) - s(0)) /\ s(k) \in Int
  BY <1>1, <1>3
<1>9. /\ p(k) <= p(j) /\ p(j) <= p(k) + (s(k) - s(j)) /\ s(j) \in Int
      /\ p(j) \in Int /\ 0 <= p(j) /\ p(j) <= 1000
  BY <1>3
<1>10. p(k) \in Int /\ 0 <= p(k) /\ p(k) <= 1000 BY <1>3
<1>11. from <= p(k) + s(k) BY <1>4, <1>5, <1>8, <1>10
<1>12. p(j) <= p(k) + (k - j) * MaxSpeed
  <2> HIDE DEF s, p
  <2> QED BY <1>6, <1>7, <1>8, <1>9, <1>10
<1>13. p(j) \in Level /\ p(k) \in Level
  <2>1. \A n \in Int : 0 <= n /\ n <= 1000 => n \in Level BY <1>2 DEF Level
  <2> QED BY <1>9, <1>10, <2>1
<1> QED BY <1>5, <1>8, <1>9, <1>11, <1>12, <1>13

(* A servo that can reach its goal in time, from below or from above, without *)
(* going faster than the curves; and one that will rest in n ticks.         *)
Climbs(s)     == s.goal - s.at <= s.move * MaxSpeed
Falls(s)      == s.at - s.goal <= s.move * MaxSpeed
Settled(s)    == s.move = 0 => s.at = s.goal
Arrives(s, n) == s.at = s.goal \/ s.move <= n

LEMMA ServoFields ==
  ASSUME NEW s \in ServoType
  PROVE  s.at \in Int /\ s.goal \in Int /\ s.move \in Nat
<1>1. Larger(THROTTLE, CENTER) \in Nat BY Durations DEF Larger
<1> QED BY <1>1, StandingNat DEF ServoType, Level

LEMMA MovedIs ==
  ASSUME NEW s \in ServoType, s.move # 0
  PROVE  /\ Moved(s).at = s.at + (s.goal - s.at) \div s.move
         /\ Moved(s).goal = s.goal /\ Moved(s).move = s.move - 1
BY DEF Moved, ServoType

(* What is left of a distance after one of m equal steps, rounded down. *)
LEMMA OneOfSteps ==
  ASSUME NEW d \in Int, NEW m \in Nat \ {0}, NEW v \in Nat
  PROVE  /\ d <= m * v => d \div m <= v /\ d - d \div m <= (m - 1) * v
         /\ -d <= m * v => -(d \div m) <= v /\ d \div m - d <= (m - 1) * v
<1> DEFINE q == d \div m
<1>1. q \in Int /\ m * q <= d /\ d < m * (q + 1) BY SMT
<1> HIDE DEF q
<1>2. /\ m * q \in Int /\ m * v \in Int /\ (m - 1) * v = m * v - v
      /\ m * (q + 1) = m * q + m
  BY SMT, <1>1
<1>3. ASSUME d <= m * v PROVE q <= v /\ d - q <= (m - 1) * v
  <2>1. q <= v
    <3> SUFFICES ASSUME q >= v + 1 PROVE FALSE BY <1>1
    <3>1. m * q >= m * (v + 1) /\ m * (v + 1) = m * v + m BY SMT, <1>1
    <3> QED BY <1>1, <1>2, <1>3, <3>1
  <2>2. CASE q = v
    <3>1. d - q <= m * v - v BY <1>1, <1>2, <1>3, <2>2
    <3> QED BY <1>2, <2>1, <3>1
  <2>3. CASE q <= v - 1
    <3>1. (m - 1) * (q + 1) <= (m - 1) * v BY SMT, <1>1, <2>3
    <3>2. (m - 1) * (q + 1) = m * q + m - q - 1 BY SMT, <1>1
    <3>3. (m - 1) * v \in Int BY SMT
    <3> DEFINE x == (m - 1) * v
               y == m * q
               z == (m - 1) * (q + 1)
    <3>4. z <= x /\ z = y + m - q - 1 /\ d < y + m /\ x \in Int /\ y \in Int
      BY <1>1, <1>2, <3>1, <3>2, <3>3
    <3> HIDE DEF x, y, z
    <3>5. d - q <= x BY <1>1, <3>4
    <3> QED BY <2>1, <3>5 DEF x
  <2> QED BY <1>1, <2>1, <2>2, <2>3
<1>4. ASSUME -d <= m * v PROVE -q <= v /\ q - d <= (m - 1) * v
  <2>1. -q <= v
    <3> SUFFICES ASSUME q <= -v - 1 PROVE FALSE BY <1>1
    <3>1. m * (q + 1) <= m * (-v) /\ m * (-v) = -(m * v) BY SMT, <1>1
    <3> QED BY <1>1, <1>2, <1>4, <3>1
  <2>2. (m - 1) * (-q) <= (m - 1) * v BY SMT, <1>1, <2>1
  <2>3. (m - 1) * (-q) = q - m * q BY SMT, <1>1
  <2>4. (m - 1) * v \in Int BY SMT
  <2> QED BY <1>1, <1>2, <2>1, <2>2, <2>3, <2>4
<1> QED BY <1>1, <1>3, <1>4 DEF q

LEMMA MovedSlowly ==
  ASSUME NEW s \in ServoType, Settled(s)
  PROVE  /\ Settled(Moved(s))
         /\ Climbs(s) => Climbs(Moved(s)) /\ Moved(s).at - s.at <= MaxSpeed
         /\ Falls(s) => Falls(Moved(s)) /\ s.at - Moved(s).at <= MaxSpeed
<1>1. s.at \in Int /\ s.goal \in Int /\ s.move \in Nat BY ServoFields
<1>2. MaxSpeed \in Nat BY SpeedFacts
<1>3. CASE s.move = 0
  <2>1. Moved(s) = s BY <1>3 DEF Moved
  <2> QED BY <1>1, <1>2, <2>1
<1>4. CASE s.move # 0
  <2> DEFINE d == s.goal - s.at
             m == s.move
             q == d \div m
             r == Moved(s)
  <2>1. r.at = s.at + q /\ r.goal = s.goal /\ r.move = m - 1 BY <1>4, MovedIs
  <2>2. m \in Nat \ {0} /\ d \in Int BY <1>1, <1>4
  <2>3. q \in Int BY SMT, <2>2
  <2>4. /\ d <= m * MaxSpeed => q <= MaxSpeed /\ d - q <= (m - 1) * MaxSpeed
        /\ -d <= m * MaxSpeed => -q <= MaxSpeed /\ q - d <= (m - 1) * MaxSpeed
    <3> HIDE DEF d, m
    <3> QED BY <1>2, <2>2, OneOfSteps
  <2>5. m = 1 => q = d BY SMT, <2>2
  <2> HIDE DEF q, r
  <2>6. Settled(r) BY <1>1, <2>1, <2>2, <2>5 DEF Settled
  <2>7. r.goal - r.at = d - q /\ r.at - r.goal = q - d BY <1>1, <2>1, <2>3
  <2>8. r.at - s.at = q /\ s.at - r.at = -q BY <1>1, <2>1, <2>3
  <2>9. s.at - s.goal = -d BY <1>1
  <2>10. ASSUME Climbs(s) PROVE Climbs(r) /\ r.at - s.at <= MaxSpeed
    <3>1. d <= m * MaxSpeed BY <2>10 DEF Climbs
    <3>2. q <= MaxSpeed /\ d - q <= (m - 1) * MaxSpeed BY <2>4, <3>1
    <3> QED BY <2>1, <2>7, <2>8, <3>2 DEF Climbs
  <2>11. ASSUME Falls(s) PROVE Falls(r) /\ s.at - r.at <= MaxSpeed
    <3>1. -d <= m * MaxSpeed BY <2>9, <2>11 DEF Falls
    <3>2. -q <= MaxSpeed /\ q - d <= (m - 1) * MaxSpeed BY <2>4, <3>1
    <3> QED BY <2>1, <2>7, <2>8, <3>2 DEF Falls
  <2> QED BY <2>6, <2>10, <2>11 DEF r
<1> QED BY <1>3, <1>4

LEMMA MovedArrives ==
  ASSUME NEW s \in ServoType, Settled(s), NEW n \in Int, Arrives(s, n)
  PROVE  Arrives(Moved(s), n - 1) /\ (n <= 1 => Moved(s).at = s.goal)
<1>1. s.at \in Int /\ s.goal \in Int /\ s.move \in Nat BY ServoFields
<1>2. CASE s.move = 0
  <2>1. Moved(s) = s BY <1>2 DEF Moved
  <2> QED BY <1>2, <2>1 DEF Settled, Arrives
<1>3. CASE s.move # 0
  <2> DEFINE r == Moved(s)
  <2>1. r.at = s.at + (s.goal - s.at) \div s.move /\ r.goal = s.goal /\ r.move = s.move - 1
    BY <1>3, MovedIs
  <2> HIDE DEF r
  <2>2. CASE s.at = s.goal
    <3>1. (s.goal - s.at) \div s.move = 0
      <4>1. \A m \in Nat \ {0} : 0 \div m = 0 BY SMT
      <4> QED BY <1>1, <1>3, <2>2, <4>1
    <3> QED BY <1>1, <2>1, <2>2, <3>1 DEF Arrives, r
  <2>3. CASE s.move <= n
    <3>1. s.move = 1 => (s.goal - s.at) \div s.move = s.goal - s.at BY SMT, <1>1
    <3>2. n <= 1 => s.move = 1 BY <1>1, <1>3, <2>3
    <3>3. r.move <= n - 1 BY <1>1, <2>1, <2>3
    <3>4. n <= 1 => r.at = s.goal BY <1>1, <2>1, <3>1, <3>2
    <3> QED BY <3>3, <3>4 DEF Arrives, r
  <2> QED BY <2>2, <2>3 DEF Arrives
<1> QED BY <1>2, <1>3

-----------------------------------------------------------------------------
(* The order of the engine's two threads and of the bridge, in every run. *)
Order ==
  /\ sitter # "idle" /\ loop = "act"
       => \/ sitter = "step" /\ i = 0
          \/ sitter = "sleep" /\ i = 1
  /\ sitter = "sleep" => i >= 1
  /\ (sitter = "step" /\ i >= 1) \/ sitter = "ended" => mail = <<>>
  /\ mail # <<>> => bridge = "ready"
  /\ sitter = "idle" => loop # "ended"

LEMMA OrderStep ==
  ASSUME TypeOK, Order, [Next]_vars
  PROVE  Order'
<1>1. i \in Int /\ 0 <= i /\ i <= DESCENT /\ DESCENT \in Nat \ {0}
  BY DriveAssumption DEF TypeOK
<1>2. CASE LoopCheck BY <1>2 DEF LoopCheck, Goes, Order, bridgeVars
<1>3. CASE LoopAct BY <1>1, <1>3 DEF LoopAct, Publish, Order, bridgeVars, TypeOK
<1>4. CASE SitStart BY <1>4 DEF SitStart, Order, bridgeVars
<1>5. CASE SitStep
  <2>1. i' >= 1 /\ (loop = "act" => i' = 1) BY <1>1, <1>5 DEF SitStep, Order
  <2> QED BY <1>5, <2>1 DEF SitStep, Publish, Order, bridgeVars
<1>6. CASE SitEnd
  <2>1. i >= 1 BY <1>1, <1>6 DEF SitEnd
  <2>2. loop # "act" BY <1>1, <1>6, <2>1 DEF SitEnd, Order
  <2> QED BY <1>6, <2>1, <2>2 DEF SitEnd, Order, bridgeVars
<1>7. CASE Bridge
  BY <1>7 DEF Bridge, Boot, CenterAll, Subscribe, joint_state_callback, Shutdown, Order,
              engineVars, worldVars
<1>8. CASE Tick
  <2>1. /\ loop # "act" /\ loop' # "act" /\ sitter # "step" /\ mail = <<>>
        /\ UNCHANGED <<i, mail, bridge>> /\ (sitter = "idle" <=> sitter' = "idle")
        /\ (loop' = "ended" => loop = "ended") /\ sitter' # "sleep"
    BY <1>8 DEF Tick, Quiet
  <2> QED BY <2>1 DEF Order
<1>9. CASE Kill \/ Crash \/ ClockStep
  BY <1>9 DEF Kill, Crash, ClockStep, Order, engineVars, bridgeVars
<1>10. CASE UNCHANGED vars BY <1>10 DEF vars, engineVars, bridgeVars, Order
<1> QED BY <1>2, <1>3, <1>4, <1>5, <1>6, <1>7, <1>8, <1>9, <1>10 DEF Next, Engine

LEMMA GoalAppended ==
  ASSUME LineType, NEW level \in Level, NEW time \in {THROTTLE, CENTER},
         line' = Append(line, Packet(level, time))
  PROVE  LineGoal' = level
<1>1. Packet(level, time) \in PacketType BY PacketOfType
<1>2. /\ Len(line') = Len(line) + 1 /\ line' # <<>>
      /\ line'[Len(line) + 1] = Packet(level, time)
  BY <1>1, AppendProperties DEF LineType
<1> QED BY <1>2 DEF LineGoal, Packet

(* What a fault leaves behind. *)
LEMMA FaultRemembered ==
  ASSUME FaultType, NEW kinds, NEW kind, Fault(kind), NoFaultOf(kinds)'
  PROVE  kind \notin kinds /\ NoFaultOf(kinds)
<1>1. kind \in Faults /\ faults \in Seq(Faults) /\ faults' = Append(faults, kind)
  BY DEF FaultType, Fault
<1>2. /\ Len(faults') = Len(faults) + 1 /\ faults' \in Seq(Faults) /\ Len(faults) \in Nat
      /\ faults'[Len(faults) + 1] = kind
      /\ \A n \in 1 .. Len(faults) : faults'[n] = faults[n]
  BY <1>1, AppendProperties
<1>3. DOMAIN faults = 1 .. Len(faults) /\ DOMAIN faults' = 1 .. Len(faults) + 1
  BY <1>1, <1>2
<1> QED BY <1>2, <1>3 DEF NoFaultOf

-----------------------------------------------------------------------------
(* GentleRise, the line: a packet takes a servo that has reached its last goal *)
(* up by no more than the curves climb in the time between two packets.     *)
Gentle(level, time, rest) ==
  level = 0 \/ (time = THROTTLE /\ level - servo.goal <= Reach /\ Arrives(servo, rest))

OneRises ==
  \E level \in Level, time \in {THROTTLE, CENTER}, k \in 1 .. FRAME :
     /\ line = <<OnLine(level, time, k)>> /\ Gentle(level, time, k)
     /\ bridge = "ready" => time = THROTTLE

TwoRise ==
  \E level \in Level, time \in {THROTTLE, CENTER}, k \in 1 .. FRAME, k2 \in 1 .. FRAME :
     line = <<OnLine(level, time, k), OnLine(0, CENTER, k2)>> /\ Gentle(level, time, k)

RiseLine ==
  /\ Settled(servo) /\ Climbs(servo)
  /\ line = <<>> \/ OneRises \/ (bridge = "closed" /\ TwoRise)
  /\ bridge = "ready" /\ line = <<>> => Arrives(servo, FRAME + THROTTLE - since)

LEMMA TimesPositive ==
  ASSUME NEW time \in {THROTTLE, CENTER}
  PROVE  time \in Nat \ {0} /\ time * MaxSpeed \in Nat
<1>1. time \in Nat \ {0} BY DriveAssumption
<1>2. MaxSpeed \in Nat BY SpeedFacts
<1> QED BY SMT, <1>1, <1>2

(* A packet that arrives at a servo, and what becomes of it. *)
LEMMA GentleArrives ==
  ASSUME TypeOK, Settled(servo), NEW level \in Level, NEW time \in {THROTTLE, CENTER},
         NEW rest, Gentle(level, time, 1), servo' = Commanded(Moved(servo), OnLine(level, time, rest))
  PROVE  /\ Settled(servo') /\ Climbs(servo')
         /\ servo'.at = Moved(servo).at /\ servo'.move = time
<1>1. servo \in ServoType BY TypesAre
<1> DEFINE r == Moved(servo)
<1>2. r \in ServoType /\ r.goal = servo.goal BY <1>1, MovedRange
<1>3. r.at \in Int /\ r.at >= 0 BY <1>2, StandingNat DEF ServoType, Level
<1>4. servo.goal \in Int /\ level \in Int BY <1>1, ServoFields, StandingNat DEF Level
<1>5. time \in Nat \ {0} /\ time * MaxSpeed \in Nat BY TimesPositive
<1>6. servo'.at = r.at /\ servo'.goal = level /\ servo'.move = time
  <2> HIDE DEF r
  <2> QED BY <1>2 DEF Commanded, OnLine, ServoType, r
<1>7. Arrives(servo, 1) => r.at = servo.goal BY <1>1, MovedArrives
<1> HIDE DEF r
<1>8. level - r.at <= time * MaxSpeed
  <2>1. CASE level = 0 BY <1>3, <1>5, <2>1
  <2>2. CASE level # 0 BY <1>4, <1>7, <2>2 DEF Gentle, Reach
  <2> QED BY <2>1, <2>2
<1> QED BY <1>5, <1>6, <1>8 DEF Settled, Climbs, r

LEMMA GentleStays ==
  ASSUME TypeOK, Settled(servo), NEW level \in Level, NEW time, NEW k \in Int,
         Gentle(level, time, k), servo' = Moved(servo)
  PROVE  /\ level = 0 \/ (time = THROTTLE /\ level - servo'.goal <= Reach /\ Arrives(servo', k - 1))
<1>1. servo \in ServoType BY TypesAre
<1>2. servo'.goal = servo.goal BY <1>1, MovedRange
<1>3. Arrives(servo, k) => Arrives(servo', k - 1) BY <1>1, MovedArrives
<1> QED BY <1>2, <1>3 DEF Gentle

LEMMA RiseLineTick ==
  ASSUME TypeOK, LineInv, RiseLine, Tick
  PROVE  RiseLine' /\ ~Rises(MaxSpeed)
<1> DEFINE r == Moved(servo)
<1>1. servo \in ServoType /\ Settled(servo) /\ Climbs(servo) BY TypesAre DEF RiseLine
<1>2. /\ Settled(r) /\ Climbs(r) /\ r.at - servo.at <= MaxSpeed
      /\ r \in ServoType
  BY <1>1, MovedSlowly, MovedRange
<1>3. /\ since' = Smaller(since + 1, THROTTLE) /\ bridge' = bridge
      /\ since \in Int /\ since' \in Int /\ since' <= since + 1
  <2>1. since \in Int /\ since' = Smaller(since + 1, THROTTLE) /\ bridge' = bridge
    BY TypesAre DEF Tick
  <2> QED BY <2>1, Durations DEF Smaller
<1>4. r.at \in Int /\ servo.at \in Int /\ MaxSpeed \in Nat /\ FRAME \in Nat /\ THROTTLE \in Nat
  BY <1>1, <1>2, ServoFields, SpeedFacts, Durations
<1>5. servo'.at = r.at => ~Rises(MaxSpeed) BY <1>2, <1>4 DEF Rises
<1>6. CASE line = <<>>
  <2>1. servo' = r /\ line' = <<>> BY <1>6 DEF Tick
  <2>2. bridge = "ready" => Arrives(servo', FRAME + THROTTLE - since')
    <3>1. CASE bridge = "ready"
      <4> DEFINE n == FRAME + THROTTLE - since
      <4>1. n \in Int /\ n - 1 <= FRAME + THROTTLE - since' BY <1>3, <1>4
      <4>2. Arrives(servo, n) BY <1>6, <3>1 DEF RiseLine
      <4> HIDE DEF n
      <4>3. Arrives(r, n - 1) BY <1>1, <4>1, <4>2, MovedArrives
      <4>4. r.move \in Nat BY <1>2, ServoFields
      <4> HIDE DEF r
      <4>5. FRAME + THROTTLE - since' \in Int BY <1>3, <1>4
      <4> QED BY <2>1, <4>1, <4>3, <4>4, <4>5 DEF Arrives
    <3> QED BY <3>1
  <2> QED BY <1>2, <1>3, <1>5, <2>1, <2>2 DEF RiseLine
<1>7. CASE OneRises
  <2>1. PICK level \in Level, time \in {THROTTLE, CENTER}, k \in 1 .. FRAME :
          /\ line = <<OnLine(level, time, k)>> /\ Gentle(level, time, k)
          /\ bridge = "ready" => time = THROTTLE
    BY <1>7 DEF OneRises
  <2>2. /\ line # <<>> /\ Head(line) = OnLine(level, time, k) /\ Head(line).left = k
        /\ Tail(line) = <<>> /\ [line EXCEPT ![1].left = @ - 1] = <<OnLine(level, time, k - 1)>>
        /\ line[1].left = k
    <3>1. k \in Int OBVIOUS
    <3> QED BY <2>1, <3>1, OneSent DEF OnLine
  <2>3. CASE k = 1
    <3>1. line' = <<>> /\ servo' = Commanded(r, OnLine(level, time, k))
      BY <2>2, <2>3 DEF Tick
    <3>2. /\ Settled(servo') /\ Climbs(servo') /\ servo'.at = r.at /\ servo'.move = time
      BY <1>1, <2>1, <2>3, <3>1, GentleArrives
    <3>3. bridge = "ready" => Arrives(servo', FRAME + THROTTLE - since')
      <4>1. CASE bridge = "ready"
        <5>1. FreeIn(FRAME - since) BY <4>1 DEF LineInv
        <5>2. PICK l2, t2 : \E n \in 1 .. FRAME - since : line = <<OnLine(l2, t2, n)>>
          BY <2>2, <5>1 DEF FreeIn
        <5>3. PICK n \in 1 .. FRAME - since : line = <<OnLine(l2, t2, n)>> BY <5>2
        <5>4. 1 <= FRAME - since BY <1>3, <1>4, <5>3
        <5>5. servo'.move <= FRAME + THROTTLE - since'
          BY <1>3, <1>4, <2>1, <3>2, <4>1, <5>4
        <5> QED BY <5>5 DEF Arrives
      <4> QED BY <4>1
    <3> QED BY <1>3, <1>5, <3>1, <3>2, <3>3 DEF RiseLine
  <2>4. CASE k # 1
    <3>1. line' = <<OnLine(level, time, k - 1)>> /\ servo' = r
      BY <2>2, <2>4 DEF Tick
    <3>2. k \in Int /\ k - 1 \in 1 .. FRAME BY <1>4, <2>4
    <3>3. level = 0 \/ (time = THROTTLE /\ level - servo'.goal <= Reach /\ Arrives(servo', k - 1))
      BY <1>1, <2>1, <3>1, <3>2, GentleStays
    <3>4. OneRises' BY <1>3, <2>1, <3>1, <3>2, <3>3 DEF OneRises, Gentle
    <3>5. line' # <<>> BY <3>1
    <3> QED BY <1>2, <1>5, <3>1, <3>4, <3>5 DEF RiseLine
  <2> QED BY <2>3, <2>4
<1>8. CASE bridge = "closed" /\ TwoRise
  <2>1. PICK level \in Level, time \in {THROTTLE, CENTER}, k \in 1 .. FRAME, k2 \in 1 .. FRAME :
          /\ line = <<OnLine(level, time, k), OnLine(0, CENTER, k2)>>
          /\ Gentle(level, time, k)
    BY <1>8 DEF TwoRise
  <2>2. /\ line # <<>> /\ Head(line) = OnLine(level, time, k) /\ Head(line).left = k
        /\ Tail(line) = <<OnLine(0, CENTER, k2)>>
        /\ [line EXCEPT ![1].left = @ - 1] = <<OnLine(level, time, k - 1), OnLine(0, CENTER, k2)>>
    <3>1. k \in Int /\ k2 \in Int OBVIOUS
    <3> QED BY <2>1, <3>1, TwoSent DEF OnLine
  <2>3. CASE k = 1
    <3>1. line' = <<OnLine(0, CENTER, k2)>> /\ servo' = Commanded(r, OnLine(level, time, k))
      BY <2>2, <2>3 DEF Tick
    <3>2. /\ Settled(servo') /\ Climbs(servo') /\ servo'.at = r.at
      BY <1>1, <2>1, <2>3, <3>1, GentleArrives
    <3>3. OneRises'
      <4>1. 0 \in Level /\ CENTER \in {THROTTLE, CENTER} BY StandingNat DEF Level
      <4> QED BY <1>3, <1>8, <3>1, <4>1 DEF OneRises, Gentle
    <3> QED BY <1>3, <1>5, <1>8, <3>2, <3>3 DEF RiseLine
  <2>4. CASE k # 1
    <3>1. line' = <<OnLine(level, time, k - 1), OnLine(0, CENTER, k2)>> /\ servo' = r
      BY <2>2, <2>4 DEF Tick
    <3>2. k \in Int /\ k - 1 \in 1 .. FRAME BY <1>4, <2>4
    <3>3. level = 0 \/ (time = THROTTLE /\ level - servo'.goal <= Reach /\ Arrives(servo', k - 1))
      BY <1>1, <2>1, <3>1, <3>2, GentleStays
    <3>4. TwoRise' BY <3>1, <3>2, <3>3 DEF TwoRise, Gentle
    <3> QED BY <1>2, <1>3, <1>5, <1>8, <3>1, <3>4 DEF RiseLine
  <2> QED BY <2>3, <2>4
<1> QED BY <1>6, <1>7, <1>8 DEF RiseLine

(* GentleRise, the goals: the packets follow the curve because the engine's    *)
(* clock and that of the rate limit are the same one.  When the bridge may   *)
(* write again, the engine has come exactly one interval beyond the time of  *)
(* the last write, elapsed - since, wherever the clock was set in between.   *)
Sound    == NoFaultOf({"crash", "write", "port"})
Starting == bridge \in {"down", "boot", "center"}

EngineRises ==
  sitter = "idle" => /\ Reached(elapsed - 1) <= current
                     /\ loop = "sleep" => Reached(elapsed) <= current

RiseBoot ==
  Starting =>
    /\ current = 0 /\ start = 0 /\ LineGoal = 0 /\ servo.at = 0 /\ servo.goal = 0
    /\ elapsed + wait <= HOLD
    /\ bridge = "down" => elapsed + wait + STARTUP + CENTER <= HOLD
    /\ bridge = "boot" => elapsed + wait + CENTER <= HOLD

RiseIdle ==
  bridge = "ready" /\ sitter = "idle" =>
    /\ Reached(elapsed - since) <= LineGoal
    /\ current <= Risen(elapsed - since + THROTTLE)
    /\ mail # <<>> => mail[1] = current /\ Reached(elapsed) <= current
    /\ loop = "sleep" /\ mail = <<>> => since < THROTTLE

RiseSit ==
  bridge = "ready" /\ sitter \in {"step", "sleep"} =>
    /\ Fallen(start, i) <= LineGoal + Reach
    /\ mail # <<>> /\ since = THROTTLE => /\ mail[1] <= LineGoal + Reach
                                          /\ Fallen(start, i) <= mail[1] + Reach
    /\ loop = "act" /\ since = THROTTLE => /\ current = start /\ start <= Risen(elapsed)
                                           /\ Reached(elapsed - THROTTLE) <= LineGoal

RiseGoals == RiseBoot /\ RiseIdle /\ RiseSit

RiseInv == /\ TypeOK /\ LineInv /\ Order /\ EngineRises
           /\ Sound => RiseLine /\ RiseGoals

LEMMA DescendedIsFallen ==
  ASSUME NEW k PROVE Descended(k) = Fallen(start, k)
BY DEF Descended, Fallen

(* Types without the ranges' definitions, for arithmetic. *)
LEMMA NumbersAre ==
  ASSUME TypeOK
  PROVE  /\ i \in Int /\ 0 <= i /\ i <= DESCENT
         /\ start \in Level /\ start \in Int /\ 0 <= start /\ start <= Standing
         /\ current \in Level /\ current \in Int /\ 0 <= current /\ current <= Standing
         /\ LineGoal \in Level /\ LineGoal \in Int /\ 0 <= LineGoal
         /\ elapsed \in Int /\ elapsed <= Horizon /\ since \in Int /\ since <= THROTTLE
         /\ wait \in Nat
<1>1. i \in 0 .. DESCENT /\ DESCENT \in Nat BY TypesAre, DriveAssumption
<1>2. start \in Level /\ current \in Level /\ LineGoal \in Level BY TypesAre, GoalIsLevel
<1>3. \A n \in Level : n \in Int /\ 0 <= n /\ n <= Standing BY StandingNat DEF Level
<1> QED BY <1>1, <1>2, <1>3, TypesAre

LEMMA RisenFacts ==
  ASSUME NEW e \in Int, NEW f \in Int
  PROVE  /\ Risen(e) \in Int /\ 0 <= Risen(e) /\ Reached(e) \in Int /\ Reached(e) <= Risen(e)
         /\ e <= HOLD => Risen(e) = 0 /\ Reached(e) = 0
         /\ e >= Up => Risen(e) = Standing
         /\ e <= f => Risen(e) <= Risen(f) /\ Reached(e) <= Reached(f)
         /\ e >= Up - 1 /\ f >= Up - 1 => Reached(e) = Reached(f)
         /\ e <= f + THROTTLE => Risen(e) <= Reached(f) + Reach
<1>1. \A n \in Level : n \in Int /\ 0 <= n BY StandingNat DEF Level
<1>2. THROTTLE \in Nat \ {0} BY DriveAssumption
<1>3. ASSUME e <= f + THROTTLE PROVE Risen(e) <= Reached(f) + Reach
  <2> DEFINE d == THROTTLE
  <2>1. d \in Int /\ 1 <= d /\ e <= f + d BY <1>2, <1>3
  <2> HIDE DEF d
  <2>2. Risen(e) <= Reached(f) + d * MaxSpeed BY <2>1, RampSlope
  <2> QED BY <2>2 DEF d, Reach
<1> QED BY <1>1, <1>3, RampFacts

LEMMA RiseStart ==
  ASSUME \A s \in Skews : s + STARTUP + CENTER <= HOLD, Init
  PROVE  RiseInv
<1>1. TypeOK /\ LineInv BY DriveTypesStart, LineStart
<1>2. /\ HOLD \in Nat \ {0} /\ STARTUP \in Nat /\ CENTER \in Nat /\ Skews \subseteq Nat
      /\ THROTTLE \in Nat \ {0} /\ MaxSpeed \in Nat
  BY DriveAssumption, SpeedFacts
<1>3. Reached(elapsed - 1) = 0
  <2>1. elapsed - 1 \in Int /\ elapsed - 1 <= HOLD BY <1>2 DEF Init
  <2> QED BY <2>1, RisenFacts
<1>4. RiseBoot
  <2>1. LineGoal = 0 BY DEF Init, LineGoal
  <2>2. wait + STARTUP + CENTER <= HOLD /\ wait \in Nat BY <1>2 DEF Init
  <2> QED BY <1>2, <2>1, <2>2 DEF Init, RiseBoot
<1>5. RiseLine
  <2>1. 0 * MaxSpeed = 0 BY SMT, <1>2
  <2> QED BY <2>1 DEF Init, RiseLine, Settled, Climbs
<1> QED BY <1>1, <1>3, <1>4, <1>5 DEF Init, RiseInv, Order, EngineRises, RiseGoals, RiseIdle, RiseSit

LEMMA RiseLineStays ==
  ASSUME RiseLine, UNCHANGED <<line, servo, bridge, since>>
  PROVE  RiseLine'
BY DEF RiseLine, OneRises, TwoRise, Gentle, Arrives, Settled, Climbs

LEMMA EngineRisesStep ==
  ASSUME ClockStep => NeverForward, TypeOK, Order, EngineRises, [Next]_vars
  PROVE  EngineRises'
<1>1. /\ elapsed \in Int /\ current \in Level /\ current \in Int /\ elapsed - 1 \in Int
      /\ elapsed' \in Int /\ elapsed' - 1 \in Int
  <2>1. elapsed \in Int /\ elapsed' \in Int BY DriveTypesStep DEF TypeOK
  <2> QED BY <2>1, NumbersAre
<1>2. CASE LoopCheck \/ SitStart \/ SitStep \/ SitEnd
  BY <1>2 DEF LoopCheck, Goes, SitStart, SitStep, SitEnd, EngineRises, bridgeVars, worldVars
<1>3. CASE LoopAct
  <2>1. current' = Pose(current) /\ elapsed' = elapsed /\ sitter' = sitter
    BY <1>3 DEF LoopAct, worldVars
  <2>2. sitter = "idle" => Reached(elapsed) <= Pose(current)
    <3> SUFFICES ASSUME sitter = "idle" PROVE Reached(elapsed) <= Pose(current)
      OBVIOUS
    <3>1. elapsed < Up \/ Reached(elapsed) <= current
      <4>1. Up \in Int BY DriveAssumption DEF Up
      <4>2. elapsed >= Up => Reached(elapsed) = Reached(elapsed - 1)
        BY <1>1, <4>1, RisenFacts
      <4> QED BY <1>1, <4>1, <4>2 DEF EngineRises
    <3> QED BY <1>1, <3>1, PoseFacts
  <2>3. Reached(elapsed - 1) <= Reached(elapsed) /\ Reached(elapsed) \in Int
        /\ Reached(elapsed - 1) \in Int
    BY <1>1, RisenFacts
  <2>4. Pose(current) \in Int BY <1>1, PoseFacts, StandingNat DEF Level
  <2> QED BY <2>1, <2>2, <2>3, <2>4 DEF EngineRises
<1>4. CASE Bridge \/ Kill \/ Crash
  BY <1>4 DEF Bridge, Boot, CenterAll, Subscribe, joint_state_callback, Shutdown, Kill, Crash,
              EngineRises, engineVars, worldVars
<1>5. CASE Tick
  <2>1. /\ elapsed' = Smaller(elapsed + 1, Horizon) /\ current' = current
        /\ sitter' = "idle" => sitter = "idle"
        /\ loop' # "sleep" /\ loop \in {"sleep", "ended"}
    BY <1>5 DEF Tick, Quiet
  <2>2. sitter = "idle" => Reached(elapsed) <= current BY <2>1 DEF EngineRises, Order
  <2>3. elapsed' - 1 <= elapsed
    <3>1. Horizon \in Int BY DriveAssumption DEF Horizon, Up
    <3> QED BY <1>1, <2>1, <3>1 DEF Smaller
  <2>4. Reached(elapsed' - 1) <= Reached(elapsed) /\ Reached(elapsed) \in Int
        /\ Reached(elapsed' - 1) \in Int
    BY <1>1, <2>3, RisenFacts
  <2> QED BY <1>1, <2>1, <2>2, <2>4 DEF EngineRises
<1>6. CASE ClockStep
  <2>1. elapsed' <= elapsed /\ UNCHANGED <<loop, sitter, current>>
    <3>1. PICK d \in ClockSteps :
            IF elapsed < Horizon THEN elapsed' = Smaller(elapsed + d, Horizon)
                                 ELSE elapsed' \in Smaller(elapsed + d, Horizon) .. Horizon
      BY <1>6 DEF ClockStep
    <3>2. d \in Int /\ d <= 0 BY <1>6, DriveAssumption DEF NeverForward
    <3>3. Horizon \in Int BY DriveAssumption DEF Horizon, Up
    <3>4. elapsed' <= elapsed BY <1>1, <3>1, <3>2, <3>3 DEF Smaller
    <3> QED BY <1>6, <3>4 DEF ClockStep, engineVars
  <2>2. elapsed' - 1 <= elapsed - 1
    <3>1. \A a, b \in Int : a <= b => a - 1 <= b - 1 OBVIOUS
    <3> QED BY <1>1, <2>1, <3>1
  <2>3. /\ Reached(elapsed' - 1) <= Reached(elapsed - 1) /\ Reached(elapsed') <= Reached(elapsed)
        /\ Reached(elapsed' - 1) \in Int /\ Reached(elapsed - 1) \in Int
        /\ Reached(elapsed') \in Int /\ Reached(elapsed) \in Int
    BY <1>1, <2>1, <2>2, RisenFacts
  <2> QED BY <1>1, <2>1, <2>3 DEF EngineRises
<1>7. CASE UNCHANGED vars
  BY <1>7 DEF vars, engineVars, worldVars, EngineRises
<1> QED BY <1>2, <1>3, <1>4, <1>5, <1>6, <1>7 DEF Next, Engine

LEMMA ConstantsAre ==
  /\ THROTTLE \in Nat \ {0} /\ DESCENT \in Nat \ {0} /\ HOLD \in Nat \ {0}
  /\ FRAME \in Nat /\ FRAME <= THROTTLE /\ STARTUP \in Nat /\ CENTER \in Nat
  /\ Reach \in Nat /\ Up \in Int /\ Horizon = Up + THROTTLE
  /\ Standing \in Nat /\ 0 \in Level
BY DriveAssumption, LineAssumption, ReachFacts, StandingNat DEF Up, Horizon, Level

LEMMA RiseEngine ==
  ASSUME TypeOK, Order, EngineRises, EngineRises', RiseGoals, Engine
  PROVE  RiseGoals'
<1> USE ConstantsAre
<1>1. /\ UNCHANGED <<bridge, since, wait, elapsed>> /\ LineGoal' = LineGoal
      /\ servo' = servo
  <2>1. UNCHANGED <<bridge, since, wait, elapsed, line, servo>>
    BY DEF Engine, LoopCheck, LoopAct, SitStart, SitStep, SitEnd, bridgeVars, worldVars
  <2> QED BY <2>1, GoalStays
<1>2. /\ i \in Int /\ 0 <= i /\ i <= DESCENT
      /\ start \in Level /\ start \in Int /\ 0 <= start /\ start <= Standing
      /\ current \in Level /\ current \in Int /\ 0 <= current
      /\ LineGoal \in Int /\ 0 <= LineGoal
      /\ elapsed \in Int /\ since \in Int /\ since <= THROTTLE
  BY NumbersAre
<1>3. CASE LoopCheck
  BY <1>1, <1>3 DEF LoopCheck, Goes, RiseGoals, RiseBoot, RiseIdle, RiseSit, Starting,
                    bridgeVars, worldVars
<1>4. CASE LoopAct
  <2>1. /\ loop = "act" /\ loop' = "sleep" /\ current' = Pose(current) /\ Publish(current')
        /\ UNCHANGED <<sitter, i, start>>
    BY <1>4 DEF LoopAct
  <2>2. /\ Pose(current) <= Risen(elapsed) /\ Pose(current) \in Int /\ 0 <= Pose(current)
        /\ current <= Risen(elapsed) => current <= Pose(current)
    BY <1>2, PoseFacts DEF Level
  <2>3. RiseBoot'
    <3> SUFFICES ASSUME Starting PROVE RiseBoot'
      BY <1>1 DEF RiseBoot, Starting
    <3>1. elapsed <= HOLD
      <4>1. elapsed + wait <= HOLD /\ wait \in Nat BY TypesAre DEF RiseGoals, RiseBoot
      <4> QED BY <1>2, <4>1
    <3>2. Risen(elapsed) = 0 BY <1>2, <3>1, RisenFacts
    <3>3. current' = 0 BY <2>1, <2>2, <3>2
    <3> QED BY <1>1, <2>1, <3>3 DEF RiseGoals, RiseBoot, Starting
  <2>4. bridge = "ready" => mail' = <<Pose(current)>> BY <2>1 DEF Publish
  <2>5. RiseIdle'
    <3> SUFFICES ASSUME bridge = "ready", sitter = "idle" PROVE RiseIdle'
      BY <1>1, <2>1 DEF RiseIdle
    <3>1. Risen(elapsed) <= Risen(elapsed - since + THROTTLE) /\ Risen(elapsed) \in Int
          /\ Risen(elapsed - since + THROTTLE) \in Int
      <4>1. elapsed - since + THROTTLE \in Int /\ elapsed <= elapsed - since + THROTTLE
        BY <1>2
      <4> QED BY <1>2, <4>1, RisenFacts
    <3>2. Pose(current) <= Risen(elapsed - since + THROTTLE) BY <2>2, <3>1
    <3>3. Reached(elapsed) <= Pose(current)
      BY <1>1, <2>1 DEF EngineRises
    <3>4. Reached(elapsed - since) <= LineGoal BY DEF RiseGoals, RiseIdle
    <3>5. mail' = <<Pose(current)>> BY <2>4
    <3>6. mail'[1] = Pose(current) /\ mail' # <<>> BY <3>5
    <3> QED BY <1>1, <2>1, <3>2, <3>3, <3>4, <3>6 DEF RiseIdle
  <2>6. RiseSit'
    <3> SUFFICES ASSUME bridge = "ready", sitter \in {"step", "sleep"} PROVE RiseSit'
      BY <1>1, <2>1 DEF RiseSit
    <3>1. mail'[1] = Pose(current) BY <2>4
    <3>2. ASSUME since = THROTTLE
          PROVE  Pose(current) <= LineGoal + Reach /\ Fallen(start, i) <= Pose(current) + Reach
      <4>1. /\ current = start /\ start <= Risen(elapsed)
            /\ Reached(elapsed - THROTTLE) <= LineGoal
        BY <2>1, <3>2 DEF RiseGoals, RiseSit
      <4>2. Risen(elapsed) <= Reached(elapsed - THROTTLE) + Reach
            /\ Reached(elapsed - THROTTLE) \in Int /\ Risen(elapsed) \in Int
        <5>1. elapsed - THROTTLE \in Int /\ elapsed <= elapsed - THROTTLE + THROTTLE BY <1>2
        <5> QED BY <1>2, <5>1, RisenFacts
      <4>3. Fallen(start, i) <= start /\ Fallen(start, i) \in Int
        <5>1. Fallen(start, i) <= start /\ Fallen(start, i) \in Level BY <1>2, FallenFacts
        <5> QED BY <5>1 DEF Level
      <4> QED BY <1>2, <2>2, <4>1, <4>2, <4>3
    <3>3. Fallen(start, i) <= LineGoal + Reach BY DEF RiseGoals, RiseSit
    <3> QED BY <1>1, <2>1, <3>1, <3>2, <3>3 DEF RiseSit
  <2> QED BY <2>3, <2>5, <2>6 DEF RiseGoals
<1>5. CASE SitStart
  <2>1. /\ sitter = "idle" /\ sitter' = "step" /\ start' = current /\ i' = 0
        /\ UNCHANGED <<loop, current, mail>>
    BY <1>5 DEF SitStart
  <2>2. RiseBoot' BY <1>1, <2>1 DEF RiseGoals, RiseBoot, Starting
  <2>3. RiseSit'
    <3> SUFFICES ASSUME bridge = "ready" PROVE RiseSit'
      BY <1>1 DEF RiseSit
    <3>1. Reached(elapsed - since) <= LineGoal /\ current <= Risen(elapsed - since + THROTTLE)
          /\ (mail # <<>> => mail[1] = current)
      BY <2>1 DEF RiseGoals, RiseIdle
    <3> DEFINE w == elapsed - since
               e == w + THROTTLE
    <3>2. w \in Int /\ e \in Int /\ e <= w + THROTTLE BY <1>2
    <3>3. Risen(e) <= Reached(w) + Reach /\ Risen(e) \in Int /\ Reached(w) \in Int
      <4> HIDE DEF w, e
      <4> QED BY <3>2, RisenFacts
    <3>4. current <= LineGoal + Reach /\ current <= current + Reach BY <1>2, <3>1, <3>3
    <3>5. Fallen(start', i') = current
      <4>1. Fallen(current, 0) = current BY <1>2, FallenFacts
      <4> QED BY <2>1, <4>1
    <3>6. since = THROTTLE => w = elapsed - THROTTLE /\ e = elapsed BY <1>2
    <3>7. since = THROTTLE => current <= Risen(elapsed) /\ Reached(elapsed - THROTTLE) <= LineGoal
      <4> HIDE DEF w, e
      <4>1. Reached(w) <= LineGoal /\ current <= Risen(e) BY <3>1 DEF w, e
      <4> QED BY <3>6, <4>1
    <3> HIDE DEF w, e
    <3> QED BY <1>1, <2>1, <3>1, <3>4, <3>5, <3>7 DEF RiseSit
  <2> QED BY <1>1, <2>1, <2>2, <2>3 DEF RiseGoals, RiseIdle
<1>6. CASE SitStep
  <2>1. /\ sitter = "step" /\ sitter' = "sleep" /\ i < DESCENT /\ i' = i + 1
        /\ current' = Descended(i) /\ Publish(current') /\ UNCHANGED <<loop, start>>
    BY <1>6 DEF SitStep
  <2>2. current' = Fallen(start, i) BY <2>1, DescendedIsFallen
  <2>3. /\ Fallen(start, i) \in Level /\ Fallen(start, i + 1) \in Level
        /\ Fallen(start, i + 1) <= Fallen(start, i)
        /\ Fallen(start, 0) = start /\ Fallen(start, i) <= start
    <3>1. i + 1 \in Int /\ i <= i + 1 /\ i + 1 <= DESCENT BY <1>2, <2>1
    <3> QED BY <1>2, <3>1, FallenFacts
  <2>4. Fallen(start, i) \in Int /\ 0 <= Fallen(start, i) /\ Fallen(start, i + 1) \in Int
    BY <2>3 DEF Level
  <2>5. RiseBoot'
    BY <1>1, <1>2, <2>1, <2>2, <2>3, <2>4 DEF RiseGoals, RiseBoot, Starting
  <2>6. RiseSit'
    <3> SUFFICES ASSUME bridge = "ready" PROVE RiseSit'
      BY <1>1 DEF RiseSit
    <3>1. mail' = <<Fallen(start, i)>> BY <2>1, <2>2 DEF Publish
    <3>2. Fallen(start, i) <= LineGoal + Reach BY <2>1 DEF RiseGoals, RiseSit
    <3>3. Fallen(start, i + 1) <= LineGoal + Reach
          /\ Fallen(start, i + 1) <= Fallen(start, i) + Reach
      BY <1>2, <2>3, <2>4, <3>2
    <3>4. loop = "act" /\ since = THROTTLE =>
            /\ current' = start /\ start <= Risen(elapsed)
            /\ Reached(elapsed - THROTTLE) <= LineGoal
      <4>1. loop = "act" => i = 0 BY <2>1 DEF Order
      <4> QED BY <2>1, <2>2, <2>3, <4>1 DEF RiseGoals, RiseSit
    <3> QED BY <1>1, <2>1, <3>1, <3>2, <3>3, <3>4 DEF RiseSit
  <2> QED BY <1>1, <2>1, <2>5, <2>6 DEF RiseGoals, RiseIdle
<1>7. CASE SitEnd
  BY <1>1, <1>7 DEF SitEnd, RiseGoals, RiseBoot, RiseIdle, RiseSit, Starting
<1> QED BY <1>3, <1>4, <1>5, <1>6, <1>7 DEF Engine

LEMMA RiseBridge ==
  ASSUME TypeOK, LineInv, Order, RiseLine, RiseGoals, Bridge, Sound'
  PROVE  RiseLine' /\ RiseGoals'
<1> USE ConstantsAre
<1>1. /\ UNCHANGED <<loop, sitter, i, start, current, elapsed, servo>>
  BY DEF Bridge, Boot, CenterAll, Subscribe, joint_state_callback, Shutdown, engineVars, worldVars
<1>2. /\ i \in Int /\ 0 <= i /\ i <= DESCENT
      /\ start \in Level /\ start \in Int /\ 0 <= start /\ start <= Standing
      /\ current \in Level /\ current \in Int /\ 0 <= current
      /\ LineGoal \in Int /\ 0 <= LineGoal
      /\ elapsed \in Int /\ since \in Int /\ since <= THROTTLE /\ wait \in Nat
  BY NumbersAre
<1>3. FaultType /\ LineType BY TypesAre
<1>4. \A kind \in {"port", "write", "crash"} : ~Fault(kind)
  BY <1>3, FaultRemembered DEF Sound
<1>5. CASE Boot
  <2>1. /\ bridge = "down" /\ wait = 0 /\ bridge' = "boot" /\ wait' = STARTUP
        /\ UNCHANGED <<mail, since, line>>
    BY <1>4, <1>5 DEF Boot
  <2>2. RiseLine' BY <1>1, <2>1 DEF RiseLine, OneRises, Gentle, Arrives, Settled, Climbs
  <2>3. LineGoal' = LineGoal BY <1>1, <2>1, GoalStays
  <2> QED BY <1>1, <1>2, <2>1, <2>2, <2>3 DEF RiseGoals, RiseBoot, RiseIdle, RiseSit, Starting
<1>6. CASE CenterAll
  <2>1. /\ bridge = "boot" /\ wait = 0 /\ bridge' = "center" /\ wait' = CENTER
        /\ line' = Append(line, Packet(0, CENTER)) /\ UNCHANGED <<mail, since>>
    BY <1>4, <1>6 DEF CenterAll, Write
  <2>2. line = <<>> BY <2>1 DEF LineInv, FreeIn
  <2>3. line' = <<OnLine(0, CENTER, FRAME)>> BY <2>1, <2>2, Appended DEF Packet, OnLine
  <2>4. OneRises'
    <3>1. 0 \in Level /\ CENTER \in {THROTTLE, CENTER} /\ FRAME \in 1 .. FRAME
      BY Durations
    <3> QED BY <2>1, <2>3, <3>1 DEF OneRises, Gentle
  <2>5. RiseLine' BY <1>1, <2>1, <2>4 DEF RiseLine, Settled, Climbs
  <2>6. LineGoal' = 0 BY <1>3, <2>1, GoalAppended
  <2>7. RiseBoot' BY <1>1, <1>2, <2>1, <2>6 DEF RiseGoals, RiseBoot, Starting
  <2> QED BY <1>1, <2>1, <2>5, <2>7 DEF RiseGoals, RiseIdle, RiseSit
<1>7. CASE Subscribe
  <2>1. /\ bridge = "center" /\ wait = 0 /\ bridge' = "ready" /\ since' = 0
        /\ UNCHANGED <<mail, wait, line>>
    BY <1>7 DEF Subscribe
  <2>2. line = <<>> /\ mail = <<>> BY <2>1 DEF LineInv, FreeIn, Order
  <2>3. /\ current = 0 /\ start = 0 /\ LineGoal = 0 /\ servo.at = servo.goal
        /\ elapsed <= HOLD
    BY <1>2, <2>1 DEF RiseGoals, RiseBoot, Starting
  <2>4. RiseLine' BY <1>1, <2>1, <2>2, <2>3 DEF RiseLine, Settled, Climbs, Arrives
  <2>5. LineGoal' = 0 BY <1>1, <2>1, <2>3, GoalStays
  <2>6. RiseIdle'
    <3>1. elapsed' - since' = elapsed /\ elapsed' - since' + THROTTLE = elapsed + THROTTLE
      BY <1>1, <1>2, <2>1
    <3>2. Reached(elapsed) = 0 /\ 0 <= Risen(elapsed + THROTTLE)
      <4>1. elapsed + THROTTLE \in Int BY <1>2
      <4> QED BY <1>2, <2>3, <4>1, RisenFacts
    <3>3. since' < THROTTLE BY <2>1
    <3>4. mail' = <<>> BY <2>1, <2>2
    <3>5. Reached(elapsed' - since') <= LineGoal' /\ current' <= Risen(elapsed' - since' + THROTTLE)
      BY <1>1, <2>3, <2>5, <3>1, <3>2
    <3> QED BY <3>3, <3>4, <3>5 DEF RiseIdle
  <2>7. RiseSit'
    <3>1. Fallen(0, i) <= 0 /\ Fallen(0, i) \in Level BY <1>2, FallenFacts
    <3>2. Fallen(start', i') <= LineGoal' + Reach
      BY <1>1, <2>3, <2>5, <3>1 DEF Level
    <3>3. since' # THROTTLE /\ mail' = <<>> BY <2>1, <2>2
    <3> QED BY <3>2, <3>3 DEF RiseSit
  <2>8. RiseBoot' BY <2>1 DEF RiseBoot, Starting
  <2> QED BY <2>4, <2>6, <2>7, <2>8 DEF RiseGoals
<1>8. CASE joint_state_callback
  <2>1. /\ bridge = "ready" /\ bridge' = "ready" /\ mail # <<>> /\ mail' = <<>> /\ wait' = wait
    BY <1>8 DEF joint_state_callback
  <2>2. sitter # "ended" BY <2>1 DEF Order
  <2>3. RiseBoot' BY <2>1 DEF RiseBoot, Starting
  <2>4. CASE since = THROTTLE
    <3>1. mail[1] = Head(mail) /\ Head(mail) \in Level /\ mail[1] \in Int
      <4>1. mail[1] = Head(mail) /\ Head(mail) \in Level BY <2>1, TypesAre DEF MailType
      <4> QED BY <4>1, StandingNat DEF Level
    <3>2. line' = Append(line, Packet(Head(mail), THROTTLE)) /\ since' = 0
      BY <1>2, <1>4, <1>8, <2>4 DEF joint_state_callback, Due, Write
    <3>3. line = <<>>
      <4>1. FreeIn(FRAME - since) BY <2>1 DEF LineInv
      <4> QED BY <2>4, <4>1 DEF FreeIn
    <3>4. line' = <<OnLine(Head(mail), THROTTLE, FRAME)>>
      BY <3>2, <3>3, Appended DEF Packet, OnLine
    <3>5. LineGoal = servo.goal BY <3>3 DEF LineGoal
    <3>6. Arrives(servo, FRAME)
      <4>1. Arrives(servo, FRAME + THROTTLE - since) BY <2>1, <3>3 DEF RiseLine
      <4>2. FRAME + THROTTLE - since = FRAME BY <2>4
      <4> QED BY <4>1, <4>2
    <3>7. LineGoal' = mail[1] BY <1>3, <3>1, <3>2, GoalAppended
    <3>8. ASSUME sitter = "idle" PROVE mail[1] <= LineGoal + Reach /\ RiseIdle' /\ RiseSit'
      <4>1. /\ Reached(elapsed - since) <= LineGoal
            /\ current <= Risen(elapsed - since + THROTTLE)
            /\ mail[1] = current /\ Reached(elapsed) <= current
        BY <2>1, <3>8 DEF RiseGoals, RiseIdle
      <4>2. elapsed - since + THROTTLE = elapsed /\ elapsed - since \in Int
            /\ elapsed <= (elapsed - since) + THROTTLE
        BY <1>2, <2>4
      <4>3. Risen(elapsed) <= Reached(elapsed - since) + Reach /\ Risen(elapsed) \in Int
            /\ Reached(elapsed - since) \in Int
        BY <1>2, <4>2, RisenFacts
      <4>4. current <= Risen(elapsed) BY <4>1, <4>2
      <4>5. mail[1] <= LineGoal + Reach BY <1>2, <4>1, <4>3, <4>4
      <4>6. elapsed' - since' = elapsed /\ elapsed' - since' + THROTTLE = elapsed + THROTTLE
        BY <1>1, <1>2, <3>2
      <4>7. Risen(elapsed) <= Risen(elapsed + THROTTLE) /\ Risen(elapsed + THROTTLE) \in Int
        <5> DEFINE f == elapsed + THROTTLE
        <5>1. elapsed \in Int /\ f \in Int /\ elapsed <= f BY <1>2
        <5> HIDE DEF f
        <5>2. Risen(elapsed) <= Risen(f) /\ Risen(f) \in Int BY <5>1, RisenFacts
        <5> QED BY <5>2 DEF f
      <4>8. current <= Risen(elapsed + THROTTLE) BY <1>2, <4>3, <4>4, <4>7
      <4>9. Reached(elapsed' - since') <= LineGoal' /\ current' <= Risen(elapsed' - since' + THROTTLE)
        BY <1>1, <3>7, <4>1, <4>6, <4>8
      <4>10. RiseIdle' BY <1>1, <2>1, <3>2, <3>8, <4>9 DEF RiseIdle
      <4>11. RiseSit' BY <1>1, <3>8 DEF RiseSit
      <4> QED BY <4>5, <4>10, <4>11
    <3>9. ASSUME sitter \in {"step", "sleep"}
          PROVE  mail[1] <= LineGoal + Reach /\ RiseIdle' /\ RiseSit'
      <4>1. mail[1] <= LineGoal + Reach /\ Fallen(start, i) <= mail[1] + Reach
        BY <2>1, <2>4, <3>9 DEF RiseGoals, RiseSit
      <4>2. since' # THROTTLE BY <3>2
      <4>3. Fallen(start', i') <= LineGoal' + Reach BY <1>1, <3>7, <4>1
      <4>4. RiseIdle' BY <1>1, <3>9 DEF RiseIdle
      <4>5. RiseSit' BY <2>1, <4>2, <4>3 DEF RiseSit
      <4> QED BY <4>1, <4>4, <4>5
    <3>10. mail[1] <= LineGoal + Reach /\ RiseIdle' /\ RiseSit'
      BY <2>2, <3>8, <3>9 DEF TypeOK
    <3>11. OneRises'
      <4>1. Head(mail) - servo.goal <= Reach BY <1>2, <3>1, <3>5, <3>10
      <4>2. FRAME \in 1 .. FRAME /\ THROTTLE \in {THROTTLE, CENTER} BY Durations
      <4>3. PICK l \in Level : l = Head(mail) BY <3>1
      <4>4. Gentle(l, THROTTLE, FRAME)' BY <1>1, <3>6, <4>1, <4>3 DEF Gentle, Arrives
      <4> QED BY <3>4, <4>2, <4>3, <4>4 DEF OneRises
    <3>12. line' # <<>> BY <3>4
    <3>13. RiseLine' BY <1>1, <3>11, <3>12 DEF RiseLine, Settled, Climbs
    <3> QED BY <2>3, <3>10, <3>13 DEF RiseGoals
  <2>5. CASE since # THROTTLE
    <3>1. since < THROTTLE BY <1>2, <2>5
    <3>2. since' = since /\ line' = line
      BY <1>2, <1>8, <3>1 DEF joint_state_callback, Due, SinceDropped
    <3>3. LineGoal' = LineGoal BY <1>1, <3>2, GoalStays
    <3>4. RiseLine' BY <1>1, <2>1, <3>2, RiseLineStays
    <3>5. RiseIdle' BY <1>1, <2>1, <3>1, <3>2, <3>3 DEF RiseGoals, RiseIdle
    <3>6. RiseSit' BY <1>1, <2>1, <3>2, <3>3, <2>5 DEF RiseGoals, RiseSit
    <3> QED BY <2>3, <3>4, <3>5, <3>6 DEF RiseGoals
  <2> QED BY <2>4, <2>5
<1>9. CASE Shutdown
  <2>1. bridge # "closed" /\ bridge' = "closed" BY <1>9 DEF Shutdown
  <2>2. RiseGoals' BY <2>1 DEF RiseGoals, RiseBoot, RiseIdle, RiseSit, Starting
  <2>3. line = <<>> \/ OneRises BY <2>1 DEF RiseLine
  <2>4. FRAME \in 1 .. FRAME /\ CENTER \in {THROTTLE, CENTER} BY Durations
  <2>5. line' = <<>> \/ OneRises' \/ TwoRise'
    <3>1. CASE bridge = "ready"
      <4>1. line' = Append(line, Packet(0, CENTER)) BY <1>4, <1>9, <3>1 DEF Shutdown, Write
      <4>2. CASE line = <<>>
        <5>1. line' = <<OnLine(0, CENTER, FRAME)>> BY <4>1, <4>2, Appended DEF Packet, OnLine
        <5> QED BY <2>1, <2>4, <5>1 DEF OneRises, Gentle
      <4>3. CASE OneRises
        <5>1. PICK level \in Level, time \in {THROTTLE, CENTER}, k \in 1 .. FRAME :
                line = <<OnLine(level, time, k)>> /\ Gentle(level, time, k)
          BY <4>3 DEF OneRises
        <5>2. line' = <<OnLine(level, time, k), OnLine(0, CENTER, FRAME)>>
          BY <4>1, <5>1, Appended DEF Packet, OnLine
        <5>3. Gentle(level, time, k)' BY <1>1, <5>1 DEF Gentle, Arrives
        <5> QED BY <2>4, <5>2, <5>3 DEF TwoRise
      <4> QED BY <2>3, <4>2, <4>3
    <3>2. CASE bridge # "ready"
      <4>1. line' = line BY <1>9, <3>2 DEF Shutdown
      <4> QED BY <1>1, <2>1, <2>3, <4>1 DEF OneRises, Gentle, Arrives
    <3> QED BY <3>1, <3>2
  <2>6. RiseLine' BY <1>1, <2>1, <2>5 DEF RiseLine, Settled, Climbs
  <2> QED BY <2>2, <2>6
<1> QED BY <1>5, <1>6, <1>7, <1>8, <1>9 DEF Bridge

LEMMA ReadyLine ==
  ASSUME LineInv, bridge # "closed"
  PROVE  line = <<>> \/ \E level, time : \E k \in 1 .. FRAME : line = <<OnLine(level, time, k)>>
BY DEF LineInv, FreeIn

(* Before the bridge subscribes the robot lies flat, and stays so. *)
LEMMA FlatStays ==
  ASSUME TypeOK, LineInv, Tick, Settled(servo), bridge # "closed",
         LineGoal = 0, servo.at = 0, servo.goal = 0
  PROVE  LineGoal' = 0 /\ servo'.at = 0 /\ servo'.goal = 0
<1> DEFINE r == Moved(servo)
<1>1. LineGoal' = 0 BY GoalSent
<1>2. servo \in ServoType BY TypesAre
<1>3. r \in ServoType /\ r.goal = 0 /\ r.at = 0
  <2>1. Arrives(servo, 0) BY DEF Arrives
  <2> QED BY <1>2, <2>1, MovedRange, MovedArrives
<1> HIDE DEF r
<1>4. CASE line = <<>> BY <1>1, <1>3, <1>4 DEF Tick, r
<1>5. CASE line # <<>>
  <2>1. PICK level, time : \E k \in 1 .. FRAME : line = <<OnLine(level, time, k)>>
    BY <1>5, ReadyLine
  <2>2. PICK k \in 1 .. FRAME : line = <<OnLine(level, time, k)>> BY <2>1
  <2>3. Head(line) = OnLine(level, time, k) /\ Len(line) = 1 /\ line[1] = OnLine(level, time, k)
    BY <2>2
  <2>4. level = 0 BY <1>5, <2>3 DEF LineGoal, OnLine
  <2>5. servo' = r \/ servo' = Commanded(r, OnLine(level, time, k))
    BY <1>5, <2>3 DEF Tick, r
  <2>6. Commanded(r, OnLine(level, time, k)).at = 0 /\ Commanded(r, OnLine(level, time, k)).goal = 0
    BY <1>3, <2>4 DEF Commanded, OnLine, ServoType
  <2> QED BY <1>1, <1>3, <2>5, <2>6
<1> QED BY <1>4, <1>5

LEMMA RiseTick ==
  ASSUME TypeOK, LineInv, Order, RiseLine, RiseGoals, Tick
  PROVE  RiseGoals'
<1> USE ConstantsAre
<1>1. /\ mail = <<>> /\ UNCHANGED <<mail, i, start, current, bridge>>
      /\ loop # "act" /\ loop' # "act" /\ loop' # "sleep" /\ loop \in {"sleep", "ended"}
      /\ sitter # "step" /\ sitter' = IF sitter = "sleep" THEN "step" ELSE sitter
      /\ wait = 0 => bridge \in {"ready", "closed"}
  BY DEF Tick, Quiet
<1>2. /\ i \in Int /\ 0 <= i /\ i <= DESCENT
      /\ start \in Int /\ current \in Level /\ current \in Int /\ 0 <= current /\ current <= Standing
      /\ elapsed \in Int /\ elapsed <= Horizon /\ since \in Int /\ since <= THROTTLE /\ wait \in Nat
  BY NumbersAre
<1>3. /\ elapsed' = Smaller(elapsed + 1, Horizon) /\ since' = Smaller(since + 1, THROTTLE)
      /\ wait' = Larger(wait - 1, 0)
  BY DEF Tick
<1>4. LineGoal' = LineGoal BY GoalSent
<1>5. RiseBoot'
  <2> SUFFICES ASSUME Starting PROVE RiseBoot'
    BY <1>1 DEF RiseBoot, Starting
  <2>1. wait' = wait - 1 /\ elapsed' <= elapsed + 1 /\ elapsed' \in Int
    <3>1. wait # 0 BY <1>1 DEF Starting
    <3>2. wait' = wait - 1 BY <1>2, <1>3, <3>1 DEF Larger
    <3>3. elapsed' <= elapsed + 1 /\ elapsed' \in Int BY <1>2, <1>3 DEF Smaller
    <3> QED BY <3>2, <3>3
  <2>2. LineGoal' = 0 /\ servo'.at = 0 /\ servo'.goal = 0
    <3>1. Settled(servo) /\ bridge # "closed" BY DEF RiseLine, Starting
    <3> QED BY <3>1, FlatStays DEF RiseGoals, RiseBoot
  <2>3. elapsed' + wait' <= elapsed + wait
    <3> DEFINE e == elapsed'
    <3>1. e \in Int /\ e <= elapsed + 1 BY <2>1
    <3> HIDE DEF e
    <3>2. e + (wait - 1) <= elapsed + wait BY <1>2, <3>1
    <3> QED BY <2>1, <3>2 DEF e
  <2> DEFINE p == elapsed' + wait'
             q == elapsed + wait
  <2>4. p \in Int /\ q \in Int
    <3>1. wait - 1 \in Int BY <1>2
    <3> QED BY <1>2, <2>1, <3>1
  <2>5. /\ q <= HOLD /\ (bridge = "down" => q + STARTUP + CENTER <= HOLD)
        /\ (bridge = "boot" => q + CENTER <= HOLD)
    BY DEF RiseGoals, RiseBoot
  <2>6. p <= q BY <2>3
  <2> HIDE DEF p, q
  <2>7. /\ p <= HOLD /\ (bridge = "down" => p + STARTUP + CENTER <= HOLD)
        /\ (bridge = "boot" => p + CENTER <= HOLD)
    BY <2>4, <2>5, <2>6
  <2>8. current = 0 /\ start = 0 BY DEF RiseGoals, RiseBoot
  <2> QED BY <1>1, <2>2, <2>7, <2>8 DEF RiseBoot, p
<1>6. RiseIdle'
  <2> SUFFICES ASSUME bridge = "ready", sitter = "idle" PROVE RiseIdle'
    BY <1>1 DEF RiseIdle
  <2>1. loop = "sleep" BY <1>1 DEF Order
  <2>2. /\ Reached(elapsed - since) <= LineGoal
        /\ current <= Risen(elapsed - since + THROTTLE) /\ since < THROTTLE
    BY <1>1, <2>1 DEF RiseGoals, RiseIdle
  <2>3. since' = since + 1 BY <1>2, <1>3, <2>2 DEF Smaller
  <2>4. CASE elapsed < Horizon
    <3>1. elapsed' = elapsed + 1 BY <1>2, <1>3, <2>4 DEF Smaller
    <3>2. elapsed' - since' = elapsed - since BY <1>2, <2>3, <3>1
    <3>3. Reached(elapsed' - since') <= LineGoal' /\ current' <= Risen(elapsed' - since' + THROTTLE)
      BY <1>1, <1>4, <2>2, <3>2
    <3> QED BY <1>1, <3>3 DEF RiseIdle
  <2>5. CASE elapsed = Horizon
    <3>1. elapsed' = Horizon BY <1>2, <1>3, <2>5 DEF Smaller
    <3> DEFINE w == Horizon - since
               v == elapsed' - since'
    <3>2. v = w - 1 /\ w \in Int /\ v \in Int /\ v + THROTTLE >= Up
      BY <1>2, <2>2, <2>3, <3>1
    <3> HIDE DEF w, v
    <3>3. Reached(v) <= Reached(w) /\ Risen(v + THROTTLE) = Standing
          /\ Reached(v) \in Int /\ Reached(w) \in Int
      <4> DEFINE g == v + THROTTLE
      <4>1. g \in Int /\ g >= Up BY <3>2
      <4> HIDE DEF g
      <4>2. Risen(g) = Standing BY <4>1, RisenFacts
      <4>3. v <= w BY <3>2
      <4> QED BY <3>2, <4>2, <4>3, RisenFacts DEF g
    <3>4. Reached(w) <= LineGoal BY <2>2, <2>5 DEF w
    <3>5. Reached(v) <= LineGoal /\ current <= Risen(v + THROTTLE)
      BY <1>2, <3>3, <3>4, NumbersAre
    <3>6. Reached(elapsed' - since') <= LineGoal' /\ current' <= Risen(elapsed' - since' + THROTTLE)
      BY <1>1, <1>4, <3>5 DEF v
    <3> QED BY <1>1, <3>6 DEF RiseIdle
  <2> QED BY <1>2, <2>4, <2>5
<1>7. RiseSit'
  <2> SUFFICES ASSUME bridge = "ready", sitter = "sleep" PROVE RiseSit'
    BY <1>1 DEF RiseSit
  <2>1. Fallen(start, i) <= LineGoal + Reach BY DEF RiseGoals, RiseSit
  <2> QED BY <1>1, <1>4, <2>1 DEF RiseSit
<1> QED BY <1>5, <1>6, <1>7 DEF RiseGoals

LEMMA RiseClock ==
  ASSUME NeverForward, TypeOK, RiseLine, RiseGoals, ClockStep
  PROVE  RiseLine' /\ RiseGoals'
<1> USE ConstantsAre
<1>1. UNCHANGED <<loop, sitter, i, start, current, mail, bridge, wait, line, servo>>
  BY DEF ClockStep, engineVars
<1>2. LineGoal' = LineGoal BY <1>1, GoalStays
<1>3. /\ current \in Int /\ current <= Standing
      /\ elapsed \in Int /\ elapsed <= Horizon /\ since \in Int /\ since <= THROTTLE /\ wait \in Nat
      /\ LineGoal \in Int
  BY NumbersAre
<1>4. PICK d \in ClockSteps :
        /\ IF elapsed < Horizon THEN elapsed' = Smaller(elapsed + d, Horizon)
                                ELSE elapsed' \in Smaller(elapsed + d, Horizon) .. Horizon
        /\ since' = Smaller(since + d, THROTTLE)
  BY DEF ClockStep
<1>5. d \in Int /\ d <= 0 BY DriveAssumption DEF NeverForward
<1>6. since' = since + d BY <1>3, <1>4, <1>5 DEF Smaller
<1>7. elapsed < Horizon => elapsed' = elapsed + d BY <1>3, <1>4, <1>5 DEF Smaller
<1>8. elapsed = Horizon => elapsed' \in Int /\ Horizon + d <= elapsed' /\ elapsed' <= Horizon
  BY <1>3, <1>4, <1>5 DEF Smaller
<1>9. elapsed' \in Int /\ elapsed' <= elapsed /\ elapsed + d <= elapsed'
  <2>1. CASE elapsed < Horizon BY <1>3, <1>5, <1>7, <2>1
  <2>2. CASE elapsed = Horizon BY <1>3, <1>8, <2>2
  <2> QED BY <1>3, <2>1, <2>2
<1>10. since' \in Int /\ since' <= since BY <1>3, <1>5, <1>6
<1>11. RiseLine'
  <2>1. bridge = "ready" /\ line = <<>> => Arrives(servo, FRAME + THROTTLE - since')
    <3> SUFFICES ASSUME bridge = "ready", line = <<>>
                 PROVE  Arrives(servo, FRAME + THROTTLE - since')
      OBVIOUS
    <3>1. Arrives(servo, FRAME + THROTTLE - since) BY DEF RiseLine
    <3>2. FRAME + THROTTLE - since <= FRAME + THROTTLE - since'
      <4>1. \A a, b \in Int : a <= b => FRAME + THROTTLE - b <= FRAME + THROTTLE - a OBVIOUS
      <4> QED BY <1>3, <1>10, <4>1
    <3>3. servo.move \in Int
      <4>1. servo \in ServoType BY TypesAre
      <4> QED BY <4>1, ServoFields
    <3> DEFINE m == FRAME + THROTTLE - since
               n == FRAME + THROTTLE - since'
    <3>4. m \in Int /\ n \in Int BY <1>3, <1>10
    <3>5. servo.at = servo.goal \/ servo.move <= m BY <3>1 DEF Arrives
    <3>6. m <= n BY <3>2
    <3> HIDE DEF m, n
    <3>7. servo.at = servo.goal \/ servo.move <= n BY <3>3, <3>4, <3>5, <3>6
    <3> QED BY <3>7 DEF Arrives, n
  <2>2. (bridge = "ready" /\ line = <<>> => Arrives(servo, FRAME + THROTTLE - since))'
    BY <1>1, <2>1 DEF Arrives
  <2> QED BY <1>1, <2>2 DEF RiseLine, OneRises, TwoRise, Gentle, Arrives, Settled, Climbs
<1>12. RiseBoot'
  <2> SUFFICES ASSUME Starting PROVE RiseBoot'
    BY <1>1 DEF RiseBoot, Starting
  <2> DEFINE e == elapsed'
  <2>1. e \in Int /\ e <= elapsed BY <1>9
  <2>2. /\ elapsed + wait <= HOLD /\ (bridge = "down" => elapsed + wait + STARTUP + CENTER <= HOLD)
        /\ (bridge = "boot" => elapsed + wait + CENTER <= HOLD)
    BY DEF RiseGoals, RiseBoot
  <2> HIDE DEF e
  <2>3. /\ e + wait <= HOLD /\ (bridge = "down" => e + wait + STARTUP + CENTER <= HOLD)
        /\ (bridge = "boot" => e + wait + CENTER <= HOLD)
    BY <1>3, <2>1, <2>2
  <2>4. current = 0 /\ start = 0 /\ LineGoal = 0 /\ servo.at = 0 /\ servo.goal = 0
    BY DEF RiseGoals, RiseBoot
  <2> QED BY <1>1, <1>2, <2>3, <2>4 DEF RiseBoot, e
<1>13. RiseIdle'
  <2> SUFFICES ASSUME bridge = "ready", sitter = "idle" PROVE RiseIdle'
    BY <1>1 DEF RiseIdle
  <2>1. /\ Reached(elapsed - since) <= LineGoal
        /\ current <= Risen(elapsed - since + THROTTLE)
        /\ mail # <<>> => mail[1] = current /\ Reached(elapsed) <= current
        /\ loop = "sleep" /\ mail = <<>> => since < THROTTLE
    BY DEF RiseGoals, RiseIdle
  <2>2. Reached(elapsed') <= Reached(elapsed) /\ Reached(elapsed') \in Int /\ Reached(elapsed) \in Int
    BY <1>3, <1>9, RisenFacts
  <2>3. since < THROTTLE => since' < THROTTLE
    <3>1. \A a, b \in Int : a <= b /\ b < THROTTLE => a < THROTTLE OBVIOUS
    <3> QED BY <1>3, <1>10, <3>1
  <2>4. Reached(elapsed' - since') <= LineGoal /\ current <= Risen(elapsed' - since' + THROTTLE)
    <3>1. CASE elapsed < Horizon
      <4>1. elapsed' - since' = elapsed - since
        <5>1. (elapsed + d) - (since + d) = elapsed - since BY <1>3, <1>5
        <5> QED BY <1>6, <1>7, <3>1, <5>1
      <4> QED BY <2>1, <4>1
    <3>2. CASE elapsed = Horizon
      <4> DEFINE w == elapsed - since
                 v == elapsed' - since'
      <4>1. w \in Int /\ w >= Up BY <1>3, <3>2
      <4>2. v \in Int /\ v >= Up
        <5> DEFINE e == elapsed'
        <5>1. e \in Int /\ elapsed + d <= e BY <1>9
        <5> HIDE DEF e
        <5>2. e - (since + d) \in Int /\ e - (since + d) >= Up BY <1>3, <1>5, <3>2, <5>1
        <5> QED BY <1>6, <5>2 DEF e
      <4> HIDE DEF w, v
      <4>3. Reached(v) = Reached(w)
        <5>1. v >= Up - 1 /\ w >= Up - 1 BY <4>1, <4>2
        <5> QED BY <4>1, <4>2, <5>1, RisenFacts
      <4>4. Risen(v + THROTTLE) = Standing
        <5> DEFINE g == v + THROTTLE
        <5>1. g \in Int /\ g >= Up BY <4>2
        <5> HIDE DEF g
        <5>2. Risen(g) = Standing BY <5>1, RisenFacts
        <5> QED BY <5>2 DEF g
      <4>5. Reached(w) <= LineGoal BY <2>1 DEF w
      <4> QED BY <1>3, <4>3, <4>4, <4>5 DEF v
    <3> QED BY <1>3, <3>1, <3>2
  <2>5. Reached(elapsed) <= current => Reached(elapsed') <= current
    BY <1>3, <2>2
  <2> QED BY <1>1, <1>2, <2>1, <2>3, <2>4, <2>5 DEF RiseIdle
<1>14. RiseSit'
  <2> SUFFICES ASSUME bridge = "ready", sitter \in {"step", "sleep"} PROVE RiseSit'
    BY <1>1 DEF RiseSit
  <2>1. since' = THROTTLE => since = THROTTLE /\ elapsed' = elapsed
    <3> SUFFICES ASSUME since' = THROTTLE PROVE since = THROTTLE /\ elapsed' = elapsed
      OBVIOUS
    <3>1. since + d = THROTTLE BY <1>6
    <3>2. d = 0 /\ since = THROTTLE BY <1>3, <1>5, <3>1
    <3>3. elapsed' <= elapsed /\ elapsed <= elapsed'
      <4>1. elapsed + d = elapsed BY <1>3, <3>2
      <4> QED BY <1>9, <4>1
    <3> QED BY <1>3, <1>9, <3>2, <3>3
  <2> QED BY <1>1, <1>2, <2>1 DEF RiseGoals, RiseSit
<1> QED BY <1>11, <1>12, <1>13, <1>14 DEF RiseGoals

LEMMA RiseStep ==
  ASSUME NeverForward, RiseInv, [Next]_vars
  PROVE  RiseInv'
<1>1. TypeOK /\ LineInv /\ Order /\ EngineRises BY DEF RiseInv
<1>2. TypeOK' /\ LineInv' /\ Order' /\ EngineRises'
  BY <1>1, DriveTypesStep, LineStep, OrderStep, EngineRisesStep
<1> SUFFICES ASSUME Sound' PROVE RiseLine' /\ RiseGoals'
  BY <1>2 DEF RiseInv
<1>3. FaultType BY <1>1, TypesAre
<1>4. Sound
  <2>1. \A kind : Fault(kind) => Sound BY <1>3, FaultRemembered DEF Sound
  <2>2. faults' = faults => Sound BY DEF Sound, NoFaultOf
  <2>3. faults' = faults \/ \E kind : Fault(kind)
    BY DEF Next, Engine, LoopCheck, LoopAct, SitStart, SitStep, SitEnd, Bridge, Boot,
           CenterAll, Subscribe, joint_state_callback, Shutdown, Write, Tick, Kill, Crash,
           ClockStep, vars, worldVars
  <2> QED BY <2>1, <2>2, <2>3
<1>5. RiseLine /\ RiseGoals BY <1>4 DEF RiseInv
<1>6. CASE Engine
  <2>1. UNCHANGED <<line, servo, bridge, since>>
    BY <1>6 DEF Engine, LoopCheck, LoopAct, SitStart, SitStep, SitEnd, bridgeVars, worldVars
  <2> QED BY <1>1, <1>2, <1>5, <1>6, <2>1, RiseEngine, RiseLineStays
<1>7. CASE Bridge BY <1>1, <1>5, <1>7, RiseBridge
<1>8. CASE Tick BY <1>1, <1>5, <1>8, RiseTick, RiseLineTick
<1>9. CASE Crash
  <2>1. Fault("crash") BY <1>9 DEF Crash
  <2> QED BY <1>3, <2>1, FaultRemembered DEF Sound
<1>10. CASE ClockStep BY <1>1, <1>5, <1>10, RiseClock
<1>11. CASE Kill \/ UNCHANGED vars
  <2>1. UNCHANGED <<loop, sitter, i, start, current, mail, bridge, wait, line, servo, since, elapsed>>
    BY <1>11 DEF Kill, vars, engineVars, bridgeVars, worldVars
  <2>2. RiseLine' BY <1>5, <2>1, RiseLineStays
  <2>3. LineGoal' = LineGoal BY <2>1, GoalStays
  <2> QED BY <1>5, <2>1, <2>2, <2>3 DEF RiseGoals, RiseBoot, RiseIdle, RiseSit, Starting
<1> QED BY <1>6, <1>7, <1>8, <1>9, <1>10, <1>11 DEF Next

(* If the bridge is up before the five seconds of flat pose are over, no servo *)
(* ever rises faster than the steepest part of the S-curve, however the wall *)
(* clock is set back, messages are dropped and nodes are stopped            *)
(* (spider_gait_engine.py:122-150, lsc32_hardware_bridge.py:52-99).         *)
THEOREM RiseIsGentle ==
  ASSUME NeverForward, \A s \in Skews : s + STARTUP + CENTER <= HOLD
  PROVE  Spec => GentleRise
<1> DEFINE Gentleness == NoFaultOf({"crash", "write", "port"}) => ~Rises(MaxSpeed)
<1>1. Init => RiseInv BY RiseStart
<1>2. RiseInv /\ [Next]_vars => RiseInv' BY RiseStep
<1>3. RiseInv /\ [Next]_vars => [Gentleness]_vars
  <2> SUFFICES ASSUME RiseInv, Next, Sound PROVE ~Rises(MaxSpeed)
    BY DEF Sound
  <2>1. TypeOK /\ LineInv /\ RiseLine BY DEF RiseInv
  <2>2. CASE Tick BY <2>1, <2>2, RiseLineTick
  <2>3. CASE servo' = servo
    <3>1. servo.at \in Int /\ MaxSpeed \in Nat \ {0}
      <4>1. servo \in ServoType BY <2>1, TypesAre
      <4> QED BY <4>1, ServoFields, SpeedFacts
    <3> QED BY <2>3, <3>1 DEF Rises
  <2> QED BY <2>2, <2>3 DEF Next, Engine, LoopCheck, LoopAct, SitStart, SitStep, SitEnd, Bridge,
          Boot, CenterAll, Subscribe, joint_state_callback, Shutdown, Kill, Crash, ClockStep,
          worldVars
<1> QED BY <1>1, <1>2, <1>3, PTL DEF Spec, GentleRise

-----------------------------------------------------------------------------
(* ControlledDescent, the line: a packet takes a servo that has reached its    *)
(* last goal down by no more than the curves fall in the time it is given.  *)
Calm == NoFaultOf(Faults) /\ "bridge" \notin killed

Easy(level, time, rest) ==
  servo.goal - level <= time * MaxSpeed /\ Arrives(servo, rest)

OneSinks ==
  \E level \in Level, time \in {THROTTLE, CENTER}, k \in 1 .. FRAME :
     /\ line = <<OnLine(level, time, k)>> /\ Easy(level, time, k)
     /\ bridge = "ready" => time = THROTTLE

SinkLine ==
  /\ bridge # "closed"
  /\ Settled(servo) /\ Falls(servo)
  /\ line = <<>> \/ OneSinks
  /\ bridge = "ready" /\ line = <<>> => Arrives(servo, FRAME + THROTTLE - since)
  /\ Starting => LineGoal = 0 /\ servo.at = 0 /\ servo.goal = 0

LEMMA EasyArrives ==
  ASSUME TypeOK, Settled(servo), NEW level \in Level, NEW time \in {THROTTLE, CENTER},
         NEW rest, Easy(level, time, 1), servo' = Commanded(Moved(servo), OnLine(level, time, rest))
  PROVE  /\ Settled(servo') /\ Falls(servo')
         /\ servo'.at = Moved(servo).at /\ servo'.move = time
<1>1. servo \in ServoType BY TypesAre
<1> DEFINE r == Moved(servo)
<1>2. r \in ServoType /\ r.goal = servo.goal BY <1>1, MovedRange
<1>3. time \in Nat \ {0} BY TimesPositive
<1>4. servo'.at = r.at /\ servo'.goal = level /\ servo'.move = time
  <2> HIDE DEF r
  <2> QED BY <1>2 DEF Commanded, OnLine, ServoType, r
<1>5. r.at = servo.goal BY <1>1, MovedArrives DEF Easy
<1> HIDE DEF r
<1>6. r.at - level <= time * MaxSpeed BY <1>5 DEF Easy
<1> QED BY <1>3, <1>4, <1>6 DEF Settled, Falls, r

LEMMA SinkLineTick ==
  ASSUME TypeOK, LineInv, SinkLine, Tick
  PROVE  SinkLine' /\ ~Sinks(MaxSpeed)
<1> DEFINE r == Moved(servo)
<1>1. servo \in ServoType /\ Settled(servo) /\ Falls(servo) BY TypesAre DEF SinkLine
<1>2. /\ Settled(r) /\ Falls(r) /\ servo.at - r.at <= MaxSpeed
      /\ r \in ServoType /\ r.goal = servo.goal
  BY <1>1, MovedSlowly, MovedRange
<1>3. /\ since' = Smaller(since + 1, THROTTLE) /\ bridge' = bridge
      /\ since \in Int /\ since' \in Int /\ since' <= since + 1
  <2>1. since \in Int /\ since' = Smaller(since + 1, THROTTLE) /\ bridge' = bridge
    BY TypesAre DEF Tick
  <2> QED BY <2>1, Durations DEF Smaller
<1>4. r.at \in Int /\ servo.at \in Int /\ MaxSpeed \in Nat /\ FRAME \in Nat /\ THROTTLE \in Nat
  BY <1>1, <1>2, ServoFields, SpeedFacts, Durations
<1>5. servo'.at = r.at => ~Sinks(MaxSpeed) BY <1>2, <1>4 DEF Sinks
<1>6. (Starting => LineGoal = 0 /\ servo.at = 0 /\ servo.goal = 0)'
  <2> SUFFICES ASSUME Starting PROVE LineGoal' = 0 /\ servo'.at = 0 /\ servo'.goal = 0
    BY <1>3 DEF Starting
  <2> QED BY <1>1, FlatStays DEF SinkLine
<1>7. CASE line = <<>>
  <2>1. servo' = r /\ line' = <<>> BY <1>7 DEF Tick
  <2>2. bridge = "ready" => Arrives(servo', FRAME + THROTTLE - since')
    <3>1. CASE bridge = "ready"
      <4> DEFINE n == FRAME + THROTTLE - since
      <4>1. n \in Int /\ n - 1 <= FRAME + THROTTLE - since' BY <1>3, <1>4
      <4>2. Arrives(servo, n) BY <1>7, <3>1 DEF SinkLine
      <4> HIDE DEF n
      <4>3. Arrives(r, n - 1) BY <1>1, <4>1, <4>2, MovedArrives
      <4>4. r.move \in Nat BY <1>2, ServoFields
      <4> HIDE DEF r
      <4>5. FRAME + THROTTLE - since' \in Int BY <1>3, <1>4
      <4> QED BY <2>1, <4>1, <4>3, <4>4, <4>5 DEF Arrives
    <3> QED BY <3>1
  <2> QED BY <1>2, <1>3, <1>5, <1>6, <2>1, <2>2 DEF SinkLine
<1>8. CASE OneSinks
  <2>1. PICK level \in Level, time \in {THROTTLE, CENTER}, k \in 1 .. FRAME :
          /\ line = <<OnLine(level, time, k)>> /\ Easy(level, time, k)
          /\ bridge = "ready" => time = THROTTLE
    BY <1>8 DEF OneSinks
  <2>2. /\ line # <<>> /\ Head(line) = OnLine(level, time, k) /\ Head(line).left = k
        /\ Tail(line) = <<>> /\ [line EXCEPT ![1].left = @ - 1] = <<OnLine(level, time, k - 1)>>
    <3>1. k \in Int OBVIOUS
    <3> QED BY <2>1, <3>1, OneSent DEF OnLine
  <2>3. CASE k = 1
    <3>1. line' = <<>> /\ servo' = Commanded(r, OnLine(level, time, k))
      BY <2>2, <2>3 DEF Tick
    <3>2. /\ Settled(servo') /\ Falls(servo') /\ servo'.at = r.at /\ servo'.move = time
      BY <1>1, <2>1, <2>3, <3>1, EasyArrives
    <3>3. bridge = "ready" => Arrives(servo', FRAME + THROTTLE - since')
      <4>1. CASE bridge = "ready"
        <5>1. FreeIn(FRAME - since) BY <4>1 DEF LineInv
        <5>2. PICK l2, t2 : \E n \in 1 .. FRAME - since : line = <<OnLine(l2, t2, n)>>
          BY <2>2, <5>1 DEF FreeIn
        <5>3. PICK n \in 1 .. FRAME - since : line = <<OnLine(l2, t2, n)>> BY <5>2
        <5>4. 1 <= FRAME - since BY <1>3, <1>4, <5>3
        <5>5. servo'.move <= FRAME + THROTTLE - since'
          BY <1>3, <1>4, <2>1, <3>2, <4>1, <5>4
        <5> QED BY <5>5 DEF Arrives
      <4> QED BY <4>1
    <3> QED BY <1>3, <1>5, <1>6, <3>1, <3>2, <3>3 DEF SinkLine
  <2>4. CASE k # 1
    <3>1. line' = <<OnLine(level, time, k - 1)>> /\ servo' = r
      BY <2>2, <2>4 DEF Tick
    <3>2. k \in Int /\ k - 1 \in 1 .. FRAME BY <1>4, <2>4
    <3>3. Arrives(servo', k - 1) BY <1>1, <2>1, <3>1, <3>2, MovedArrives DEF Easy
    <3>4. servo'.goal - level <= time * MaxSpeed
      <4>1. servo'.goal = servo.goal BY <1>2, <3>1
      <4> QED BY <2>1, <4>1 DEF Easy
    <3>5. OneSinks' BY <1>3, <2>1, <3>1, <3>2, <3>3, <3>4 DEF OneSinks, Easy
    <3>6. line' # <<>> BY <3>1
    <3> QED BY <1>2, <1>3, <1>5, <1>6, <3>1, <3>5, <3>6 DEF SinkLine
  <2> QED BY <2>3, <2>4
<1> QED BY <1>7, <1>8 DEF SinkLine

(* ControlledDescent, the goals: the engine rises up to the moment it is told   *)
(* to stop, and then falls along its curve; the last pose of the loop, which *)
(* may follow the first one of sit_down, is one step of the ramp above it.   *)
Ceiling(j) == IF j < 0 THEN start
              ELSE IF j = 0 THEN start + MaxSpeed ELSE Fallen(start, j)

SinkEngine ==
  /\ sitter = "idle" => current <= Risen(elapsed)
  /\ sitter # "idle" /\ loop = "act"
       => current = start /\ start <= Risen(elapsed) /\ Reached(elapsed - 1) <= start

SinkReady ==
  /\ since >= 0
  /\ sitter = "idle" => LineGoal <= current /\ (mail # <<>> => mail[1] = current)
  /\ sitter = "step" => LineGoal <= Ceiling(i - since)
  /\ sitter = "sleep" => LineGoal <= Ceiling(i - 1 - since)
  /\ sitter \in {"step", "sleep"} /\ mail # <<>> =>
       /\ i <= 1 => start <= mail[1] /\ mail[1] <= start + MaxSpeed
       /\ i > 1 => mail[1] = Fallen(start, i - 1)
  /\ sitter = "sleep" /\ mail = <<>> => since < THROTTLE

SinkInv ==
  /\ TypeOK /\ Order
  /\ Calm => /\ LineInv /\ EngineRises /\ SinkLine /\ SinkEngine
             /\ bridge = "ready" => SinkReady

(* The curve of sit_down leaves the first pose slowly enough for a robot that  *)
(* is still rising: with the durations of the code it does so by far.       *)
StartsSlowly == Smooth(THROTTLE, DESCENT) <= (THROTTLE - 1) * MaxSpeed

LEMMA SinkStart == Init => SinkInv
<1> SUFFICES ASSUME Init PROVE SinkInv
  OBVIOUS
<1>1. TypeOK /\ LineInv BY DriveTypesStart, LineStart
<1>2. HOLD \in Nat \ {0} /\ THROTTLE \in Nat \ {0} /\ MaxSpeed \in Nat
  BY DriveAssumption, SpeedFacts
<1>3. Reached(elapsed - 1) = 0 /\ 0 <= Risen(elapsed)
  <2>1. elapsed - 1 \in Int /\ elapsed - 1 <= HOLD /\ elapsed \in Int BY <1>2 DEF Init
  <2> QED BY <2>1, RisenFacts
<1>4. SinkLine
  <2>1. LineGoal = 0 /\ 0 * MaxSpeed = 0 BY SMT, <1>2 DEF Init, LineGoal
  <2> QED BY <2>1 DEF Init, SinkLine, Settled, Falls
<1>5. Order /\ EngineRises /\ SinkEngine /\ bridge # "ready"
  BY <1>3 DEF Init, Order, EngineRises, SinkEngine
<1> QED BY <1>1, <1>4, <1>5 DEF SinkInv

LEMMA CeilingRange ==
  ASSUME TypeOK, NEW j \in Int, j <= DESCENT
  PROVE  0 <= Ceiling(j) /\ Ceiling(j) \in Int
<1>1. start \in Level /\ start \in Int /\ 0 <= start BY NumbersAre
<1>2. MaxSpeed \in Nat /\ DESCENT \in Nat BY SpeedFacts, DriveAssumption
<1>3. CASE j <= 0 BY <1>1, <1>2, <1>3 DEF Ceiling
<1>4. CASE j > 0
  <2>1. Fallen(start, j) \in Level BY <1>1, <1>4, FallenFacts
  <2>2. Ceiling(j) = Fallen(start, j) BY <1>4 DEF Ceiling
  <2> QED BY <2>1, <2>2, StandingNat DEF Level
<1> QED BY <1>3, <1>4

LEMMA SinkLineStays ==
  ASSUME SinkLine, UNCHANGED <<line, servo, bridge, since>>
  PROVE  SinkLine'
<1>1. LineGoal' = LineGoal BY GoalStays
<1> QED BY <1>1 DEF SinkLine, OneSinks, Easy, Arrives, Settled, Falls, Starting

LEMMA SinkLoop ==
  ASSUME TypeOK, Order, SinkEngine, LoopAct, bridge = "ready" => SinkReady
  PROVE  SinkEngine' /\ (bridge' = "ready" => SinkReady')
<1>1. /\ loop = "act" /\ loop' = "sleep" /\ current' = Pose(current) /\ Publish(current')
      /\ UNCHANGED <<sitter, i, start, bridge, since, elapsed, line, servo>>
  BY DEF LoopAct, bridgeVars, worldVars
<1>2. /\ start \in Int /\ current \in Level /\ current \in Int /\ LineGoal \in Int
      /\ elapsed \in Int /\ elapsed - 1 \in Int /\ MaxSpeed \in Nat
  BY NumbersAre, SpeedFacts
<1>3. LineGoal' = LineGoal BY <1>1, GoalStays
<1>4. /\ Pose(current) <= Risen(elapsed) /\ Pose(current) \in Int
      /\ current <= Risen(elapsed) => current <= Pose(current)
  BY <1>2, PoseFacts, StandingNat DEF Level
<1>5. SinkEngine' BY <1>1, <1>4 DEF SinkEngine
<1>6. ASSUME sitter # "idle" PROVE start <= Pose(current) /\ Pose(current) <= start + MaxSpeed
  <2>1. current = start /\ start <= Risen(elapsed) /\ Reached(elapsed - 1) <= start
    BY <1>1, <1>6 DEF SinkEngine
  <2> DEFINE e == elapsed - 1
  <2>2. e \in Int /\ elapsed <= e + 1 BY <1>2
  <2>3. Reached(e) <= start BY <2>1
  <2> HIDE DEF e
  <2>4. Risen(elapsed) <= Reached(e) + 1 * MaxSpeed
    <3> DEFINE d == 1
    <3>1. d \in Int /\ 1 <= d /\ elapsed <= e + d BY <2>2
    <3> HIDE DEF d
    <3>2. Risen(elapsed) <= Reached(e) + d * MaxSpeed BY <1>2, <2>2, <3>1, RampSlope
    <3> QED BY <3>2 DEF d
  <2>5. Risen(elapsed) \in Int /\ Reached(e) \in Int BY <1>2, <2>2, RisenFacts
  <2> QED BY <1>2, <1>4, <2>1, <2>3, <2>4, <2>5
<1>7. ASSUME bridge = "ready" PROVE SinkReady'
  <2>1. mail' = <<Pose(current)>> BY <1>1, <1>7 DEF Publish
  <2>2. mail' # <<>> /\ mail'[1] = Pose(current) BY <2>1
  <2>3. sitter = "idle" => LineGoal <= Pose(current)
    BY <1>2, <1>4, <1>7 DEF SinkReady, SinkEngine
  <2>4. SinkReady BY <1>7
  <2>5. Ceiling(i - since)' = Ceiling(i - since) /\ Ceiling(i - 1 - since)' = Ceiling(i - 1 - since)
    BY <1>1 DEF Ceiling
  <2>6. sitter \in {"step", "sleep"} => i <= 1 BY <1>1 DEF Order
  <2>7. i > 1 => ~(i <= 1) BY NumbersAre
  <2> QED BY <1>1, <1>3, <1>6, <2>2, <2>3, <2>4, <2>5, <2>6, <2>7 DEF SinkReady
<1> QED BY <1>1, <1>5, <1>7

LEMMA SinkSit ==
  ASSUME TypeOK, Order, EngineRises, SinkEngine, bridge = "ready" => SinkReady,
         LoopCheck \/ SitStart \/ SitStep \/ SitEnd
  PROVE  SinkEngine' /\ (bridge' = "ready" => SinkReady')
<1> USE ConstantsAre
<1>1. UNCHANGED <<bridge, since, elapsed, line, servo>>
  BY DEF LoopCheck, SitStart, SitStep, SitEnd, bridgeVars, worldVars
<1>2. /\ i \in Int /\ 0 <= i /\ i <= DESCENT /\ start \in Level /\ start \in Int
      /\ current \in Level /\ current \in Int /\ since \in Int /\ LineGoal \in Int
      /\ MaxSpeed \in Nat
  BY NumbersAre, SpeedFacts
<1>3. LineGoal' = LineGoal BY <1>1, GoalStays
<1>4. CASE LoopCheck
  <2>1. UNCHANGED <<sitter, i, start, current, mail>>
        /\ loop' = IF sitter = "idle" THEN "act" ELSE "ended"
    BY <1>4 DEF LoopCheck, Goes
  <2>2. Ceiling(i - since)' = Ceiling(i - since) /\ Ceiling(i - 1 - since)' = Ceiling(i - 1 - since)
    BY <1>1, <2>1 DEF Ceiling
  <2> QED BY <1>1, <1>3, <2>1, <2>2 DEF SinkEngine, SinkReady
<1>5. CASE SitStart
  <2>1. /\ sitter = "idle" /\ sitter' = "step" /\ start' = current /\ i' = 0
        /\ UNCHANGED <<loop, current, mail>>
    BY <1>5 DEF SitStart
  <2>2. SinkEngine' BY <1>1, <2>1 DEF SinkEngine, EngineRises
  <2>3. ASSUME bridge = "ready" PROVE SinkReady'
    <3>1. since >= 0 /\ LineGoal <= current /\ (mail # <<>> => mail[1] = current)
      BY <2>1, <2>3 DEF SinkReady
    <3>2. Ceiling(i - since)' = IF since = 0 THEN current + MaxSpeed ELSE current
      <4>1. Ceiling(i - since)' = IF 0 - since < 0 THEN current
              ELSE IF 0 - since = 0 THEN current + MaxSpeed ELSE Fallen(current, 0 - since)
        BY <1>1, <2>1 DEF Ceiling
      <4> QED BY <1>2, <3>1, <4>1
    <3>3. LineGoal <= Ceiling(i - since)' /\ current <= current + MaxSpeed
      BY <1>2, <3>1, <3>2
    <3>4. ~(i' > 1) BY <2>1
    <3>5. mail' # <<>> => start' <= mail'[1] /\ mail'[1] <= start' + MaxSpeed
      BY <1>2, <2>1, <3>1, <3>3
    <3> QED BY <1>1, <1>3, <2>1, <3>1, <3>3, <3>4, <3>5 DEF SinkReady
  <2> QED BY <1>1, <2>2, <2>3
<1>6. CASE SitStep
  <2>1. /\ sitter = "step" /\ sitter' = "sleep" /\ i < DESCENT /\ i' = i + 1
        /\ current' = Descended(i) /\ Publish(current') /\ UNCHANGED <<loop, start>>
    BY <1>6 DEF SitStep
  <2>2. current' = Fallen(start, i) BY <2>1, DescendedIsFallen
  <2>3. Fallen(start, 0) = start BY <1>2, FallenFacts
  <2>4. SinkEngine'
    <3>1. loop = "act" => i = 0 /\ start <= Risen(elapsed) /\ Reached(elapsed - 1) <= start
      BY <2>1 DEF Order, SinkEngine
    <3> QED BY <1>1, <2>1, <2>2, <2>3, <3>1 DEF SinkEngine
  <2>5. ASSUME bridge = "ready" PROVE SinkReady'
    <3>1. mail' = <<Fallen(start, i)>> BY <2>1, <2>2, <2>5 DEF Publish
    <3>2. mail' # <<>> /\ mail'[1] = Fallen(start, i) BY <3>1
    <3>3. LineGoal <= Ceiling(i - since) /\ since >= 0 BY <2>1, <2>5 DEF SinkReady
    <3>4. Ceiling(i - 1 - since)' = Ceiling(i - since)
      <4>1. (i + 1) - 1 - since = i - since BY <1>2
      <4> QED BY <1>1, <2>1, <4>1 DEF Ceiling
    <3>5. i' <= 1 => i = 0 BY <1>2, <2>1
    <3>6. i' - 1 = i BY <1>2, <2>1
    <3>7. i' <= 1 => start <= mail'[1] /\ mail'[1] <= start + MaxSpeed
      BY <1>2, <2>3, <3>2, <3>5
    <3> QED BY <1>1, <1>3, <2>1, <3>2, <3>3, <3>4, <3>6, <3>7 DEF SinkReady
  <2> QED BY <1>1, <2>4, <2>5
<1>7. CASE SitEnd
  <2>1. /\ sitter = "step" /\ sitter' = "ended" /\ i >= 1
        /\ UNCHANGED <<loop, i, start, current, mail>>
    BY <1>2, <1>7 DEF SitEnd
  <2>2. loop # "act" BY <1>2, <2>1 DEF Order
  <2> QED BY <1>1, <1>3, <2>1, <2>2 DEF SinkEngine, SinkReady
<1> QED BY <1>4, <1>5, <1>6, <1>7

(* What the bridge writes next lies at most one interval of the curve lower. *)
LEMMA NextPacket ==
  ASSUME StartsSlowly, TypeOK, Order, SinkReady, mail # <<>>, since = THROTTLE
  PROVE  LineGoal <= mail[1] + Reach
<1> USE ConstantsAre
<1>1. /\ i \in Int /\ 0 <= i /\ i <= DESCENT /\ start \in Level /\ start \in Int
      /\ LineGoal \in Int /\ MaxSpeed \in Nat
  BY NumbersAre, SpeedFacts
<1>2. mail[1] \in Int
  <2>1. mail[1] \in Level BY TypesAre DEF MailType
  <2> QED BY <2>1, StandingNat DEF Level
<1>3. sitter # "ended" BY DEF Order
<1>4. CASE sitter = "idle" BY <1>1, <1>2, <1>4 DEF SinkReady
<1>5. CASE sitter = "step"
  <2>1. i = 0 BY <1>1, <1>5 DEF Order
  <2>2. LineGoal <= start /\ start <= mail[1]
    <3>1. LineGoal <= Ceiling(i - since) /\ i <= 1 /\ i - since < 0
      BY <1>1, <1>5, <2>1 DEF SinkReady
    <3>2. Ceiling(i - since) = start BY <3>1 DEF Ceiling
    <3> QED BY <1>5, <3>1, <3>2 DEF SinkReady
  <2> QED BY <1>1, <1>2, <2>2
<1>6. CASE sitter = "sleep"
  <2> DEFINE k == i - 1
             j == k - THROTTLE
  <2>1. k \in Int /\ 0 <= k /\ k <= DESCENT /\ j \in Int /\ j < k
    BY <1>1, <1>6 DEF Order
  <2>2. LineGoal <= Ceiling(j) BY <1>6 DEF SinkReady
  <2>3. CASE k = 0
    <3>1. Ceiling(j) = start BY <2>1, <2>3 DEF Ceiling
    <3>2. i <= 1 BY <1>1, <2>3
    <3>3. start <= mail[1] BY <1>6, <3>2 DEF SinkReady
    <3> HIDE DEF j, k
    <3> QED BY <1>1, <1>2, <2>2, <3>1, <3>3
  <2>4. CASE k > 0
    <3>1. mail[1] = Fallen(start, k)
      <4>1. i > 1 BY <1>1, <2>4
      <4> QED BY <1>6, <4>1 DEF SinkReady
    <3> HIDE DEF k
    <3>2. Fallen(start, k) \in Int
      <4>1. Fallen(start, k) \in Level BY <1>1, <2>1, FallenFacts
      <4> QED BY <4>1, StandingNat DEF Level
    <3>3. CASE j < 0
      <4>1. Ceiling(j) = start BY <3>3 DEF Ceiling
      <4>2. k <= THROTTLE BY <2>1, <3>3
      <4>3. Fallen(start, 0) <= Fallen(start, k) + (k - 0) * MaxSpeed /\ Fallen(start, 0) = start
        BY <1>1, <2>1, FallenFacts
      <4>4. k * MaxSpeed <= Reach BY <2>1, <4>2, ReachFacts
      <4>5. k * MaxSpeed \in Int /\ k - 0 = k BY SMT, <1>1, <2>1
      <4>6. start <= Fallen(start, k) + k * MaxSpeed BY <4>3, <4>5
      <4> DEFINE m == k * MaxSpeed
      <4>7. m \in Int /\ m <= Reach /\ start <= Fallen(start, k) + m BY <4>4, <4>5, <4>6
      <4> HIDE DEF m, j
      <4> QED BY <1>1, <2>2, <3>1, <3>2, <4>1, <4>7
    <3>4. CASE j = 0
      <4>1. k = THROTTLE /\ Ceiling(j) = start + MaxSpeed BY <2>1, <3>4 DEF Ceiling
      <4>2. start <= Fallen(start, k) + Smooth(k, DESCENT) BY <1>1, <2>1, FallenFacts
      <4>3. Smooth(k, DESCENT) <= (THROTTLE - 1) * MaxSpeed BY <4>1 DEF StartsSlowly
      <4>4. (THROTTLE - 1) * MaxSpeed = Reach - MaxSpeed BY SMT, <1>1 DEF Reach
      <4>5. Smooth(k, DESCENT) \in Int
        <5>1. Smooth(k, DESCENT) \in Level BY <2>1, SmoothRange
        <5> QED BY <5>1, StandingNat DEF Level
      <4> DEFINE m == Smooth(k, DESCENT)
      <4>6. m \in Int /\ m <= Reach - MaxSpeed /\ start <= Fallen(start, k) + m
        BY <4>2, <4>3, <4>4, <4>5
      <4> HIDE DEF m, j
      <4> QED BY <1>1, <2>2, <3>1, <3>2, <4>1, <4>6
    <3>5. CASE j > 0
      <4>1. Ceiling(j) = Fallen(start, j)
        <5> HIDE DEF j
        <5>1. ~(j < 0) /\ j # 0 BY <2>1, <3>5
        <5> QED BY <5>1 DEF Ceiling
      <4>2. Fallen(start, j) <= Fallen(start, k) + (k - j) * MaxSpeed /\ Fallen(start, j) \in Level
        <5> HIDE DEF j
        <5>1. 0 <= j /\ j <= k BY <2>1, <3>5
        <5> QED BY <1>1, <2>1, <5>1, FallenFacts
      <4>3. k - j = THROTTLE BY <2>1
      <4>4. Fallen(start, j) \in Int BY <4>2, StandingNat DEF Level
      <4>5. Fallen(start, j) <= Fallen(start, k) + Reach BY <4>2, <4>3 DEF Reach
      <4> HIDE DEF j
      <4> QED BY <1>1, <2>2, <3>1, <3>2, <4>1, <4>4, <4>5
    <3> HIDE DEF j
    <3>6. j < 0 \/ j = 0 \/ j > 0 BY <2>1
    <3> QED BY <3>3, <3>4, <3>5, <3>6
  <2> HIDE DEF j, k
  <2>5. k = 0 \/ k > 0 BY <2>1
  <2> QED BY <2>3, <2>4, <2>5
<1> QED BY <1>3, <1>4, <1>5, <1>6 DEF TypeOK

LEMMA SinkBridge ==
  ASSUME StartsSlowly, TypeOK, LineInv, Order, SinkLine, SinkEngine, bridge = "ready" => SinkReady,
         Bridge, Calm'
  PROVE  SinkLine' /\ SinkEngine' /\ (bridge' = "ready" => SinkReady')
<1> USE ConstantsAre
<1>1. UNCHANGED <<loop, sitter, i, start, current, elapsed, servo, killed>>
  BY DEF Bridge, Boot, CenterAll, Subscribe, joint_state_callback, Shutdown, engineVars, worldVars
<1>2. /\ i \in Int /\ 0 <= i /\ i <= DESCENT
      /\ start \in Level /\ start \in Int /\ 0 <= start
      /\ current \in Int /\ 0 <= current /\ LineGoal \in Int
      /\ since \in Int /\ since <= THROTTLE /\ MaxSpeed \in Nat
  BY NumbersAre, SpeedFacts
<1>3. FaultType /\ LineType BY TypesAre
<1>4. \A kind : ~Fault(kind)
  <2> SUFFICES ASSUME NEW kind, Fault(kind) PROVE FALSE OBVIOUS
  <2>1. kind \notin Faults BY <1>3, FaultRemembered DEF Calm
  <2> QED BY <2>1 DEF Fault
<1>5. SinkEngine' BY <1>1 DEF SinkEngine
<1>6. servo.goal \in Int /\ servo \in ServoType
  <2>1. servo \in ServoType BY TypesAre
  <2> QED BY <2>1, ServoFields
<1>7. CASE Boot
  <2>1. bridge = "down" /\ bridge' = "boot" /\ UNCHANGED <<mail, since, line>>
    BY <1>4, <1>7 DEF Boot
  <2>2. LineGoal' = LineGoal BY <1>1, <2>1, GoalStays
  <2>3. SinkLine'
    BY <1>1, <2>1, <2>2 DEF SinkLine, OneSinks, Easy, Arrives, Settled, Falls, Starting
  <2> QED BY <1>5, <2>1, <2>3
<1>8. CASE CenterAll
  <2>1. /\ bridge = "boot" /\ wait = 0 /\ bridge' = "center"
        /\ line' = Append(line, Packet(0, CENTER))
    BY <1>4, <1>8 DEF CenterAll, Write
  <2>2. line = <<>> BY <2>1 DEF LineInv, FreeIn
  <2>3. line' = <<OnLine(0, CENTER, FRAME)>> BY <2>1, <2>2, Appended DEF Packet, OnLine
  <2>4. servo.at = 0 /\ servo.goal = 0 BY <2>1 DEF SinkLine, Starting
  <2>5. CENTER * MaxSpeed \in Nat BY TimesPositive
  <2>6. OneSinks'
    <3>1. 0 \in Level /\ CENTER \in {THROTTLE, CENTER} /\ FRAME \in 1 .. FRAME
      BY Durations
    <3>2. servo'.goal - 0 <= CENTER * MaxSpeed /\ servo'.at = servo'.goal BY <1>1, <2>4, <2>5
    <3> QED BY <2>1, <2>3, <3>1, <3>2 DEF OneSinks, Easy, Arrives
  <2>7. LineGoal' = 0 BY <1>3, <2>1, GoalAppended
  <2>8. SinkLine' BY <1>1, <2>1, <2>4, <2>6, <2>7 DEF SinkLine, Settled, Falls
  <2> QED BY <1>5, <2>1, <2>8
<1>9. CASE Subscribe
  <2>1. /\ bridge = "center" /\ wait = 0 /\ bridge' = "ready" /\ since' = 0
        /\ UNCHANGED <<mail, line>>
    BY <1>9 DEF Subscribe, worldVars
  <2>2. line = <<>> /\ mail = <<>> BY <2>1 DEF LineInv, FreeIn, Order
  <2>3. LineGoal = 0 /\ servo.at = servo.goal BY <2>1 DEF SinkLine, Starting
  <2>4. LineGoal' = 0 BY <1>1, <2>1, <2>3, GoalStays
  <2>5. SinkLine' BY <1>1, <2>1, <2>2, <2>3 DEF SinkLine, Settled, Falls, Arrives, Starting
  <2>6. SinkReady'
    <3>1. 0 <= Ceiling(i) /\ 0 <= Ceiling(i - 1)
      <4>1. i - 1 \in Int /\ i - 1 <= DESCENT BY <1>2
      <4> QED BY <1>2, <4>1, CeilingRange
    <3>2. i - 0 = i /\ i - 1 - 0 = i - 1 BY <1>2
    <3>3. Ceiling(i - since)' = Ceiling(i) /\ Ceiling(i - 1 - since)' = Ceiling(i - 1)
      BY <1>1, <2>1, <3>2 DEF Ceiling
    <3>4. mail' = <<>> /\ since' >= 0 /\ since' < THROTTLE BY <2>1, <2>2
    <3> QED BY <1>1, <1>2, <2>4, <3>1, <3>3, <3>4 DEF SinkReady
  <2> QED BY <1>5, <2>5, <2>6
<1>10. CASE joint_state_callback
  <2>1. /\ bridge = "ready" /\ bridge' = "ready" /\ mail # <<>> /\ mail' = <<>>
    BY <1>10 DEF joint_state_callback
  <2>2. SinkReady BY <2>1
  <2>3. CASE since = THROTTLE
    <3>1. mail[1] = Head(mail) /\ Head(mail) \in Level /\ mail[1] \in Int
      <4>1. mail[1] = Head(mail) /\ Head(mail) \in Level BY <2>1, TypesAre DEF MailType
      <4> QED BY <4>1, StandingNat DEF Level
    <3>2. line' = Append(line, Packet(Head(mail), THROTTLE)) /\ since' = 0
      BY <1>2, <1>4, <1>10, <2>3 DEF joint_state_callback, Due, Write
    <3>3. line = <<>>
      <4>1. FreeIn(FRAME - since) BY <2>1 DEF LineInv
      <4> QED BY <2>3, <4>1 DEF FreeIn
    <3>4. line' = <<OnLine(Head(mail), THROTTLE, FRAME)>>
      BY <3>2, <3>3, Appended DEF Packet, OnLine
    <3>5. LineGoal = servo.goal BY <3>3 DEF LineGoal
    <3>6. Arrives(servo, FRAME)
      <4>1. Arrives(servo, FRAME + THROTTLE - since) BY <2>1, <3>3 DEF SinkLine
      <4>2. FRAME + THROTTLE - since = FRAME BY <2>3
      <4> QED BY <4>1, <4>2
    <3>7. LineGoal' = mail[1] BY <1>3, <3>1, <3>2, GoalAppended
    <3>8. servo.goal - mail[1] <= THROTTLE * MaxSpeed
      <4>1. LineGoal <= mail[1] + Reach BY <2>1, <2>2, <2>3, NextPacket
      <4>2. servo.goal - mail[1] <= Reach BY <1>6, <3>1, <3>5, <4>1
      <4> QED BY <4>2 DEF Reach
    <3>9. OneSinks'
      <4>1. FRAME \in 1 .. FRAME /\ THROTTLE \in {THROTTLE, CENTER} BY Durations
      <4>2. PICK l \in Level : l = Head(mail) BY <3>1
      <4>3. Easy(l, THROTTLE, FRAME)' BY <1>1, <3>1, <3>6, <3>8, <4>2 DEF Easy, Arrives
      <4> QED BY <3>4, <4>1, <4>2, <4>3 DEF OneSinks
    <3>10. line' # <<>> BY <3>4
    <3>11. SinkLine'
      BY <1>1, <2>1, <3>9, <3>10 DEF SinkLine, Settled, Falls, Starting
    <3>12. sitter = "idle" => LineGoal' <= current' BY <1>1, <1>2, <2>1, <2>2, <3>7 DEF SinkReady
    <3>13. sitter = "step" => LineGoal' <= Ceiling(i - since)'
      <4> SUFFICES ASSUME sitter = "step" PROVE LineGoal' <= Ceiling(i - since)'
        OBVIOUS
      <4>1. i = 0 BY <1>2, <2>1 DEF Order
      <4>2. i <= 1 /\ i - 0 = 0 BY <4>1
      <4>3. mail[1] <= start + MaxSpeed BY <2>1, <2>2, <4>2 DEF SinkReady
      <4>4. Ceiling(i - since)' = start + MaxSpeed BY <1>1, <3>2, <4>2 DEF Ceiling
      <4> QED BY <3>7, <4>3, <4>4
    <3>14. sitter = "sleep" => LineGoal' <= Ceiling(i - 1 - since)'
      <4> SUFFICES ASSUME sitter = "sleep" PROVE LineGoal' <= Ceiling(i - 1 - since)'
        OBVIOUS
      <4> DEFINE k == i - 1
      <4>1. k \in Int /\ k >= 0 /\ i - 1 - 0 = k BY <1>2 DEF Order
      <4>2. Ceiling(i - 1 - since)' = Ceiling(k) BY <1>1, <3>2, <4>1 DEF Ceiling
      <4>3. CASE k = 0
        <5>1. i <= 1 BY <1>2, <4>3
        <5>2. mail[1] <= start + MaxSpeed BY <2>1, <2>2, <5>1 DEF SinkReady
        <5>3. Ceiling(k) = start + MaxSpeed BY <4>3 DEF Ceiling
        <5> QED BY <3>7, <4>2, <5>2, <5>3
      <4>4. CASE k > 0
        <5>1. i > 1 BY <1>2, <4>4
        <5>2. mail[1] = Fallen(start, k) BY <2>1, <2>2, <5>1 DEF SinkReady
        <5>3. Ceiling(k) = Fallen(start, k) BY <4>1, <4>4 DEF Ceiling
        <5> QED BY <3>1, <3>7, <4>2, <5>2, <5>3
      <4> HIDE DEF k
      <4>5. k = 0 \/ k > 0 BY <4>1
      <4> QED BY <4>3, <4>4, <4>5
    <3>15. since' >= 0 /\ since' < THROTTLE BY <3>2
    <3>16. SinkReady' BY <1>1, <2>1, <3>12, <3>13, <3>14, <3>15 DEF SinkReady
    <3> QED BY <1>5, <3>11, <3>16
  <2>4. CASE since # THROTTLE
    <3>1. since < THROTTLE BY <1>2, <2>4
    <3>2. since' = since /\ line' = line
      BY <1>2, <1>10, <3>1 DEF joint_state_callback, Due, SinceDropped
    <3>3. LineGoal' = LineGoal BY <1>1, <3>2, GoalStays
    <3>4. SinkLine' BY <1>1, <2>1, <3>2, SinkLineStays
    <3>5. Ceiling(i - since)' = Ceiling(i - since) /\ Ceiling(i - 1 - since)' = Ceiling(i - 1 - since)
      BY <1>1, <3>2 DEF Ceiling
    <3>6. SinkReady' BY <1>1, <2>1, <2>2, <3>1, <3>2, <3>3, <3>5 DEF SinkReady
    <3> QED BY <1>5, <3>4, <3>6
  <2> QED BY <2>3, <2>4
<1>11. CASE Shutdown
  <2>1. "bridge" \in killed BY <1>11 DEF Shutdown
  <2> QED BY <1>1, <2>1 DEF Calm
<1> QED BY <1>7, <1>8, <1>9, <1>10, <1>11 DEF Bridge

LEMMA SinkTick ==
  ASSUME TypeOK, Order, EngineRises, SinkEngine, bridge = "ready" => SinkReady, Tick
  PROVE  SinkEngine' /\ (bridge' = "ready" => SinkReady')
<1> USE ConstantsAre
<1>1. /\ mail = <<>> /\ UNCHANGED <<mail, i, start, current, bridge>>
      /\ loop' # "act" /\ sitter # "step" /\ sitter' = IF sitter = "sleep" THEN "step" ELSE sitter
  BY DEF Tick, Quiet
<1>2. /\ i \in Int /\ current \in Int /\ current <= Standing
      /\ elapsed \in Int /\ elapsed <= Horizon /\ since \in Int /\ since <= THROTTLE
      /\ LineGoal \in Int
  BY NumbersAre
<1>3. elapsed' = Smaller(elapsed + 1, Horizon) /\ since' = Smaller(since + 1, THROTTLE)
  BY DEF Tick
<1>4. LineGoal' = LineGoal BY GoalSent
<1>5. SinkEngine'
  <2>1. elapsed' \in Int /\ elapsed <= elapsed' BY <1>2, <1>3 DEF Smaller
  <2>2. Risen(elapsed) <= Risen(elapsed') /\ Risen(elapsed) \in Int /\ Risen(elapsed') \in Int
    BY <1>2, <2>1, RisenFacts
  <2>3. sitter = "idle" => current <= Risen(elapsed') BY <1>2, <2>2 DEF SinkEngine
  <2> QED BY <1>1, <2>3 DEF SinkEngine
<1>6. ASSUME bridge = "ready" PROVE SinkReady'
  <2>1. SinkReady BY <1>6
  <2>2. since' >= 0
    <3>1. since >= 0 BY <2>1 DEF SinkReady
    <3> QED BY <1>2, <1>3, <3>1 DEF Smaller
  <2>3. sitter = "sleep" => LineGoal <= Ceiling(i - since)'
    <3> SUFFICES ASSUME sitter = "sleep" PROVE LineGoal <= Ceiling(i - since)'
      OBVIOUS
    <3>1. since < THROTTLE /\ LineGoal <= Ceiling(i - 1 - since) BY <1>1, <2>1 DEF SinkReady
    <3>2. since' = since + 1 BY <1>2, <1>3, <3>1 DEF Smaller
    <3>3. i - (since + 1) = i - 1 - since BY <1>2
    <3>4. Ceiling(i - since)' = Ceiling(i - 1 - since) BY <1>1, <3>2, <3>3 DEF Ceiling
    <3> QED BY <3>1, <3>4
  <2> QED BY <1>1, <1>4, <2>1, <2>2, <2>3 DEF SinkReady
<1> QED BY <1>1, <1>5, <1>6

LEMMA SinkStep ==
  ASSUME StartsSlowly, SinkInv, [Next]_vars, Calm'
  PROVE  SinkInv' /\ Calm
<1>1. TypeOK /\ Order BY DEF SinkInv
<1>2. FaultType BY <1>1, TypesAre
<1>3. \A kind : ~Fault(kind)
  <2> SUFFICES ASSUME NEW kind, Fault(kind) PROVE FALSE OBVIOUS
  <2>1. kind \notin Faults BY <1>2, FaultRemembered DEF Calm
  <2> QED BY <2>1 DEF Fault
<1>4. faults' = faults /\ (killed' = killed \/ killed = {}) /\ ~ClockStep
  BY <1>3 DEF Next, Engine, LoopCheck, LoopAct, SitStart, SitStep, SitEnd, Bridge, Boot,
         CenterAll, Subscribe, joint_state_callback, Shutdown, Write, Tick, Kill, Crash,
         ClockStep, vars, worldVars
<1>5. Calm BY <1>4 DEF Calm, NoFaultOf
<1>6. LineInv /\ EngineRises /\ SinkLine /\ SinkEngine /\ (bridge = "ready" => SinkReady)
  BY <1>5 DEF SinkInv
<1>7. TypeOK' /\ LineInv' /\ Order' /\ EngineRises'
  BY <1>1, <1>4, <1>6, DriveTypesStep, LineStep, OrderStep, EngineRisesStep
<1> SUFFICES SinkLine' /\ SinkEngine' /\ (bridge' = "ready" => SinkReady')
  BY <1>5, <1>7 DEF SinkInv
<1>8. CASE Engine
  <2>1. UNCHANGED <<line, servo, bridge, since>>
    BY <1>8 DEF Engine, LoopCheck, LoopAct, SitStart, SitStep, SitEnd, bridgeVars, worldVars
  <2> QED BY <1>1, <1>6, <1>8, <2>1, SinkLineStays, SinkLoop, SinkSit DEF Engine
<1>9. CASE Bridge BY <1>1, <1>6, <1>9, SinkBridge
<1>10. CASE Tick BY <1>1, <1>6, <1>10, SinkTick, SinkLineTick
<1>11. CASE Kill \/ UNCHANGED vars
  <2>1. UNCHANGED <<loop, sitter, i, start, current, mail, bridge, line, servo, since, elapsed>>
    BY <1>11 DEF Kill, vars, engineVars, bridgeVars, worldVars
  <2>2. LineGoal' = LineGoal BY <2>1, GoalStays
  <2>3. Ceiling(i - since)' = Ceiling(i - since) /\ Ceiling(i - 1 - since)' = Ceiling(i - 1 - since)
    BY <2>1 DEF Ceiling
  <2>4. SinkLine' BY <1>6, <2>1, SinkLineStays
  <2> QED BY <1>6, <2>1, <2>2, <2>3, <2>4 DEF SinkEngine, SinkReady
<1>12. ~Crash BY <1>3 DEF Crash
<1> QED BY <1>4, <1>8, <1>9, <1>10, <1>11, <1>12 DEF Next

(* While nothing goes wrong and only the engine is stopped, no servo ever      *)
(* sinks faster than the steepest part of the S-curve of sit_down, although *)
(* the bridge drops most of its poses (spider_gait_engine.py:99-121,        *)
(* lsc32_hardware_bridge.py:80-99).                                         *)
THEOREM DescentIsControlled == ASSUME StartsSlowly PROVE Spec => ControlledDescent
<1> DEFINE Controlled == NoFaultOf(Faults) /\ "bridge" \notin killed => ~Sinks(MaxSpeed)
<1>1. Init => SinkInv BY SinkStart
<1>2. SinkInv /\ [Next]_vars => SinkInv'
  <2> SUFFICES ASSUME SinkInv, [Next]_vars PROVE SinkInv'
    OBVIOUS
  <2>1. TypeOK' /\ Order' BY DriveTypesStep, OrderStep DEF SinkInv
  <2>2. CASE Calm' BY <2>2, SinkStep
  <2>3. CASE ~Calm' BY <2>1, <2>3 DEF SinkInv
  <2> QED BY <2>2, <2>3
<1>3. SinkInv /\ [Next]_vars => [Controlled]_vars
  <2> SUFFICES ASSUME SinkInv, Next, Calm PROVE ~Sinks(MaxSpeed)
    BY DEF Calm
  <2>1. TypeOK /\ LineInv /\ SinkLine BY DEF SinkInv
  <2>2. CASE Tick BY <2>1, <2>2, SinkLineTick
  <2>3. CASE servo' = servo
    <3>1. servo.at \in Int /\ MaxSpeed \in Nat \ {0}
      <4>1. servo \in ServoType BY <2>1, TypesAre
      <4> QED BY <4>1, ServoFields, SpeedFacts
    <3> QED BY <2>3, <3>1 DEF Sinks
  <2> QED BY <2>2, <2>3 DEF Next, Engine, LoopCheck, LoopAct, SitStart, SitStep, SitEnd, Bridge,
          Boot, CenterAll, Subscribe, joint_state_callback, Shutdown, Kill, Crash, ClockStep,
          worldVars
<1> QED BY <1>1, <1>2, <1>3, PTL DEF Spec, ControlledDescent
=============================================================================
