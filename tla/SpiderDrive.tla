---------------------------- MODULE SpiderDrive ----------------------------
(***************************************************************************)
(* The SPIDER robot from its launch to its shutdown: the gait engine       *)
(* (spider_gait_engine.py), the hardware bridge (lsc32_hardware_bridge.py) *)
(* that roslaunch starts and respawns, the serial line, and the servos.    *)
(*                                                                         *)
(* Time is counted in ticks of 20 ms, the period of the engine.  A pose is *)
(* one number, its level: 0 is the flat pose and Standing the stance.      *)
(***************************************************************************)
EXTENDS Integers, Sequences

CONSTANTS HOLD, RAMP, DESCENT,     \* phases of the engine, in ticks
          STARTUP, CENTER,         \* the two sleeps of the bridge's constructor
          RESPAWN,                 \* respawn_delay of the launch file
          THROTTLE,                \* rate_limit_sec
          FRAME,                   \* ticks the line takes for a packet
          Skews,                   \* how long after the engine the bridge may start
          Kills,                   \* sets of nodes that may be told to stop
          ClockSteps,              \* corrections of the wall clock, in ticks
          Faults,                  \* what may go wrong: "crash", "write", "clock", "port"
          MaxFaults                \* bound of the model: how often in a run

ASSUME DriveAssumption ==
  /\ {HOLD, RAMP, DESCENT, STARTUP, CENTER, RESPAWN, THROTTLE, FRAME} \subseteq Nat \ {0}
  /\ Skews \subseteq Nat /\ Kills \subseteq SUBSET {"engine", "bridge"}
  /\ ClockSteps \subseteq Int
  /\ Faults \subseteq {"crash", "write", "clock", "port"} /\ MaxFaults \in Nat

(* 61 bytes take 63.5 ms at 9600 baud: less than the rate limit and every sleep. *)
ASSUME LineAssumption == \A d \in {THROTTLE, CENTER, STARTUP, RESPAWN} : FRAME <= d

Standing == 1000
Up       == HOLD + RAMP      \* from here on the engine stands and walks
Horizon  == Up + THROTTLE    \* beyond this, where the engine stood at the last
                             \* write of the bridge, its clocks are not told apart

VARIABLES
  loop,      \* the thread of the engine: "check", "act", "sleep", "ended"
  sitter,    \* its shutdown hook sit_down: "idle", "step", "sleep", "ended"
  i, start,  \* loop counter and start_angles of sit_down
  current,   \* current_angles, written by both
  elapsed,   \* now - start_time of the engine, by the wall clock
  mail,      \* the message queued for the bridge: queue_size is 1
  bridge,    \* "down", "boot", "center", "ready", "closed"
  wait,      \* what is left of its sleep, or of the respawn delay
  since,     \* now - last_write_time of the bridge, by the wall clock
  line,      \* packets in the serial driver, the first being sent
  servo,     \* [at, goal, move]: move is what is left of the time to reach goal
  killed,    \* nodes told to stop
  faults     \* what has gone wrong so far, in order

engineVars == <<loop, sitter, i, start, current>>
bridgeVars == <<bridge, wait, since, line>>
worldVars  == <<elapsed, servo, killed, faults>>
vars       == <<engineVars, mail, bridgeVars, worldVars>>

Fault(kind) ==
  kind \in Faults /\ Len(faults) < MaxFaults /\ faults' = Append(faults, kind)

NoFaultOf(kinds) == \A n \in DOMAIN faults : faults[n] \notin kinds

Smaller(a, b) == IF a < b THEN a ELSE b
Larger(a, b)  == IF a > b THEN a ELSE b

-----------------------------------------------------------------------------
(* The engine *)

(* slip: the polynomial is mistyped *)
Overshot(k, n) == (Standing * k * k * (4 * n - 2 * k)) \div (n * n * n)

(* get_smooth_ramp: p * p * (3 - 2 p) for p = k / n *)
Smooth(k, n) == (Standing * k * k * (3 * n - 2 * k)) \div (n * n * n)

Stance(now) == (now + Standing + 1) \div 2     \* the filter of the walking phase

(* slip: the robot rises as soon as it is switched on *)
PoseAtOnce(now) ==
  CASE elapsed < 0    -> 0
    [] elapsed < RAMP -> Smooth(elapsed, RAMP)
    [] OTHER          -> Stance(now)

Pose(now) ==
  CASE elapsed < HOLD -> 0
    [] elapsed \in HOLD .. Up - 1 -> Smooth(elapsed - HOLD, RAMP)
    [] OTHER -> Stance(now)

(* A subscriber that is there gets the message, the older one is dropped. *)
Publish(level) == mail' = IF bridge = "ready" THEN <<level>> ELSE <<>>

(* slip: the loop leaves only when the client library has shut down *)
LoopGoesOn == sitter # "ended"

Goes == sitter = "idle"

LoopCheck ==
  /\ loop = "check"
  /\ loop' = IF Goes THEN "act" ELSE "ended"
  /\ UNCHANGED <<sitter, i, start, current, mail, bridgeVars, worldVars>>

LoopAct ==
  /\ loop = "act"
  /\ current' = Pose(current) /\ Publish(current')
  /\ loop' = "sleep"
  /\ UNCHANGED <<sitter, i, start, bridgeVars, worldVars>>

(* sit_down, called by the client library when the node is told to stop *)
SitStart ==
  /\ sitter = "idle" /\ "engine" \in killed
  /\ sitter' = "step" /\ start' = current /\ i' = 0
  /\ UNCHANGED <<loop, current, mail, bridgeVars, worldVars>>

(* slip: the flat pose is commanded at once *)
FlatAtOnce(k) == 0

Descended(k) == (start * (Standing - Smooth(k, DESCENT))) \div Standing

SitStep ==
  /\ sitter = "step" /\ i < DESCENT
  /\ current' = Descended(i)
  /\ Publish(current')
  /\ i' = i + 1 /\ sitter' = "sleep"
  /\ UNCHANGED <<loop, start, bridgeVars, worldVars>>

SitEnd ==
  /\ sitter = "step" /\ i = DESCENT
  /\ sitter' = "ended" /\ UNCHANGED <<loop, i, start, current, mail, bridgeVars, worldVars>>

Engine == LoopCheck \/ LoopAct \/ SitStart \/ SitStep \/ SitEnd

-----------------------------------------------------------------------------
(* The bridge *)

Packet(level, time) == [goal |-> level, time |-> time, left |-> FRAME]

(* A write that raises SerialException is logged and forgotten. *)
Write(level, time) ==
  \/ line' = Append(line, Packet(level, time)) /\ UNCHANGED faults
  \/ Fault("write") /\ UNCHANGED line

(* The constructor ends the process when the port is not there. *)
Boot ==
  /\ bridge = "down" /\ wait = 0 /\ "bridge" \notin killed
  /\ \/ bridge' = "boot" /\ wait' = STARTUP /\ UNCHANGED faults
     \/ Fault("port") /\ wait' = RESPAWN /\ UNCHANGED bridge
  /\ UNCHANGED <<engineVars, mail, since, line, elapsed, servo, killed>>

CenterAll ==
  /\ bridge = "boot" /\ wait = 0
  /\ Write(0, CENTER)
  /\ bridge' = "center" /\ wait' = CENTER
  /\ UNCHANGED <<engineVars, mail, since, elapsed, servo, killed>>

Subscribe ==
  /\ bridge = "center" /\ wait = 0
  /\ bridge' = "ready" /\ since' = 0
  /\ UNCHANGED <<engineVars, mail, wait, line, worldVars>>

(* slip: the rate is not limited *)
AnyTime == TRUE

Due == since >= THROTTLE

(* slip: the time of the last message is kept instead of that of the write *)
SinceMessage == 0

SinceDropped == since

joint_state_callback ==
  /\ bridge = "ready" /\ mail # <<>>
  /\ mail' = <<>>
  /\ IF Due THEN Write(Head(mail), THROTTLE) /\ since' = 0
            ELSE since' = SinceDropped /\ UNCHANGED <<line, faults>>
  /\ UNCHANGED <<engineVars, bridge, wait, elapsed, servo, killed>>

(* shutdown: the hook is registered when the constructor has returned. *)
Shutdown ==
  /\ bridge # "closed" /\ "bridge" \in killed
  /\ IF bridge = "ready" THEN Write(0, CENTER) ELSE UNCHANGED <<line, faults>>
  /\ bridge' = "closed" /\ wait' = 0 /\ mail' = <<>>
  /\ UNCHANGED <<engineVars, since, elapsed, servo, killed>>

Bridge == Boot \/ CenterAll \/ Subscribe \/ joint_state_callback \/ Shutdown

-----------------------------------------------------------------------------
(* The world: servo controller, clocks, operator, faults *)

Init ==
  /\ loop = "check" /\ sitter = "idle" /\ i = 0 /\ start = 0 /\ current = 0
  /\ elapsed = 0 /\ mail = <<>>
  /\ bridge = "down" /\ wait \in Skews /\ since = 0 /\ line = <<>>
  /\ servo = [at |-> 0, goal |-> 0, move |-> 0]
  /\ killed = {} /\ faults = <<>>

(* Every thread has done what it does in this tick. *)
Quiet ==
  /\ loop \in {"sleep", "ended"} /\ sitter \in {"idle", "sleep", "ended"}
  /\ mail = <<>> /\ (wait = 0 => bridge \in {"ready", "closed"})
  /\ "engine" \in killed => sitter # "idle"
  /\ "bridge" \in killed => bridge = "closed"

Moved(s) == IF s.move = 0 THEN s
            ELSE [s EXCEPT !.at = @ + (s.goal - @) \div s.move, !.move = @ - 1]

Commanded(s, packet) == [s EXCEPT !.goal = packet.goal, !.move = packet.time]

Tick ==
  /\ Quiet
  /\ loop' = IF loop = "sleep" THEN "check" ELSE loop
  /\ sitter' = IF sitter = "sleep" THEN "step" ELSE sitter
  /\ elapsed' = Smaller(elapsed + 1, Horizon)
  /\ since' = Smaller(since + 1, THROTTLE) /\ wait' = Larger(wait - 1, 0)
  /\ IF line # <<>> /\ Head(line).left = 1
       THEN line' = Tail(line) /\ servo' = Commanded(Moved(servo), Head(line))
       ELSE /\ line' = IF line = <<>> THEN line ELSE [line EXCEPT ![1].left = @ - 1]
            /\ servo' = Moved(servo)
  /\ UNCHANGED <<i, start, current, mail, bridge, killed, faults>>

(* The operator stops a node, or the launch: killed nodes are not respawned. *)
Kill ==
  /\ killed = {} /\ killed' \in Kills \ {{}}
  /\ UNCHANGED <<engineVars, mail, bridgeVars, elapsed, servo, faults>>

Crash ==
  /\ Fault("crash") /\ bridge \in {"boot", "center", "ready"}
  /\ bridge' = "down" /\ wait' = RESPAWN /\ mail' = <<>>
  /\ UNCHANGED <<engineVars, since, line, elapsed, servo, killed>>

(* The wall clock is corrected: time.time() and rospy.Time follow it.  At the *)
(* Horizon the clock of the engine may show any later time.                 *)
ClockStep ==
  /\ Fault("clock")
  /\ \E d \in ClockSteps :
       /\ IF elapsed < Horizon THEN elapsed' = Smaller(elapsed + d, Horizon)
                               ELSE elapsed' \in Smaller(elapsed + d, Horizon) .. Horizon
       /\ since' = Smaller(since + d, THROTTLE)
  /\ UNCHANGED <<engineVars, mail, bridge, wait, line, servo, killed>>

Next == Engine \/ Bridge \/ Tick \/ Kill \/ Crash \/ ClockStep

Spec == Init /\ [][Next]_vars

(* The threads run and time goes on. *)
FairSpec == Spec /\ WF_vars(Engine \/ Bridge \/ Tick)

-----------------------------------------------------------------------------
Level == 0 .. Standing

TypeOK ==
  /\ loop \in {"check", "act", "sleep", "ended"}
  /\ sitter \in {"idle", "step", "sleep", "ended"}
  /\ i \in 0 .. DESCENT /\ start \in Level /\ current \in Level
  /\ elapsed \in Int /\ elapsed <= Horizon /\ since \in Int /\ since <= THROTTLE
  /\ mail \in {<<>>} \cup {<<level>> : level \in Level}
  /\ bridge \in {"down", "boot", "center", "ready", "closed"} /\ wait \in Nat
  /\ line \in Seq([goal : Level, time : {THROTTLE, CENTER}, left : 1 .. FRAME])
  /\ servo \in [at : Level, goal : Level, move : 0 .. Larger(THROTTLE, CENTER)]
  /\ killed \subseteq {"engine", "bridge"} /\ faults \in Seq(Faults) /\ Len(faults) <= MaxFaults

(* The rate limit keeps the serial line from falling behind: a packet is      *)
(* written when the one before has left, but for the one that centres the   *)
(* servos at shutdown (lsc32_hardware_bridge.py:55-58, "guarantees no buffer *)
(* overflow").                                                              *)
UartKeepsUp == Len(line) <= IF bridge = "closed" THEN 2 ELSE 1

(* The steepest part of the S-curves, which no servo has to outrun. *)
MaxSpeed == (3 * Standing) \div (2 * Smaller(RAMP, DESCENT)) + 1

Rises(by) == servo'.at - servo.at > by
Sinks(by) == servo.at - servo'.at > by

(* SPIDER_ROBOT_KINEMATICS.md, "The S-Curve Smooth Start": the robot is lifted *)
(* gently and never commanded to stand up at once, because the five seconds  *)
(* of flat pose outlast the start of the bridge; a clock that is set back    *)
(* repeats the ramp, and the bridge, which reads the same clock, is mute     *)
(* while the engine falls back to the flat pose.                             *)
GentleRise == [][NoFaultOf({"crash", "write", "port"}) => ~Rises(MaxSpeed)]_vars

(* sit_down, line 100: a "controlled descent", unless the bridge is stopped   *)
(* as well and centres the servos.                                           *)
ControlledDescent ==
  [][NoFaultOf(Faults) /\ "bridge" \notin killed => ~Sinks(MaxSpeed)]_vars

(* Left alone the robot comes to stand, in spite of lost packets, crashes and *)
(* respawns of the bridge, a late port and clocks set back.                  *)
StandsUp == <>(servo.at = Standing \/ killed # {})

(* What the rate limit and lost packets may cost of the end of the descent. *)
Nearly == Standing - Smooth(DESCENT - (1 + MaxFaults) * THROTTLE, DESCENT)

(* "Robot safely on ground" (sit_down, line 120): when sit_down has ended and *)
(* the line is empty, the servos are at or on their way to the flat pose,   *)
(* although the bridge drops four messages of five, the last one included.  *)
SafelyOnGround ==
  sitter = "ended" /\ line = <<>> /\ NoFaultOf(Faults) => servo.goal <= Nearly

(* Stopping the engine alone brings the robot down for good, through every   *)
(* fault but a clock set back; so does stopping the launch when all is well. *)
Stopped == \/ killed = {"engine"} /\ NoFaultOf({"clock"})
           \/ "engine" \in killed /\ NoFaultOf(Faults)

LiesDown == <>[]Stopped => <>[](servo.at <= Nearly)

-----------------------------------------------------------------------------
(* What a text says of a case the code does not provide for; the bound leaves *)
(* no doubt, where the properties above are as sharp as they can be.        *)

(* The same section of SPIDER_ROBOT_KINEMATICS.md: never "instantly           *)
(* commanded" to stand up, which "would violently jerk"; here not at six    *)
(* times the pace of the S-curve.                                           *)
NoJerk == [][~Rises(6 * MaxSpeed)]_vars
=============================================================================
