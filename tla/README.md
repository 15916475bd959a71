# A verification project for the two hexapods of this repository

The repository holds the ROS software of two walking robots and of the lidar
the second one carries:

* **Hopper** (`src/Hopper_ROS`), 18 Dynamixel servos, driven by the node
  `hopper_controller`: a thread that walks, stands, folds and dances, beside
  subscriber callbacks and blocking services that share its attributes;
* **SPIDER** (`src/phantomx_gazebo`, `src/hexapod`), 18 PWM servos behind an
  LSC-32 controller, driven by `spider_gait_engine.py` and
  `lsc32_hardware_bridge.py` over a 9600 baud line;
* the **lidar driver** (`src/sick_scan_xd`, vendored), of which
  `spider_real_robot_slam.launch:62` starts the multiScan path: threads that
  turn UDP messages into point clouds, and a SOPAS connection over TCP that
  starts and stops the device.

The modules here are written from that code. TLC checks them on small
instances; TLAPS proves the theorems for every value of the constants.
Paths below are relative to `src/`; `PROJECT.json` maps every definition to
its lines.

## 1. Inventory

### Hopper: `Hopper_ROS/hopper_controller/src`

| Part | State | Operations | What is hard | What makes it correct |
|---|---|---|---|---|
| `hexapod/hexapod_gait_engine.py`, `MovementController` | a dozen plain attributes (`stand_mode`, `keep_running`, `folding_operation`, `_relaxed`, ...), one `Event`, two `Queue`s | the main loop: stand up, sit down, fold, tick; a tick serves single leg mode, a queued motion, a leg switch, a step, a relaxation, a pose or the dances, in this order | every attribute is written by callback threads with no lock; multi-attribute updates tear; exceptions end the loop | never limp on its legs but after a fault; folds only lying down, with the lidar stopped; ends lying down when told to stop; no pose and no wakeup lost |
| `hexapod_controller.py` | none of its own | one subscriber callback per topic | callbacks of different topics run in parallel | their writes commute or are re-read |
| `ros_abstraction/leg_controller.py` | `motion_queue` of (event, pose) | blocking services: move, move until hit, move to relaxed, ... | callers block without timeout; the queue outlives sitting down | one at a time, in order, exactly once |
| `hexapod/hexapod_choreographer.py` | `cancelation_sentinel` | dances, cancellation | `empty()` then a blocking `get()` in several threads | the consumers do not all starve |
| `hexapod/folding_manager.py` | position last read or commanded | four scripts of phases, `check_if_folded` | legs move past each other; scripts start from any pose | no leg dragged over another; scripts end; the check agrees |
| gait sequencers, `hexapod_ik_driver.py` | last written position, cycle | trajectories, inverse kinematics | sequencers swapped under a step, speeds and divisions by zero | feet end where the stance puts them |
| `body_controller_node.py`, `dynamixel/` | serial driver under a lock | motor and torque commands, telemetry | reordering of torque and motion, errors at shutdown | torque is off in the end |
| publishers (`odometry_publisher.py`, ...) | last pose | publish at a rate | little | - |

The threads of `MovementController` interact only by the shared attributes, the
queues and the event; the body node is reached over topics.

### SPIDER: `phantomx_gazebo/scripts`, `hexapod/launch`

| Part | State | Operations | What is hard | What makes it correct |
|---|---|---|---|---|
| `spider_gait_engine.py`, walking | filtered velocity, time of the gait, last angles | `cmd_cb`, one iteration every 20 ms | rounded wave offsets and a time summed up in floats, the filter, a walk broken off | never two legs swing; enough feet stand; comes to rest |
| `spider_gait_engine.py`, life cycle | wall clock at start, `is_sitting` | 5 s flat, 2 s ramp, walking; `sit_down` in the shutdown hook | two threads write `current_angles`; the clock may be corrected | rises and sinks along the S-curve |
| `lsc32_hardware_bridge.py` | `last_write_time`, serial handle | constructor with its sleeps, callback with rate limit, `shutdown` | four of five messages dropped; respawned at any time; a slow line | the line never falls behind; the last goal is the right one |
| `spider_real_robot_slam.launch` | - | starts the nodes, respawns the bridge after 3 s | order of starting and stopping | - |
| `walker.py`, `walker_bridge.py`, `motor_safety_governor.py`, `spider_odometry.py`, `mapping_filter.py`, servo feedback, calibration | see the plan | | | |

The engine publishes joint states (queue of one); the bridge turns every fifth
into a packet; the servo controller interpolates. Nothing flows back.

### Lidar driver: `sick_scan_xd/driver/src`, `sick_scan_xd/include`

| Part | State | Operations | What is hard | What makes it correct |
|---|---|---|---|---|
| `sick_scansegment_xd/scansegment_threads.cpp` | a stack of objects: receivers, converter, publisher, exporter, SOPAS client | builds a session up, watches the traffic, takes it down in a fixed order, starts again | raw pointers shared between five threads; joins of threads that wait in a `Fifo` | nothing deleted under a running thread; every session and every shutdown ends |
| `udp_receiver.cpp`, `fifo.h`, `msgpack_converter.cpp`, `msgpack_exporter.cpp` | two bounded `Fifo`s with counters | receive, push, pop, convert, export | overflow drops the oldest; two receivers share a `Fifo`; `Pop` waits | each stream in order, nothing twice, nothing of an earlier session |
| `ros_msgpack_publisher.cpp` | the segments collected, a telegram counter | `HandleMsgPackData`: append, publish and begin again, discard | lost, repeated and overtaken telegrams; the counter is cast to `int` | a 360 degree cloud is one whole revolution, and no whole one is missed |
| `sick_scan_common*.cpp`, `tcp.cpp`, `SickThread.hpp`, `template_queue.h` | socket, read thread, queue of answers, `m_state`, `sopasSendMutex` | connect, send a request and pick its answer by keyword, disconnect, close | answers late, of another kind, or never; a link lost while it is being closed; a queue popped without timeout | everybody gets his own answer; nothing destroyed in use; closing ends |
| `sick_scan_services.cpp` | the services | callbacks that send requests in threads of their own | they share the connection with the session thread and outlive its calls | the same |
| parsers, transforms, the other lidar families, the C API, ROS emulation, XML | | see section 7 | | |

The receivers, converter and exporter form a pipeline; the main thread owns all
objects in it. Session thread and service callbacks meet at the one TCP
connection. The collector of clouds sees whatever the pipeline lets through.

The remaining packages (teleoperation, climbing demos, face, emotion, speech,
laser, navigation, telemetry, web pages), the other parts of `sick_scan_xd` and
the patch scripts are listed in `PROJECT.json` with the reason they are left out.

## 2. Modules

| Module | Models | Used by |
|---|---|---|
| `MotionService` | abstract: what a caller of the leg services may rely on | refined by `Movement` |
| `Movement` | main loop, callbacks, service threads, dances | `MovementProofs`, three runs |
| `Fold` | the folding scripts, cycle by cycle | `FoldProofs`, `MCFold` |
| `WaveGait` | walking phase of the SPIDER engine | `WaveGaitProofs`, `MCWaveGait` |
| `SpiderDrive` | SPIDER from launch to shutdown | `SpiderDriveProofs`, `MCDrive` |
| `LossyChannel` | abstract: what a subscriber of the lidar's topics may rely on | refined by `ScanPipeline` |
| `ScanPipeline` | threads, `Fifo`s and sessions of the lidar driver | `ScanPipelineProofs`, `ScanOrderProofs`, a run |
| `ScanFrames` | how segments become 360 degree clouds | `ScanFramesProofs`, a run |
| `SopasLink` | the SOPAS connection of a session | `SopasLinkProofs`, `MCSopas` |

`Movement` takes a whole folding script as one action; `Fold` opens that action
up. `SpiderDrive` takes walking as standing; `WaveGait` opens that up.
`ScanPipeline` takes connecting, activating and closing the SOPAS client as one
step each; `SopasLink` opens them up. `ScanFrames` assumes of its telegrams what
`LossyChannel` and the network leave of them. These openings are by
construction, not checked as refinements; the two that are checked, by TLC and
by proof, are `Movement` of `MotionService` and `ScanPipeline` of `LossyChannel`.

Definitions headed by the word *slip* are deliberate mistakes. No behaviour of
the models uses them: put in place of the definition that follows them, each
breaks a property, which shows that the property can fail.

### Movement

`pc` is the place of the main thread in `_main_controller_loop` and
`moving_mode_loop_tick`; each place is one read of the shared attributes or one
uninterruptible piece of work. The callbacks (`Stand`, `Halt`, `Fold`, `Move`,
`StoreTransformation`/`StoreRotation`/`FlagPose`, `SelectLeg`/`StoreMode`,
`Schedule`, `Cancel...`) are actions of their own, split where the code writes
several attributes one after another. `CallMotion`/`ReturnMotion` and
`CallRelax` ... `ReturnRelax` are the service threads: `UnsetRelaxed` and
`WaitRelaxed` are the assignment and the `wait()` between which the main thread
may set the event. `folding_operation` is read once for each of the four
comparisons. Exceptions end the loop at whatever place they are raised
(`pc = "failed"`): `ServiceFault` is that of a motor-position or lidar service,
`LegFault` that of the inverse kinematics (or the division by zero of a step with
`cycle_time` 0) in what moves legs one by one, `PostureFault` the same while the
whole body rises, lowers, poses or dances. The handler logs and lets the loop
end; the motors then carry the body where it is, and `EndsLyingDown` speaks only
of the loop that was told to stop.

Abstractions: the body is `folded`, `down` or `up`; of the feet the set of
tripods is kept that stand at their place in the plane (`in_place`); a pose is a
pair of offsets; a leg motion is atomic, because it reads no attribute another
thread writes once it has begun. The heights of single feet are left out: a
relaxation lifts the legs from where they are and does not put them back to the
stance. Gait switching and the trajectories are left out.

### Fold

A script is a sequence of phases, a phase a set of legs with goals, `Cycle` one
pass through the `while` loop of a phase with `move_leg` for every leg, the
gates of `unfold` (outer legs wait for their middle leg) included. `Lags` says
how far a motor may be from its goal when a script reads the positions,
`Places` where the legs are when the robot is displaced by walking or by hand,
`Abort` a script broken off by an exception. `Gathers` names the first phase of
`fold_on_ground`, which draws the coxas of all six legs in at once. The loop
starts that script whenever the robot is not folded, also after a FOLD that was
broken off with the middle legs half folded (`folding_manager.py:224`), so what
`NoScrape` says of a leg whose way is barred and `SwingsCarried` of the leg that
carries does not hold of it. Angles are integers of tenths of a degree.

### WaveGait

One action `Iterate` per pass of the loop (velocity filter, time of the gait,
target heights, half way to them), one for `cmd_cb`. Only the height of a foot
is kept; the sine is Bhaskara's rational approximation, exact to 0.2 per cent.
`linear.y` is left out: it is filtered and advances the time like `linear.x`.

`self.t` grows by 0.02 an iteration, in floating point, until it is reset. `t`
is its place in the cycle of 40 iterations, `lap` whether the first cycle since
the reset is over, and `drift` whether the sum is short of its place. Adding 0.02
in double precision for twenty hours shows errors below 0.035/6000 of a cycle,
either way, which matters in two places only: the swing of the left rear leg
ends at 0.49967 of the cycle and that of the right front leg begins at 0.5, and
the same between right rear and left front at 1. From 4.4 s of walking on, such
samples occur in which no leg swings. `drift` is 1/6000, and every iteration of
`Roundings` chooses it anew; the theorems hold for any set of them.

### SpiderDrive

Time advances in ticks of 20 ms, the period of the engine, when every thread
has done its work of the tick (`Quiet`). Within a tick the loop thread
(`LoopCheck`, `LoopAct`), the shutdown hook (`SitStart`, `SitStep`, `SitEnd`)
and the bridge (`Boot`, `CenterAll`, `Subscribe`, `joint_state_callback`,
`Shutdown`) interleave freely. A pose is one number, its level between flat and
stance. `line` is the sequence of packets in the serial driver; a packet
becomes the goal of the servos when its last byte has left. The servo moves
linearly to its goal in the time the packet gave. `killed` are the nodes told
to stop; a stopped node is not respawned. Faults: the bridge crashes, a write
raises, the port is not there when the constructor opens it, the wall clock is
corrected; `faults` records which have happened, so that a property can say
which of them it survives.

### ScanPipeline

`pc` is the place of the main thread in `runThreadCb`, one place per step that
another thread can tell from the next: binding, building, connecting,
activating, the two waits, and the nine steps of taking down. `th`, `run` and
`hand` are the background threads, their `m_run_...` flags and the message each
holds; `inq`, `outq`, `closed` and `pushed` are the `Fifo`s with their shutdown
flags and the push counter the waits read. `alive` is the set of objects that
exist: a destructor takes one out. `ThreadFails` is the exception that ends a
thread's loop, `RosShutdown` the signal, at any moment; `NullReceiver` the null
pointer met when the shutdown comes during the retries of the bind. Messages are
numbered as they arrive; `epoch` marks where the present session began.

Abstractions: a message is received whole or not at all (the assembly of a
message out of UDP fragments is left out, a fragment lost loses it); what fails
to parse is dropped; the age of the last push is the one bit `quiet`, which a
push resets. Left out is what writes files and measures times.

### ScanFrames

`HandleMsgPackData` in its three cases: `StartCollection` (publishing what is
complete), `AppendLidarPoints`, `Discard`. A telegram is its number since power
up; its segment is the number modulo `Segs`, and the `int` the code casts the
counter to is `Count`. `Deliverable` are the telegrams the network may deliver
next: ahead by up to `Gap`, or repeated and late by up to `Late`. `Restart` is a
new publisher and possibly a device switched off and on. Points and coordinates
are left out, and so are the clouds of single segments.

### SopasLink

Two clients, the session thread and the callbacks of the services, go through
`sendSopasAndCheckAnswer`: lock, write, look for an answer, sleep, pop, check,
retry. The read thread goes through its poll and callback; the queue holds
datagrams of kind answer, error (`sFA`) and event, searched by keyword. `conn`,
`sock` and `thread` are `m_state`, the socket and the thread, three variables
that the code changes at different places. `Session` opens the connection,
serves, and takes everything down (`Closing`), the shortcut of `close_device`
for a lost connection included. `LinkLoss` may happen at any moment.

Abstractions: a datagram is received whole; the device answers a request at most
once and in the order they came; that unregistering a service waits for its
running callback is a property of roscpp and marked external.

## 3. What the runs check

| Run | Instance | Shows |
|---|---|---|
| `posture` | all orders of stand, sit, walk, single leg, fold, halt; exceptions at any place | `LimpOnlyDown`, `EndsLyingDown`, `FoldsLyingDown`, `FoldStopsLidar`, `StandsUp` |
| `services` | two service threads, motions, exceptions, relaxing; standing and sitting | `TypeOK`, `NoLostRelax`, `MotionAccounted`, `FeetInPlaceWhenSet`, `ImplementsService`, `MotionServed`, `RelaxReturns` |
| `dance` | one publisher of dances and cancels, two offsets for poses, halt | `SomeConsumerRuns`, `PoseNotLost`, `HaltStops` |
| `fold` | 2.6 degrees a cycle, five places, two lags, one script broken off | `CheckAgrees`, `NoScrape`, `SwingsCarried`, `ScriptEnds` |
| `gait` | Twists "stop" and "fast, turning" at any iteration; samples short of their place | `TypeOK`, `NeverTwoOfASide`, `OneSwing`, `ComesToRest` |
| `gait_doc` | straight on | **violated**: `FiveOnTheGround`, a promise of the kinematics document |
| `drive` | durations of the code; engine or launch stopped at any tick | `TypeOK`, `SafelyOnGround`, `ControlledDescent` |
| `drive_faults` | durations a fifth; one fault of any kind at any tick | `UartKeepsUp`, `GentleRise`, `StandsUp`, `LiesDown` |
| `drive_late_port` | port missing twice | **violated**: `NoJerk`, what the kinematics document says of the start |
| `lidar_threads` | both streams, `Fifo`s of one, three messages, one thread that fails, shutdown and restarts at will | `NoUseAfterFree`, `ImplementsChannel`, `FreshSession`, `ShutdownEnds`, `SilenceRestarts` |
| `lidar_frames` | five segments; telegrams lost, repeated, overtaken; restarts; overflow of the counter | `OneRevolution`, `IntactPublished` |
| `sopas` | two requests a session, by either client, an unasked event, link lost at any moment | `OwnReply`, `NothingDestroyedInUse`, `SessionEnds` |

### Bounds, and why they are enough

* `Movement` has no counters: the queue of dances holds one, `motion_queue` one
  entry per caller. Two callers are the fewest that can take each other's event
  or wakeup; the theorems hold for any number. One publisher of dances is
  enough to take the dance the main thread waits for; that no number of them
  can block everybody is proved. `Commands` selects the inputs of an instance
  and changes nothing else; between the runs every input occurs.
* `Fold`: `Step` is twice the 1.3 degrees of the code (the safety theorems hold
  for every step); a break in every cycle of every script is covered, and one
  is enough to start a script from the middle of another. The places include
  lying, folded, half folded on one side, and broken off.
* `WaveGait`: velocities in per cent, all 40 iterations of a cycle, a stop or a
  start at each of them, so that a walk is broken off in every swing and begun
  again in the next iteration. The turn is two thirds of the fastest one and
  lifts the standing feet by 15 mm; the theorems hold up to the fastest. Samples
  fall short where a swing begins at 0 or a half of the cycle (`Edges`), the only
  places where it changes which leg swings. Heights are rounded to tenths of a
  millimetre. `Airborne` is a foot above 5 mm and what a turn can make of a
  standing foot with the lag of the filter, 0.2 mm per per cent of turn.
* `SpiderDrive`: `drive` has the real durations (250, 100, 100, 50, 50, 150
  ticks; a packet takes 4 of the 5 ticks between two writes) with the bridge
  starting at once or 0.86 s late (the constant `Skews`). `drive_faults` shrinks
  the durations to a fifth, which keeps their order, so that a fault and a stop
  may happen at any pair of ticks; `MaxFaults` is 1. `Horizon` stops the
  engine's clock one interval of the rate limit (`THROTTLE`) after the ramp,
  when the last packet of the ramp has gone out, whatever the durations are, and
  the time makes no difference any more; a correction that happens there leads
  to any time from the horizon minus the correction up to the horizon.
* `ScanPipeline`: `Fifo`s of one element overflow at the second message, and
  three messages of two streams give every order of push, drop and pop; the
  number of restarts is not bounded. One failing thread is enough to leave any
  one of the others waiting for it.
* `ScanFrames`: five segments, up to two telegrams missing in a row and one late
  (`Gap + Late < Segs`, as the real twelve segments admit); `MaxTelegram` gives
  six revolutions, and `Wrap` lets the counter become negative in the fourth.
* `SopasLink`: two requests are enough for the answer of one to meet the other,
  two commands share their keyword as those of `LFPlayerFilter` do; one retry
  stands for the hundred of the code. Sessions follow each other without bound.

### Fairness

`Movement`: weak fairness of the main thread and of every service and callback
thread that has begun its work: Python threads run, and none holds a lock. The
environment (commands, callers, faults) is never forced. `Fold`: the cycle of a
running script. `WaveGait`: the loop. `SpiderDrive`: the threads and time
together, `WF(Engine \/ Bridge \/ Tick)`; because time waits for the threads, this
gives every thread its turn in every tick. The 20 ms loop is assumed to keep
its rate. `ScanPipeline`: the main thread, each receiver once it has a message or
has been told to stop (its receive has a timeout), converter and exporter; and
`TimePasses`, the timeout of a wait in which nothing arrives: `SilenceRestarts`
is about a device that has fallen silent, as the bounded one here always does.
`SopasLink`: a client that has begun a request, the read thread and the session
thread; nothing is expected of the device.

## 4. What is proved

* **`MovementProofs`** for any sets of callers, publishers, poses, commands:
  - `TypeCorrect`;
  - `NeverLimpWhileUp` (the motors carry a body that is up, also when an
    exception has ended the loop), `LoopEndsLyingDown` (a loop that was told to
    stop, and only that), `FoldingStartsRight`,
    `LidarStillWhenFolding`. None is inductive: a place of the main thread says
    nothing of the body until it is tied to it. `PostureInv` is that tie: at the
    standing places the body is up, at the lying places it is not,
    `currently_standing` agrees with the body except while the loop ends, and a
    folding place has passed its test;
  - `RelaxPlacesFeet` (`FeetInPlaceWhenSet`), through `RelaxInv`: after the first
    of two relaxations the tripod just used is at its place in the plane. It says
    nothing of the heights, which `_step_to_position` does not restore;
  - `NoPoseLost`, through `PoseInv`, which adds the tick that has read one of
    the two attributes;
  - `NoDanceDeadlock`, `NoWakeupLost` and `MotionsAccounted` for any number
    of threads;
  - `ServiceImplemented`: `Movement` implements `MotionService`, with the motion
    being executed put in front of the queue and the events that are set read as
    the callers already served.
* **`FoldProofs`** for every step, tolerance, lag within the assumption, and
  start place: `FoldTypeCorrect`; `FoldChecked` (the check after a script agrees
  with it), by an invariant that keeps the coxa goals each completed phase has
  reached; `FoldClears` (no outer leg swings past a middle leg that bars its
  way, by invariants on what each phase has cleared) and `GroundCarried` (on the
  ground an outer leg swings only while its middle leg carries the side). Both
  leave the phase `Gathers` out by name; of it `FoldClears` says only that a leg
  whose way is clear stays clear (`GatherClears`). `CyclesAdvance`, what
  `ScriptEnds` rests on: a cycle ends its phase, or brings a motor closer to its
  goal and none away from it; a leg that waits at a gate of `unfold` waits for a
  leg that moves.
* **`WaveGaitProofs`**, whatever Twists arrive:
  - `GaitTypeCorrect` (the filters stay within the limits of `cmd_cb`, the feet
    between stance and height of a swing) and `GaitSwingsOne` (`OneSwing`: never
    two legs, and never none twice in a row, for any set of samples that fall
    short);
  - `SidesAlternate` (`NeverTwoOfASide`), for every set of Twists. Which feet are
    up depends on the past, so `StrideInv` bounds the height of a foot by the
    place of its leg in the cycle and by the filtered turn while the walk goes on
    (`OnCourse`), and follows the two feet that may be up when a walk is broken
    off through the first iterations of the next (`BrokenOff`). The turn enters
    because a standing foot follows it with the lag of the filter: it decays by a
    tenth of what is missing (`TurnDecays`), the height by half (`Stands`). "Never
    two of the same side" is false in the first three iterations after a reset
    (`lap = 0 /\ t <= 2`), and in no others;
  - `WalkSettles`: each iteration brings the filtered velocities closer to the
    last Twist and not past it, and once a stopped robot has come to rest, halves
    every height: what `ComesToRest` rests on.
* **`SpiderDriveProofs`**, for all durations, faults and stops:
  - `DriveTypeCorrect`: poses, packets and servos stay between flat and stance;
    it rests on the lemmas that the S-curve is monotone (`CurveGrows`) and that
    an integer step towards a goal does not pass it (`StepTowards`);
  - `LineNeverOverrun`, for `FRAME` no longer than the rate limit and the
    sleeps, and a clock never set forward (`NeverForward`). The bridge keeps no
    account of the line, so the bound of its length is not inductive; `LineInv`
    adds that the packet on the line leaves before the sleep, or the interval of
    the rate limit, ends;
  - `GroundReached`: without a fault the end of `sit_down` finds the robot down
    or on its way, for a descent of at least `1 + MaxFaults` intervals of the
    rate limit. The last packet says nothing by itself of what was dropped
    after it; `DescentInv` ties its goal to the curve: it is below every pose of
    the descent up to `since` ticks ago, and a message waits, or the interval of
    the rate limit has not passed, whenever the hook sleeps;
  - `RiseIsGentle` (`GentleRise`), for a clock never set forward and a bridge
    that is up before the flat pose ends (`s + STARTUP + CENTER <= HOLD` for
    every skew). A packet may skip the poses of many messages, so the bound of
    one step does not follow from the one before; `RiseInv` bounds the goal of
    the line from below by the pose the engine had at the bridge's last write,
    `elapsed - since`, which a clock set back leaves where it is;
  - `DescentIsControlled` (`ControlledDescent`), for a descent whose first
    `THROTTLE` ticks are no steeper than `THROTTLE - 1` ticks of the fastest pace
    (`StartsSlowly`; 7 against 64 with the numbers of the code). `SinkInv`
    compares the goal of the last packet with the curve, and the servos with the
    goal (`Ceiling`).
* **`ScanPipelineProofs`** for every length of the `Fifo`s, with or without IMU:
  `PipelineTypeCorrect` and `ThreadsUseLiveObjects`, by `StageInv`, which says
  for each place of the main thread which objects exist and which threads may
  still run; `JoinsAreShort`, by `JoinInv` (who is joined has been started, its
  flag is down and the `Fifo` it may wait at is shut down): every step of a thread
  that is joined brings it closer to its end (`JoinedSteps`: none leaves it where
  it is), which is what `ShutdownEnds` and `SilenceRestarts` rest on.
* **`ScanOrderProofs`** for any number of messages, faults and restarts:
  `PipelineImplementsChannel` (`ScanPipeline` implements `LossyChannel`) and
  `SessionsAreFresh`, by `FlowInv`: of each stream, what is nearer to the
  subscriber is older, and nothing in the pipeline is older than the session.
* **`ScanFramesProofs`** for every number of segments, gap and delay with
  `Gap + Late < Segs`, and every place of the overflow: `FramesTypeCorrect`;
  `CloudsAreRevolutions`, by `FrameInv` (the collection is an ascending run
  within one revolution whose last telegram is recent); and
  `WholeRevolutionsPublished`, by `IntactInv` (what an unbroken streak has
  collected so far is all of it).
* **`SopasLinkProofs`** for any commands, requests, events and retries:
  `SopasTypeCorrect`; `NothingDestroyedUnderUse`, by `Shape` and `Teardown`, which
  say for each step of closing what exists and where the read thread may be;
  `RepliesAreOwn`, by `Turns` and `Flow`: every answer on its way, from the device
  to the frame a client has popped, is to a request that holds the mutex or has
  ended without an answer of its own; and what `SessionEnds` rests on:
  `PopNeverWaits` (`pop` has no timeout, and always finds the datagram that
  `waitForIncomingObject` has seen) and `JoinIsShort` (the socket is gone before
  the read thread is joined, and each of its steps is then one of at most five,
  also when it starts late and sets its flag again).

The assumptions are those named in the modules, which TLC evaluates in the
runs: `MovementAssumption`, `FoldAssumption`, `GaitAssumption`,
`DriveAssumption`, `LineAssumption`; `StreamsAssumption`, `LengthAssumption`,
`ModeAssumption`, `BoundsAssumption`; `SegsAssumption`, `NetworkAssumption`,
`WrapAssumption`, `BoundAssumption`; `CommandsAssumption`.

Every invariant, action property and refinement of the passing runs is stated by
a theorem. Some need hypotheses beyond those assumptions, each named and stated
where the theorem is: `NeverForward`, `FRAME` within the intervals
(`LineNeverOverrun`), the length of the descent (`GroundReached`), the start of the
bridge (`RiseIsGentle`), `StartsSlowly`. The durations of the code satisfy those
about durations; `NeverForward` is about the wall clock.
The runs check instances that satisfy them.

Only model-checked: liveness (`StandsUp`, `MotionServed`, `RelaxReturns`,
`HaltStops`, `ScriptEnds`, `ComesToRest`, `LiesDown`, `ShutdownEnds`,
`SilenceRestarts`, `SessionEnds`), which needs fairness and `ENABLED` and is
beyond TLAPS. Its safety part is proved where a measure decreases or a wait
cannot begin (`NoDanceDeadlock`, `NoWakeupLost`, `CyclesAdvance`, `WalkSettles`,
`JoinsAreShort`, `PopNeverWaits`, `JoinIsShort`); that the scheduler then takes
the steps is left to the runs.

## 5. What the code does and nobody promised otherwise

The models show these, and but for the clock set forward (below) no document
contradicts them, so no run is devoted to them. They are hazards with a note in
`PROJECT.json`.

* A fold command that arrives while the legs fold is erased at the end.
* A cancel while no dance runs interrupts the next dance.
* A cancel callback may take the dance the main thread has seen: it then waits
  in `get()` until the next dance, and a halt is not heeded (`HaltStops` names
  the case).
* A queued leg motion survives sitting down and is executed much later.
* An exception while the robot stands or walks (a target out of reach of the
  inverse kinematics, a motor service, a move command with `cycle_time` 0) ends
  the loop on raised legs, which the motors go on carrying.
* `relax` does not undo what a leg motion did to the height of a foot: the
  relaxation steps each foot to its place in the plane and lowers it towards the
  height it started from, not towards that of the stance. Moves of the whole
  body (a pose, a change of legs, a dance, standing up) put the heights right.
* The FOLD after one that was broken off draws all coxas in at once, past middle
  legs that are half folded (`Gathers`).
* A sample of the wave gait in which no leg swings (see `WaveGait` above).
* The SPIDER walks on for ever when its last Twist is not a stop.
* When the whole launch is stopped, the bridge centres the servos within one
  second, whatever `sit_down` publishes during its two.
* The wall clock set *forward* by more than the start phases makes the engine
  skip its five seconds and its ramp, against lines 19 and 20 of
  `SPIDER_ROBOT_KINEMATICS.md`, the same two sentences that `drive_late_port`
  shows violated without any fault of the clock; and it lets the bridge write
  before the line is free, hence the assumption `NeverForward`. Set *back* by as
  long as the descent takes, it mutes the bridge until `sit_down` has ended, and
  the robot is left standing.
* Pushes of the IMU receiver keep the watchdog of the lidar driver content while
  the scan receiver, the converter or the exporter is dead.
* A shutdown during the retries of the UDP bind ends in `udp_receiver->Fifo()`
  on a null pointer (`NullReceiver`).
* A fragment of a UDP message that is lost takes the next message with it.
* `isConnected()` stays true when the read thread has lost the connection,
  although the comment at `sick_scan_common_nw.cpp:166` speaks of the state of
  the connection; the requests that follow run into their timeouts.
* A late answer, or any `sFA`, is taken by the next request with that keyword:
  the exception in `OwnReply`.
* After 2^31 telegrams the counter is negative, and no 360 degree cloud is
  published until it is positive again (the bound in `IntactPublished`).
* With all options that need SOPAS switched off, `sopas_tcp` is null where the
  session thread uses it.

## 6. Plan

Done, in this order: `MotionService`, `Movement` and its proofs; `Fold` and
its proofs; `WaveGait`; `SpiderDrive`; then the lidar driver: `LossyChannel`,
`ScanPipeline` and `ScanFrames` with their proofs, `SopasLink` with its proofs; the
types of `WaveGait` and the types and the descent of `SpiderDrive`; last the
remaining safety properties of the gait and the drive, and the steps that the
liveness of `Fold`, `WaveGait`, `ScanPipeline` and `SopasLink` rests on.

Next:

1. `LegService`: snapshots and targets of the leg services, the until-hit
   loops (short-circuit of `still_moving`), feet sensors; composes with
   `MotionService`; lost updates between two callers.
2. `MotorPath`: driver lock, latched torque, reordering of torque and motion,
   telemetry, shutdown with an error; abstract specification: limp in the end.
3. `Sequencer`: gait switching under a step, height adjustment, the single leg
   left lifted.
4. `Walker`: life cycle of `walker_bridge.py`; hold-off of `mapping_filter.py`;
   the governor as operators; battery warnings.
5. rospy's shutdown during the loop of `Movement`.
6. Lidar driver: the assembly of UDP fragments into messages; the refinement of
   `ScanPipeline`'s SOPAS steps by `SopasLink`.
7. Proofs: the steps that `StandsUp` and `LiesDown` of `SpiderDrive` and
   `MotionServed` of `Movement` rest on, as measures that decrease.

## 7. Not modelled, and why

Geometry (inverse kinematics, odometry, lidar projection) is real arithmetic
without control; drivers, vision, speech and web nodes do not take part in
moving the robots; the bytes of the packets matter to no property here. A
serial handle that stays dead after its adapter was pulled shows only that
nothing moves any more. Gait switching, `linear.y`, the GUI slider mode of the
launch file and the contents of the dances are left out of the modules named
above. The motions Hopper's services execute are opaque: what pose they lead
to is the subject of the first item of the plan.

`sick_scan_xd` is nearly all of the repository's C and C++ (some 179,000 lines
with the drivers of the other robot). The launch files start its multiScan path
only, and of that the modules above hold what has control: threads, `Fifo`s,
sessions, the collector, the SOPAS requests. What is left cannot be modelled to
any purpose here, and most of it never runs on these robots: the drivers of the
other lidar families (radar, LD-MRS, NAV, LMS and TiM), selected by a scanner
type the launch files do not set; the emulated ROS headers for systems without
ROS; the C API and its test programs; the vendored tinyxml; generated message
headers and tables of initial commands; and the parsers and transforms, which
turn bytes into coordinates without keeping state. `Fold`, `Movement`, `WaveGait`
and `SpiderDrive` are models of Python. The share of C and C++ lines that the
map names is therefore small, and stays so: about two thousand, in nineteen
files.
