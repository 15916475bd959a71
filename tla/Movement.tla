------------------------------ MODULE Movement ------------------------------
(***************************************************************************)
(* hopper_controller: the main loop of MovementController, with everything *)
(* that runs beside it in the same process -- the subscriber callbacks of  *)
(* HexapodController, the service threads of LegController and of          *)
(* step_to_relaxed, and the cancellation of choreographies.  The threads   *)
(* share plain attributes, two Queues and some Events; there is no lock.   *)
(*                                                                         *)
(* Reading the model.  pc is the place of the main thread.  A leg motion   *)
(* lasts seconds and is one action: once it has begun it reads no          *)
(* attribute another thread writes, and callbacks run before or after it.  *)
(* moving_mode_loop_tick reads its flags one after the other; callbacks    *)
(* write one flag per step and those of different topics commute, so a     *)
(* decision spread over the reads is that of one look at all the flags.    *)
(***************************************************************************)
EXTENDS Naturals, Sequences, FiniteSets

CONSTANTS Clients,    \* service threads, each serving one caller
          Dancers,    \* threads delivering hopper_schedule_move, one per publisher
          Offsets,    \* values a translation or a rotation of the body may take
          Neutral,    \* the one of RELAXED_POSITION
          Nobody,     \* no client
          Commands    \* kinds of input the environment sends in this instance

CommandKinds == {"stand", "halt", "fold", "move", "pose", "single", "dance",
                 "cancel", "motion", "relax", "fault"}

ASSUME MovementAssumption == /\ Neutral \in Offsets
                             /\ Nobody \notin Clients
                             /\ Commands \subseteq CommandKinds

VARIABLES
  pc,                  \* main thread
  keep_running, stand_mode, folding_operation,
  currently_standing,
  body,                \* the robot: "folded", "down" on its belly, "up" on its legs
  torque,              \* motors powered
  lidar,               \* lidar motor spinning
  moving,              \* _velocity or _theta is not zero
  relaxed,             \* _relaxed
  relaxed_event,       \* flag of relaxed_finished_event
  combo,               \* _last_used_lifted_legs
  in_place,            \* tripods whose feet are over their places in the relaxed stance
                       \* (x and y; heights are not modelled)
  pose_ready, wanted_pose, pose_cb,   \* _relaxed_transformation and _relaxed_rotation
  body_pose,           \* the pose built into current_relaxed_position
  single_leg_mode_on, selected_leg_switched, single_cb,
  motion_queue, event, executing,
  client,              \* place of every service thread
  command_queue, sentinel, dancer, dance

postureVars == <<currently_standing, body, torque, lidar>>
gaitVars    == <<combo, in_place, body_pose>>
flagVars    == <<keep_running, stand_mode, moving>>
poseVars    == <<pose_ready, wanted_pose, pose_cb>>
singleVars  == <<single_leg_mode_on, selected_leg_switched, single_cb>>
relaxVars   == <<relaxed, relaxed_event>>
motionVars  == <<motion_queue, event, executing>>
danceVars   == <<command_queue, sentinel, dance>>
sharedVars  == <<flagVars, folding_operation, poseVars, singleVars, relaxVars,
                 motionVars, client, danceVars, dancer>>
vars == <<pc, postureVars, gaitVars, sharedVars>>

-----------------------------------------------------------------------------
(* The two tripods, lifted in turn. *)

Tripods == {"LEFT_TRIPOD", "RIGHT_TRIPOD"}

(* slips: the combination is never switched; it is no tripod *)
SameCombo(t) == t
MiddleCombo(t) == "MIDDLE"

NextCombo(t) == IF t = "LEFT_TRIPOD" THEN "RIGHT_TRIPOD" ELSE "LEFT_TRIPOD"

(* Body poses: RELAXED_POSITION moved and rotated. *)
Poses == [transformation : Offsets, rotation : Offsets]
Level == [transformation |-> Neutral, rotation |-> Neutral]

(* FoldCommand, in the order in which the loop compares it. *)
FoldOps  == {"FOLD", "UNFOLD", "FOLD_GROUNDED", "UNFOLD_GROUNDED"}
Folding  == {"FOLD", "FOLD_GROUNDED"}
FoldTest == [if_fold |-> "FOLD", if_unfold |-> "UNFOLD",
             if_fold_grounded |-> "FOLD_GROUNDED",
             if_unfold_grounded |-> "UNFOLD_GROUNDED"]
NextTest == [if_fold |-> "if_unfold", if_unfold |-> "if_fold_grounded",
             if_fold_grounded |-> "if_unfold_grounded",
             if_unfold_grounded |-> "fold_done"]

Dances == {"plain", "resetting", "unknown"}

check_if_folded == body = "folded"

MainPlaces == {"top", "rise", "unfold", "stand_up", "sit_down", "tick", "grounded",
               "single", "lift", "motion", "switch", "step", "relax1", "relax2", "set_event",
               "pose", "pose_rotation", "dance_check", "dance_get", "dance", "dance_end", "fold_done",
               "exit", "stop", "stopped", "failed"} \cup FoldOps \cup DOMAIN FoldTest

Init ==
  /\ pc = "top" /\ keep_running = TRUE
  /\ stand_mode \in BOOLEAN          \* parameter stand_up_at_startup
  /\ currently_standing = FALSE /\ folding_operation = "None"
  /\ body \in {"folded", "down"} /\ torque = FALSE /\ lidar \in BOOLEAN
  /\ moving = FALSE /\ relaxed = TRUE /\ relaxed_event = FALSE
  /\ combo = "LEFT_TRIPOD" /\ in_place = {}
  /\ pose_ready = FALSE /\ wanted_pose = Level /\ pose_cb = "idle"
  /\ body_pose = Level
  /\ single_leg_mode_on = FALSE /\ selected_leg_switched = FALSE /\ single_cb = "idle"
  /\ motion_queue = <<>> /\ event = [c \in Clients |-> FALSE] /\ executing = Nobody
  /\ client = [c \in Clients |-> "idle"]
  /\ command_queue = <<>> /\ sentinel = FALSE /\ dance = "unknown"
  /\ dancer = [d \in Dancers |-> "idle"]

-----------------------------------------------------------------------------
(* The loop: posture first, then a tick or a folding operation. *)

(* slip: a halt is heeded only when the robot lies down *)
HaltSeenDown == ~keep_running /\ ~currently_standing

HaltSeen == ~keep_running

Top ==
  /\ pc = "top"
  /\ \/ HaltSeen /\ pc' = "exit"
     \/ ~HaltSeen /\ stand_mode /\ ~currently_standing /\ pc' = "rise"
     \/ ~HaltSeen /\ ~stand_mode /\ currently_standing /\ pc' = "sit_down"
     \/ ~HaltSeen /\ stand_mode /\ currently_standing /\ pc' = "tick"
     \/ ~HaltSeen /\ ~stand_mode /\ ~currently_standing /\ pc' = "grounded"
  /\ UNCHANGED <<postureVars, gaitVars, sharedVars>>

Rise ==
  /\ pc = "rise"
  /\ pc' = IF check_if_folded THEN "unfold" ELSE "stand_up"
  /\ UNCHANGED <<postureVars, gaitVars, sharedVars>>

Unfold ==
  /\ pc = "unfold"
  /\ pc' = "stand_up"
  /\ body' = "down" /\ torque' = FALSE      \* unfold() ends with set_torque(False)
  /\ UNCHANGED <<currently_standing, lidar, gaitVars, sharedVars>>

(* slip: currently_standing is not set *)
StandUpUnnoticed ==
  /\ pc = "stand_up"
  /\ pc' = "tick"
  /\ body' = "up" /\ torque' = TRUE /\ in_place' = Tripods
  /\ UNCHANGED <<currently_standing, lidar, combo, body_pose, sharedVars>>

(* GaitEngine.stand_up: both tripods are brought to the relaxed stance. *)
StandUp ==
  /\ pc = "stand_up"
  /\ pc' = "tick"
  /\ currently_standing' = TRUE /\ body' = "up" /\ torque' = TRUE
  /\ in_place' = {NextCombo(combo), NextCombo(NextCombo(combo))}
  /\ combo' = NextCombo(NextCombo(combo))
  /\ UNCHANGED <<lidar, body_pose, sharedVars>>

(* slip: the motors are disabled in place of the descent *)
LimpWhileUp ==
  /\ body' = body /\ torque' = FALSE
  /\ body_pose' = Level /\ in_place' = {}
  /\ combo' = NextCombo(NextCombo(combo))

(* GaitEngine.sit_down resets the body pose and switches the motors off. *)
LowerBody ==
  /\ body' = "down" /\ torque' = FALSE
  /\ body_pose' = Level /\ in_place' = {}
  /\ combo' = NextCombo(NextCombo(combo))

SitDown ==
  /\ pc = "sit_down"
  /\ pc' = "grounded"
  /\ LowerBody
  /\ currently_standing' = FALSE
  /\ UNCHANGED <<lidar, sharedVars>>

(* slip: the robot is taken to sit already *)
NeverSits == FALSE

MustSitDown == currently_standing

(* After the loop: sit down if standing, then switch the motors off. *)
Exit ==
  /\ pc = "exit"
  /\ pc' = "stop"
  /\ IF MustSitDown THEN LowerBody ELSE UNCHANGED <<body, torque, gaitVars>>
  /\ UNCHANGED <<currently_standing, lidar, sharedVars>>

Stop ==
  /\ pc = "stop"
  /\ pc' = "stopped"
  /\ torque' = FALSE
  /\ UNCHANGED <<currently_standing, body, lidar, gaitVars, sharedVars>>

(* folding_operation is read again for every comparison. *)
Grounded ==
  /\ pc = "grounded"
  /\ pc' = IF folding_operation # "None" THEN "if_fold" ELSE "top"
  /\ UNCHANGED <<postureVars, gaitVars, sharedVars>>

(* slips: no test whether the robot is folded already; the lidar left alone *)
Ordered(op) == folding_operation = op
LidarAsItIs(op) == lidar

Applies(op) == folding_operation = op /\ (check_if_folded <=> op \notin Folding)

LidarDuring(op) == op \notin Folding

CompareFold(t) ==
  /\ pc = t
  /\ IF Applies(FoldTest[t])
     THEN pc' = FoldTest[t] /\ lidar' = LidarDuring(FoldTest[t])
     ELSE pc' = NextTest[t] /\ UNCHANGED lidar
  /\ UNCHANGED <<currently_standing, body, torque, gaitVars, sharedVars>>

FoldOrUnfold(op) ==
  /\ pc = op
  /\ pc' = "fold_done"
  /\ body' = IF op \in Folding THEN "folded" ELSE "down"
  /\ torque' = FALSE
  /\ UNCHANGED <<currently_standing, lidar, gaitVars, sharedVars>>

FoldDone ==
  /\ pc = "fold_done"
  /\ pc' = "top"
  /\ folding_operation' = "None"
  /\ UNCHANGED <<postureVars, gaitVars, flagVars, poseVars, singleVars, relaxVars,
                 motionVars, client, danceVars, dancer>>

(* spin() catches every exception of the loop, logs it and gives up: the    *)
(* robot stays as it is.  What only the loop would read is left as it was.  *)

(* The lidar service, or a motor of the folding manager, does not answer, or *)
(* the motors cannot be switched off at the end.                            *)
ServiceFault ==
  /\ "fault" \in Commands
  /\ \/ pc \in {"rise", "unfold", "stand_up", "stop"} \cup FoldOps
     \/ pc \in DOMAIN FoldTest /\ folding_operation = FoldTest[pc]
  /\ pc' = "failed"
  /\ UNCHANGED <<postureVars, gaitVars, sharedVars>>

(* A leg motion breaks off: inverse kinematics finds a target out of reach,  *)
(* a motor does not answer, or cycle_time is 0 and a step divides by it.    *)
LegMotions == {"single", "motion", "switch", "step", "relax1", "relax2",
               "pose_rotation", "dance", "dance_end"}

LegFault ==
  /\ "fault" \in Commands
  /\ pc \in LegMotions \/ (pc = "lift" /\ single_leg_mode_on)
  /\ pc' = "failed"
  /\ UNCHANGED <<postureVars, gaitVars, sharedVars>>

(* stand_up and sit_down break off with the body anywhere between the ground *)
(* and its height, on powered motors.                                       *)
PostureFault ==
  /\ "fault" \in Commands
  /\ pc \in {"stand_up", "sit_down"} \/ (pc = "exit" /\ MustSitDown)
  /\ pc' = "failed"
  /\ body' \in {"down", "up"} /\ torque' = TRUE
  /\ UNCHANGED <<currently_standing, lidar, gaitVars, sharedVars>>

-----------------------------------------------------------------------------
(* moving_mode_loop_tick: the first thing that asks for attention wins. *)

TickUnchanged ==
  UNCHANGED <<postureVars, gaitVars, flagVars, folding_operation, poseVars,
              relaxVars, motionVars, client, danceVars, dancer>>

TickSingle ==
  /\ pc = "tick" /\ single_leg_mode_on
  /\ pc' = "single"
  /\ UNCHANGED singleVars /\ TickUnchanged

(* slip: one motion is taken and the rest of the queue thrown away *)
NoneLeft(queue) == <<>>

MotionsLeft(queue) == Tail(queue)

TickMotion ==
  /\ pc = "tick" /\ ~single_leg_mode_on
  /\ motion_queue # <<>>
  /\ pc' = "motion"
  /\ executing' = Head(motion_queue)
  /\ motion_queue' = MotionsLeft(motion_queue)
  /\ UNCHANGED <<event, postureVars, gaitVars, flagVars, folding_operation, poseVars,
                 singleVars, relaxVars, client, danceVars, dancer>>

TickSwitch ==
  /\ pc = "tick" /\ ~single_leg_mode_on /\ motion_queue = <<>>
  /\ selected_leg_switched
  /\ pc' = "switch"
  /\ selected_leg_switched' = FALSE
  /\ UNCHANGED <<single_leg_mode_on, single_cb>> /\ TickUnchanged

NothingUrgent == ~single_leg_mode_on /\ motion_queue = <<>> /\ ~selected_leg_switched

TickStep ==
  /\ pc = "tick" /\ NothingUrgent /\ moving
  /\ pc' = "step"
  /\ UNCHANGED singleVars /\ TickUnchanged

TickRelax ==
  /\ pc = "tick" /\ NothingUrgent /\ ~moving
  /\ ~relaxed
  /\ pc' = "relax1"
  /\ UNCHANGED singleVars /\ TickUnchanged

TickPose ==
  /\ pc = "tick" /\ NothingUrgent /\ ~moving /\ relaxed
  /\ pose_ready
  /\ pc' = "pose"
  /\ pose_ready' = FALSE
  /\ UNCHANGED <<wanted_pose, pose_cb, postureVars, gaitVars, flagVars,
                 folding_operation, singleVars, relaxVars, motionVars, client,
                 danceVars, dancer>>

TickIdle ==
  /\ pc = "tick" /\ NothingUrgent /\ ~moving /\ relaxed /\ ~pose_ready
  /\ pc' = "dance_check"
  /\ UNCHANGED singleVars /\ TickUnchanged

(* handle_single_leg_mode: back to the stance if the leg was switched, then *)
(* lift the selected leg if the mode is still on.                          *)
SingleSettle ==
  /\ pc = "single"
  /\ pc' = "lift"
  /\ selected_leg_switched' = FALSE
  /\ in_place' = IF selected_leg_switched THEN Tripods ELSE in_place
  /\ UNCHANGED <<single_leg_mode_on, single_cb, postureVars, combo, body_pose, flagVars,
                 folding_operation, poseVars, relaxVars, motionVars, client,
                 danceVars, dancer>>

SingleLift ==
  /\ pc = "lift"
  /\ pc' = "top"
  /\ in_place' = IF single_leg_mode_on THEN {} ELSE in_place
  /\ UNCHANGED <<combo, body_pose, postureVars, sharedVars>>

(* slip: the event of the executed motion is not set *)
NoSignal(c) == event

Signal(c) == [event EXCEPT ![c] = TRUE]

(* LegController.execute_motion, from the move to event.set(). *)
ExecuteMotion ==
  /\ pc = "motion"
  /\ pc' = "top"
  /\ \E t \in SUBSET Tripods : in_place' = t
  /\ event' = Signal(executing)
  /\ executing' = Nobody
  /\ UNCHANGED <<motion_queue, combo, body_pose, postureVars, flagVars,
                 folding_operation, poseVars, singleVars, relaxVars, client,
                 danceVars, dancer>>

SwitchLeg ==
  /\ pc = "switch"
  /\ pc' = "top"
  /\ in_place' = Tripods
  /\ UNCHANGED <<combo, body_pose, postureVars, sharedVars>>

Step ==
  /\ pc = "step"
  /\ pc' = "top"
  /\ combo' = NextCombo(combo) /\ in_place' = {}
  /\ relaxed' = FALSE
  /\ UNCHANGED <<relaxed_event, body_pose, postureVars, flagVars, folding_operation,
                 poseVars, singleVars, motionVars, client, danceVars, dancer>>

(* relax_next_leg twice, unless the robot is told to move in between.  The   *)
(* tripod is lifted over to its places in the stance; the height of the      *)
(* stance is not restored: a lifted foot comes down at the height it         *)
(* started from, or where it meets the ground.                               *)
RelaxLeg == /\ combo' = NextCombo(combo)
            /\ in_place' = in_place \cup {NextCombo(combo)}

RelaxFirst ==
  /\ pc = "relax1"
  /\ RelaxLeg
  /\ pc' = IF moving THEN "top" ELSE "relax2"
  /\ UNCHANGED <<body_pose, postureVars, sharedVars>>

RelaxSecond ==
  /\ pc = "relax2"
  /\ RelaxLeg
  /\ relaxed' = TRUE
  /\ pc' = "set_event"
  /\ UNCHANGED <<relaxed_event, body_pose, postureVars, flagVars, folding_operation,
                 poseVars, singleVars, motionVars, client, danceVars, dancer>>

(* slip: the flag is raised, the sleepers are not notified *)
StillAsleep == client

(* Event.set wakes every thread blocked in wait(), whatever the flag becomes. *)
Awake == [c \in Clients |-> IF client[c] = "blocked" THEN "woken" ELSE client[c]]

SetEvent ==
  /\ pc = "set_event"
  /\ pc' = "top"
  /\ relaxed_event' = TRUE
  /\ client' = Awake
  /\ UNCHANGED <<relaxed, postureVars, gaitVars, flagVars, folding_operation, poseVars,
                 singleVars, motionVars, danceVars, dancer>>

(* update_relaxed_body_pose(_relaxed_transformation, _relaxed_rotation): the *)
(* two attributes are read one after the other, then the body moves.         *)
ReadTransformation ==
  /\ pc = "pose"
  /\ pc' = "pose_rotation"
  /\ body_pose' = [body_pose EXCEPT !.transformation = wanted_pose.transformation]
  /\ UNCHANGED <<combo, in_place, postureVars, sharedVars>>

(* slip: the flag is lowered after the pose was read *)
ApplyPoseThenLower ==
  /\ pc = "pose_rotation"
  /\ pc' = "top"
  /\ body_pose' = [body_pose EXCEPT !.rotation = wanted_pose.rotation]
  /\ in_place' = Tripods
  /\ pose_ready' = FALSE
  /\ UNCHANGED <<combo, wanted_pose, pose_cb, postureVars, flagVars, folding_operation,
                 singleVars, relaxVars, motionVars, client, danceVars, dancer>>

ApplyPose ==
  /\ pc = "pose_rotation"
  /\ pc' = "top"
  /\ body_pose' = [body_pose EXCEPT !.rotation = wanted_pose.rotation]
  /\ in_place' = Tripods
  /\ UNCHANGED <<combo, postureVars, sharedVars>>

-----------------------------------------------------------------------------
(* _check_and_execute_scheduled_move and Choreographer.execute_choreography *)

(* slip: get() without asking whether there is something to get *)
TakenForGranted == TRUE

DanceWaits == command_queue # <<>>

DanceCheck ==
  /\ pc = "dance_check"
  /\ pc' = IF DanceWaits THEN "dance_get" ELSE "top"
  /\ UNCHANGED <<postureVars, gaitVars, sharedVars>>

(* Queue.get blocks on an empty queue. *)
DanceGet ==
  /\ pc = "dance_get"
  /\ command_queue # <<>>
  /\ dance' = Head(command_queue)
  /\ command_queue' = Tail(command_queue)
  /\ pc' = IF Head(command_queue) = "unknown" THEN "dance_check" ELSE "dance"
  /\ UNCHANGED <<sentinel, postureVars, gaitVars, flagVars, folding_operation, poseVars,
                 singleVars, relaxVars, motionVars, client, dancer>>

ResetsPose == IF dance = "resetting" THEN Level ELSE body_pose

(* check_cancel, which every dance calls before its closing moves; an        *)
(* interrupted dance returns to the stance it started from, which is no      *)
(* longer the relaxed one if the dance reset the body pose.                  *)
DanceCancelled ==
  /\ pc = "dance" /\ sentinel
  /\ sentinel' = FALSE
  /\ pc' = "dance_check"
  /\ body_pose' = ResetsPose
  /\ in_place' = IF ResetsPose = body_pose THEN Tripods ELSE {}
  /\ UNCHANGED <<combo, command_queue, dance, postureVars, flagVars, folding_operation,
                 poseVars, singleVars, relaxVars, motionVars, client, dancer>>

DanceChecksPassed ==
  /\ pc = "dance" /\ ~sentinel
  /\ pc' = "dance_end"
  /\ body_pose' = ResetsPose /\ in_place' = {}
  /\ UNCHANGED <<combo, postureVars, sharedVars>>

DanceEnd ==
  /\ pc = "dance_end"
  /\ pc' = "dance_check"
  /\ in_place' = Tripods
  /\ UNCHANGED <<combo, body_pose, postureVars, sharedVars>>

-----------------------------------------------------------------------------
(* The subscriber callbacks of HexapodController. *)

OthersRun == UNCHANGED <<pc, postureVars, gaitVars>>

Stand ==
  /\ "stand" \in Commands
  /\ stand_mode' \in BOOLEAN
  /\ UNCHANGED <<keep_running, moving, folding_operation, poseVars, singleVars,
                 relaxVars, motionVars, client, danceVars, dancer>> /\ OthersRun

Halt ==
  /\ "halt" \in Commands
  /\ keep_running' = FALSE
  /\ UNCHANGED <<stand_mode, moving, folding_operation, poseVars, singleVars,
                 relaxVars, motionVars, client, danceVars, dancer>> /\ OthersRun

Fold ==
  /\ "fold" \in Commands
  /\ folding_operation' \in FoldOps
  /\ UNCHANGED <<flagVars, poseVars, singleVars, relaxVars, motionVars, client,
                 danceVars, dancer>> /\ OthersRun

Move ==
  /\ "move" \in Commands
  /\ moving' \in BOOLEAN
  /\ UNCHANGED <<keep_running, stand_mode, folding_operation, poseVars, singleVars,
                 relaxVars, motionVars, client, danceVars, dancer>> /\ OthersRun

(* set_relaxed_pose stores the pose in two attributes, then raises the flag. *)
StoreTransformation ==
  /\ "pose" \in Commands /\ pose_cb = "idle"
  /\ \E offset \in Offsets :
       wanted_pose' = [wanted_pose EXCEPT !.transformation = offset]
  /\ pose_cb' = "rotation"
  /\ UNCHANGED <<pose_ready, flagVars, folding_operation, singleVars, relaxVars,
                 motionVars, client, danceVars, dancer>> /\ OthersRun

StoreRotation ==
  /\ pose_cb = "rotation"
  /\ \E offset \in Offsets : wanted_pose' = [wanted_pose EXCEPT !.rotation = offset]
  /\ pose_cb' = "flag"
  /\ UNCHANGED <<pose_ready, flagVars, folding_operation, singleVars, relaxVars,
                 motionVars, client, danceVars, dancer>> /\ OthersRun

FlagPose ==
  /\ pose_cb = "flag"
  /\ pose_ready' = TRUE
  /\ pose_cb' = "idle"
  /\ UNCHANGED <<wanted_pose, flagVars, folding_operation, singleVars, relaxVars,
                 motionVars, client, danceVars, dancer>> /\ OthersRun

(* update_single_leg_command raises selected_leg_switched when another leg  *)
(* is selected or the mode is left, and stores the mode last.              *)
SelectLeg ==
  /\ "single" \in Commands /\ single_cb = "idle"
  /\ \E on \in BOOLEAN, other_leg \in BOOLEAN :
       /\ single_cb' = IF on THEN "on" ELSE "off"
       /\ selected_leg_switched' = (\/ selected_leg_switched
                                    \/ other_leg
                                    \/ single_leg_mode_on /\ ~on)
  /\ UNCHANGED <<single_leg_mode_on, flagVars, folding_operation, poseVars, relaxVars,
                 motionVars, client, danceVars, dancer>> /\ OthersRun

StoreMode ==
  /\ single_cb # "idle"
  /\ single_leg_mode_on' = (single_cb = "on")
  /\ single_cb' = "idle"
  /\ UNCHANGED <<selected_leg_switched, flagVars, folding_operation, poseVars,
                 relaxVars, motionVars, client, danceVars, dancer>> /\ OthersRun

(* schedule_move: a move is dropped if one waits already. *)
Schedule(d) ==
  /\ "dance" \in Commands /\ dancer[d] = "idle"
  /\ command_queue = <<>>
  /\ \E name \in Dances : command_queue' = <<name>>
  /\ UNCHANGED <<sentinel, dance, dancer, flagVars, folding_operation, poseVars,
                 singleVars, relaxVars, motionVars, client>> /\ OthersRun

(* cancel_dance_moves: while not empty() get(), and get() blocks. *)
CancelCall(d) ==
  /\ "cancel" \in Commands /\ dancer[d] = "idle"
  /\ dancer' = [dancer EXCEPT ![d] = "cancel"]
  /\ UNCHANGED <<danceVars, flagVars, folding_operation, poseVars, singleVars,
                 relaxVars, motionVars, client>> /\ OthersRun

CancelCheck(d) ==
  /\ dancer[d] = "cancel"
  /\ IF DanceWaits
     THEN dancer' = [dancer EXCEPT ![d] = "get"] /\ UNCHANGED sentinel
     ELSE dancer' = [dancer EXCEPT ![d] = "idle"] /\ sentinel' = TRUE
  /\ UNCHANGED <<command_queue, dance, flagVars, folding_operation, poseVars,
                 singleVars, relaxVars, motionVars, client>> /\ OthersRun

CancelGet(d) ==
  /\ dancer[d] = "get"
  /\ command_queue # <<>>
  /\ command_queue' = Tail(command_queue)
  /\ dancer' = [dancer EXCEPT ![d] = "cancel"]
  /\ UNCHANGED <<sentinel, dance, flagVars, folding_operation, poseVars, singleVars,
                 relaxVars, motionVars, client>> /\ OthersRun

-----------------------------------------------------------------------------
(* The service threads. *)

ServiceUnchanged == UNCHANGED <<flagVars, folding_operation, poseVars, singleVars,
                                danceVars, dancer>> /\ OthersRun

(* Every LegController service that moves: queue (Event(), pose), then wait. *)
CallMotion(c) ==
  /\ "motion" \in Commands /\ client[c] = "idle"
  /\ client' = [client EXCEPT ![c] = "wait_motion"]
  /\ event' = [event EXCEPT ![c] = FALSE]
  /\ motion_queue' = Append(motion_queue, c)
  /\ UNCHANGED <<executing, relaxVars>> /\ ServiceUnchanged

ReturnMotion(c) ==
  /\ client[c] = "wait_motion" /\ event[c]
  /\ client' = [client EXCEPT ![c] = "idle"]
  /\ UNCHANGED <<motionVars, relaxVars>> /\ ServiceUnchanged

(* execute_step_to_relaxed: clear the event, unset _relaxed, wait. *)
CallRelax(c) ==
  /\ "relax" \in Commands /\ client[c] = "idle"
  /\ relaxed_event' = FALSE
  /\ client' = [client EXCEPT ![c] = "unset"]
  /\ UNCHANGED <<relaxed, motionVars>> /\ ServiceUnchanged

(* slip: _relaxed is left as it is *)
KeepRelaxed(c) ==
  /\ client[c] = "unset"
  /\ client' = [client EXCEPT ![c] = "wait"]
  /\ UNCHANGED <<relaxVars, motionVars>> /\ ServiceUnchanged

UnsetRelaxed(c) ==
  /\ client[c] = "unset"
  /\ relaxed' = FALSE
  /\ client' = [client EXCEPT ![c] = "wait"]
  /\ UNCHANGED <<relaxed_event, motionVars>> /\ ServiceUnchanged

WaitRelaxed(c) ==
  /\ client[c] = "wait"
  /\ client' = [client EXCEPT ![c] = IF relaxed_event THEN "woken" ELSE "blocked"]
  /\ UNCHANGED <<relaxVars, motionVars>> /\ ServiceUnchanged

ReturnRelax(c) ==
  /\ client[c] = "woken"
  /\ client' = [client EXCEPT ![c] = "idle"]
  /\ UNCHANGED <<relaxVars, motionVars>> /\ ServiceUnchanged

-----------------------------------------------------------------------------
Loop == \/ Top \/ Rise \/ Unfold \/ StandUp \/ SitDown \/ Exit \/ Stop \/ Grounded
        \/ \E t \in DOMAIN FoldTest : CompareFold(t)
        \/ \E op \in FoldOps : FoldOrUnfold(op)
        \/ FoldDone

Tick == \/ TickSingle \/ TickMotion \/ TickSwitch \/ TickStep \/ TickRelax \/ TickPose
        \/ TickIdle \/ SingleSettle \/ SingleLift \/ ExecuteMotion \/ SwitchLeg \/ Step
        \/ RelaxFirst \/ RelaxSecond \/ SetEvent \/ ReadTransformation \/ ApplyPose
        \/ DanceCheck \/ DanceGet \/ DanceCancelled \/ DanceChecksPassed \/ DanceEnd

Main == Loop \/ Tick

Callbacks == \/ Stand \/ Halt \/ Fold \/ Move \/ StoreTransformation \/ StoreRotation
             \/ FlagPose \/ SelectLeg \/ StoreMode
             \/ \E d \in Dancers : \/ Schedule(d) \/ CancelCall(d)
                                   \/ CancelCheck(d) \/ CancelGet(d)

Services(c) == \/ CallMotion(c) \/ ReturnMotion(c) \/ CallRelax(c)
               \/ UnsetRelaxed(c) \/ WaitRelaxed(c) \/ ReturnRelax(c)

Faults == ServiceFault \/ LegFault \/ PostureFault

Next == Main \/ Faults \/ Callbacks \/ \E c \in Clients : Services(c)

Spec == Init /\ [][Next]_vars

(* A runnable thread gets to run, and a leg motion ends; no message and no   *)
(* call is ever owed.                                                       *)
Fairness ==
  /\ WF_vars(Main)
  /\ WF_vars(StoreRotation) /\ WF_vars(FlagPose) /\ WF_vars(StoreMode)
  /\ \A d \in Dancers : WF_vars(CancelCheck(d)) /\ WF_vars(CancelGet(d))
  /\ \A c \in Clients : WF_vars(\/ ReturnMotion(c) \/ UnsetRelaxed(c)
                                 \/ WaitRelaxed(c) \/ ReturnRelax(c))

FairSpec == Spec /\ Fairness

-----------------------------------------------------------------------------
(* Types.  Checked and proved as an invariant (hexapod_gait_engine.py,       *)
(* MovementController.__init__ and every assignment to its attributes).      *)
FlagTypes ==
  /\ keep_running \in BOOLEAN /\ stand_mode \in BOOLEAN /\ moving \in BOOLEAN
  /\ currently_standing \in BOOLEAN /\ torque \in BOOLEAN /\ lidar \in BOOLEAN
  /\ relaxed \in BOOLEAN /\ relaxed_event \in BOOLEAN
  /\ pose_ready \in BOOLEAN /\ sentinel \in BOOLEAN
  /\ single_leg_mode_on \in BOOLEAN /\ selected_leg_switched \in BOOLEAN

DataTypes ==
  /\ pc \in MainPlaces
  /\ folding_operation \in FoldOps \cup {"None"}
  /\ body \in {"folded", "down", "up"}
  /\ combo \in Tripods /\ in_place \in SUBSET Tripods /\ body_pose \in Poses
  /\ wanted_pose \in Poses /\ pose_cb \in {"idle", "rotation", "flag"}
  /\ single_cb \in {"idle", "on", "off"}
  /\ motion_queue \in Seq(Clients) /\ executing \in Clients \cup {Nobody}
  /\ client \in [Clients -> {"idle", "wait_motion", "unset", "wait", "blocked", "woken"}]
  /\ command_queue \in Seq(Dances) /\ dance \in Dances
  /\ dancer \in [Dancers -> {"idle", "cancel", "get"}]

EventTypes == event \in [Clients -> BOOLEAN]

TypeOK == FlagTypes /\ DataTypes /\ EventTypes

(* What the loop knows of the robot at each of its places; the invariant     *)
(* behind the three properties that follow.                                  *)
StandingPlaces == {"sit_down", "tick", "single", "lift", "motion", "switch", "step",
                   "relax1", "relax2", "set_event", "pose", "pose_rotation", "dance_check", "dance_get",
                   "dance", "dance_end"}
LyingPlaces == {"rise", "unfold", "stand_up", "grounded", "fold_done"}
                 \cup FoldOps \cup DOMAIN FoldTest

PostureInv ==
  /\ body = "up" => torque
  /\ pc \in {"stop", "stopped"} => body # "up"
  /\ pc \notin {"stop", "stopped", "failed"} => (currently_standing <=> body = "up")
  /\ pc = "stopped" => ~torque
  /\ pc \in StandingPlaces => body = "up"
  /\ pc \in LyingPlaces => body # "up"
  /\ pc \in FoldOps => (body = "folded" <=> pc \notin Folding)

(* Between the two calls of relax_next_leg the first tripod is at its place. *)
RelaxInv == /\ pc = "relax2" => combo \in in_place
            /\ pc = "set_event" => in_place = Tripods

(* The motors carry the body whenever it is up: no order of stand, fold and  *)
(* halt commands lets them go limp on a raised robot (sit_down lowers the    *)
(* body before it disables the motors; fold and unfold end limp).            *)
LimpOnlyDown == body = "up" => torque

(* When the main loop ends by a halt the robot is not left up on its legs    *)
(* and the motors are limp, whatever it was doing when halt came.  An        *)
(* exception ends the loop anywhere, and the robot stays as it is; that the  *)
(* motors then carry a raised body is LimpOnlyDown.                          *)
EndsLyingDown == pc = "stopped" => body # "up" /\ ~torque

(* A folding operation runs only on a robot that lies down and is in the     *)
(* state the operation starts from, although folding_operation is read four  *)
(* times and may change in between, and although a command sent to a         *)
(* standing robot stays latched until it sits.                               *)
FoldsLyingDown == pc \in FoldOps => /\ body # "up" /\ ~currently_standing
                                    /\ body = "folded" <=> pc \notin Folding

(* The robot never folds its legs under a spinning lidar.                    *)
FoldStopsLidar == [][body' = "folded" /\ body # "folded" => ~lidar']_vars

(* execute_step_to_relaxed has no lost wakeup although its event and flag    *)
(* are shared by all callers and written by the main thread in between: who  *)
(* waits for the event has a relaxation, or a fresh set(), still to come.    *)
NoLostRelax ==
  \A c \in Clients :
    client[c] = "blocked" \/ (client[c] = "wait" /\ ~relaxed_event)
      => ~relaxed \/ pc = "set_event" \/ \E d \in Clients : client[d] = "unset"

(* When the event is set, the feet of both tripods are over their places in  *)
(* the relaxed stance, whatever was walked, danced or moved before: two      *)
(* consecutive calls of relax_next_leg never lift the same tripod.  Nothing  *)
(* is said of heights, which relax_next_leg does not restore.                *)
FeetInPlaceWhenSet == pc = "set_event" => in_place = Tripods

(* Motion requests are neither lost nor doubled: a caller that waits for its *)
(* event is in the queue once, or is the one being executed, and nobody else *)
(* is, across sitting down, single leg mode and halting.  An exception in    *)
(* the middle of a motion ends the loop and leaves its caller waiting.       *)
Queued == {motion_queue[i] : i \in DOMAIN motion_queue}

MotionAccounted ==
  /\ \A c \in Clients : c \in Queued \/ c = executing
                        <=> client[c] = "wait_motion" /\ ~event[c]
  /\ \A i, j \in DOMAIN motion_queue : motion_queue[i] = motion_queue[j] => i = j
  /\ executing \notin Queued
  /\ pc = "motion" => executing # Nobody
  /\ executing # Nobody => pc \in {"motion", "failed"}

(* The last stance_translate is neither lost nor torn by the race between    *)
(* the callback, which stores translation, rotation and flag, and the tick,  *)
(* which lowers the flag and reads translation and rotation: when no update  *)
(* is pending the body has the wanted pose, or the level one that sitting    *)
(* down and some dances restore -- unless an exception has ended the loop.   *)
NoUpdatePending == ~pose_ready /\ pose_cb = "idle"

PoseNotLost == NoUpdatePending /\ pc \notin {"pose", "pose_rotation", "failed"}
               => body_pose \in {wanted_pose, Level}

(* With its strengthening for the tick that has read one attribute of two.   *)
PoseInv == /\ PoseNotLost
           /\ NoUpdatePending /\ pc = "pose_rotation"
              => body_pose.transformation = wanted_pose.transformation

(* The dance queue is emptied by the main thread and by every cancel         *)
(* callback with empty() followed by a blocking get(), so one may starve     *)
(* the others; they never all wait for each other.                           *)
Starved == pc = "dance_get" /\ command_queue = <<>>

SomeConsumerRuns == ~(Starved /\ \A d \in Dancers : dancer[d] = "get")

(* What the callers of the leg services see is the abstract service.         *)
Service == INSTANCE MotionService WITH
             pending <- (IF executing = Nobody THEN <<>> ELSE <<executing>>) \o motion_queue,
             served  <- {c \in Clients : client[c] = "wait_motion" /\ event[c]}

ImplementsService == Service!ServiceSpec

-----------------------------------------------------------------------------
(* A halt ends the loop, unless a cancel callback has taken the dance the    *)
(* main thread is waiting for, or dances keep arriving while one is danced:  *)
(* the loop over the dance queue does not look at keep_running.              *)
DancesKeepComing == []<>(pc = "dance_check" /\ command_queue # <<>>)

HaltStops == \/ ~keep_running ~> pc \in {"stopped", "failed"} \/ Starved
             \/ DancesKeepComing

(* A robot that is told to stand, and not told otherwise, gets to its legs.  *)
StandsUp == <>[](stand_mode /\ keep_running)
              => \/ <>[](currently_standing /\ body = "up")
                 \/ <>(pc = "failed") \/ []<>Starved

(* A queued motion is executed, in spite of walking, dancing, pose updates   *)
(* and other callers, while the robot stands and no single leg is driven.    *)
NotServing == \/ ~stand_mode \/ single_leg_mode_on \/ ~keep_running
              \/ Starved \/ pc = "failed"

MotionServed == \A c \in Clients :
                  client[c] = "wait_motion" ~> client[c] = "idle" \/ NotServing

(* step_to_relaxed returns once nothing of higher priority keeps the tick    *)
(* from relaxing the legs.                                                   *)
RelaxReturns == \A c \in Clients :
                  client[c] \in {"wait", "blocked"}
                    ~> client[c] = "idle" \/ NotServing \/ moving
                       \/ selected_leg_switched \/ motion_queue # <<>>
=============================================================================
