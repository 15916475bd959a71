---------------------------- MODULE LossyChannel ----------------------------
(***************************************************************************)
(* What the lidar driver promises to whoever subscribes to its clouds and  *)
(* its IMU topic: of each stream the device sends, the messages arrive in  *)
(* the order of sending, none twice and none before it has arrived; any of *)
(* them may be missing.  ScanPipeline is shown to implement this module,   *)
(* and ScanFrames relies on it.                                            *)
(***************************************************************************)
EXTENDS Naturals

CONSTANT Streams

VARIABLES
  arrived,   \* arrived[s]: messages of stream s that have reached the host so far
  last,      \* last[s]: number of the last message of s given to the subscriber
  given      \* messages given to the subscriber so far

vars == <<arrived, last, given>>

Init ==
  /\ arrived = [s \in Streams |-> 0]
  /\ last = [s \in Streams |-> 0]
  /\ given = 0

Arrive(s) ==
  /\ arrived' = [arrived EXCEPT ![s] = @ + 1]
  /\ UNCHANGED <<last, given>>

Deliver(s) ==
  /\ \E n \in last[s] + 1 .. arrived[s] : last' = [last EXCEPT ![s] = n]
  /\ given' = given + 1
  /\ UNCHANGED arrived

Next == \E s \in Streams : Arrive(s) \/ Deliver(s)

Spec == Init /\ [][Next]_vars
=============================================================================
