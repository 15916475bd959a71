------------------------------ MODULE MCDrive ------------------------------
(* Instances of SpiderDrive: the durations of the code in ticks of 20 ms, or *)
(* a fifth of them where faults may happen at any tick.                      *)
EXTENDS SpiderDrive

AnyNode == {{"engine"}, {"engine", "bridge"}}

NoSteps      == {}
StepsBack    == {-23, -4}
=============================================================================
