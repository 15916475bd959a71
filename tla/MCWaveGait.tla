----------------------------- MODULE MCWaveGait -----------------------------
(* Instances of WaveGait: Twists inside and beyond the limits of cmd_cb.     *)
EXTENDS WaveGait

Twist(linear, angular) == [x |-> linear, z |-> angular]

(* A sample a hair short is past one leg's swing and before the next one's only *)
(* where a leg with an offset of 0 or a half begins; elsewhere the heights   *)
(* would differ by a rounding.                                               *)
Edges == {0, 20}

Straight == {Twist(0, 0), Twist(250, 0)}

(* Faster than cmd_cb allows, in two thirds of the fastest turn, which lifts   *)
(* the standing feet by 15 mm.                                              *)
Curve    == {Twist(0, 0), Twist(250, -100)}
=============================================================================
