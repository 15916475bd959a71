------------------------------- MODULE MCFold -------------------------------
(* An instance of Fold: the angles of the code, five places to start from.  *)
EXTENDS Fold

Still == [l \in Legs |-> [p \in Parts |-> 0]]

(* Every motor is short of its goal, the coxas by almost 10 degrees. *)
Sagging == [l \in Legs |-> [coxa |-> IF l \in {"lf", "lm", "rr"} THEN -99 ELSE 99,
                            femur |-> 40, tibia |-> -35]]

MCLags == {Still, Sagging}

Placed(coxa, f, t) == [l \in Legs |-> [coxa |-> Mirror(l, coxa[l]), femur |-> Mirror(l, f),
                                       tibia |-> Mirror(l, t)]]

FoldedCoxas == [l \in Legs |-> FoldedCoxa(l)]

MCPlaces ==
  {Placed([l \in Legs |-> IF l \in Front THEN 1730 ELSE 1270], 905, 2002),  \* sat down
   Placed(FoldedCoxas, 600, 2400),
   Placed([FoldedCoxas EXCEPT !["lm"] = 600, !["rm"] = 790], 600, 2400),
   Placed([FoldedCoxas EXCEPT !["lm"] = 2000], 611, 2300),   \* folding broken off
   Placed([FoldedCoxas EXCEPT !["lr"] = 1500, !["rf"] = 1511], 600, 2100)}
=============================================================================
