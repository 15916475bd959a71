SPECIFICATION Spec
CONSTANTS
  Inputs <- Straight
  Roundings <- Edges
INVARIANTS
  FiveOnTheGround
