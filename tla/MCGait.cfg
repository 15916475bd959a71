SPECIFICATION Spec
CONSTANTS
  Inputs <- Curve
  Roundings <- Edges
INVARIANTS
  TypeOK
  NeverTwoOfASide
PROPERTIES
  OneSwing
  ComesToRest
