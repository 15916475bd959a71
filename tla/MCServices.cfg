SPECIFICATION FairSpec
CONSTANTS
  Clients = {c1, c2}
  Dancers = {}
  Offsets = {level}
  Neutral = level
  Nobody = nobody
  Commands = {"stand", "motion", "relax", "fault"}
INVARIANTS
  TypeOK
  NoLostRelax
  MotionAccounted
  FeetInPlaceWhenSet
PROPERTIES
  ImplementsService
  MotionServed
  RelaxReturns
