SPECIFICATION FairSpec
CONSTANTS
  Clients = {}
  Dancers = {d1}
  Offsets = {level, raised}
  Neutral = level
  Nobody = nobody
  Commands = {"stand", "halt", "dance", "cancel", "pose"}
INVARIANTS
  SomeConsumerRuns
  PoseNotLost
PROPERTIES
  HaltStops
CHECK_DEADLOCK FALSE
