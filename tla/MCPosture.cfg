SPECIFICATION FairSpec
CONSTANTS
  Clients = {}
  Dancers = {}
  Offsets = {level}
  Neutral = level
  Nobody = nobody
  Commands = {"stand", "halt", "fold", "fault", "single", "move"}
INVARIANTS
  LimpOnlyDown
  EndsLyingDown
  FoldsLyingDown
PROPERTIES
  FoldStopsLidar
  StandsUp
CHECK_DEADLOCK FALSE
