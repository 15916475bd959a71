SPECIFICATION FairSpec
CONSTANTS
  HOLD = 250
  RAMP = 100
  DESCENT = 100
  STARTUP = 50
  CENTER = 50
  RESPAWN = 150
  THROTTLE = 5
  FRAME = 4
  Skews = {0, 43}
  Kills = {}
  ClockSteps <- NoSteps
  Faults = {"port"}
  MaxFaults = 2
PROPERTIES
  NoJerk
