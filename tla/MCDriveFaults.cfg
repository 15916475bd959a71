SPECIFICATION FairSpec
CONSTANTS
  HOLD = 50
  RAMP = 20
  DESCENT = 20
  STARTUP = 10
  CENTER = 10
  RESPAWN = 30
  THROTTLE = 2
  FRAME = 1
  Skews = {0, 9}
  Kills <- AnyNode
  ClockSteps <- StepsBack
  Faults = {"crash", "write", "clock", "port"}
  MaxFaults = 1
INVARIANTS
  UartKeepsUp
PROPERTIES
  GentleRise
  StandsUp
  LiesDown
