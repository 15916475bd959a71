SPECIFICATION FairSpec
CONSTANTS
  Step = 26
  Tolerance = 200
  Lags <- MCLags
  MaxFaults = 1
  Places <- MCPlaces
INVARIANTS
  CheckAgrees
PROPERTIES
  NoScrape
  SwingsCarried
  ScriptEnds
