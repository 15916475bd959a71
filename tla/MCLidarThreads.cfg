SPECIFICATION FairSpec
CONSTANTS
  Streams = {"scan", "imu"}
  Length = 1
  ListenOnly = FALSE
  MaxArrivals = 3
  MaxFaults = 1
INVARIANTS NoUseAfterFree
PROPERTIES ImplementsChannel FreshSession ShutdownEnds SilenceRestarts
