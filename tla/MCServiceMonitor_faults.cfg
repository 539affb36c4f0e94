SPECIFICATION Spec
CONSTANTS
  P1 = P1
  P2 = P2
  P3 = P3
  A1 = A1
  Paths <- AllPaths
  NoPath = NoPath
  ArgLists <- Args
  NoArgs = NoArgs
  NoConfig = NoConfig
  NoEntry = NoEntry
  NoCmd = NoCmd
  NoName = NoName
  TimeoutTested = "gtrand2"
  Pids = {1, 2, 3, 4, 5}
  Names <- Random
  SchemeOf <- SchemesOfRandom
  Registry0 <- AllRegistered
  Installed <- Random
  Managed <- Random
  Commands <- FaultCommands
  FaultKinds = {"crash", "hang", "spawn", "reuse"}
  MaxFaults = 2
INVARIANTS TypeInv NoOrphans NeverKillsZero
PROPERTIES SpawnsAfterDeath 
CHECK_DEADLOCK FALSE
