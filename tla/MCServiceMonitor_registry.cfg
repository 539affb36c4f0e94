SPECIFICATION Spec
CONSTANTS
  P1 = P1
  P2 = P2
  P3 = P3
  A1 = A1
  Paths <- AllPaths
  NoPath = NoPath
  ArgLists <- Args
  NoArgs = NoArgs
  NoConfig = NoConfig
  NoEntry = NoEntry
  NoCmd = NoCmd
  NoName = NoName
  TimeoutTested = "gtrand2"
  Pids = {1, 2, 3, 4, 5}
  Names <- Mixed
  SchemeOf <- SchemesOfMixed
  Registry0 <- GhostUnregistered
  Installed = {"gtrand", "legacyd"}
  Managed = {"gtrand"}
  Commands <- RegistryCommands
  FaultKinds = {"slow", "restart"}
  MaxFaults = 1
INVARIANTS NamesAgree
PROPERTIES OkMeansBoth
CHECK_DEADLOCK FALSE
