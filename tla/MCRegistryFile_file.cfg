SPECIFICATION Spec
CONSTANTS
  P1 = P1
  A1 = A1
  S1 = S1
  S2 = S2
  S3 = S3
  Names <- ThreeNames
  Paths = {P1}
  NoPath = NoPath
  SchemeOf <- OnePath
  ArgLists = {NoArgs, A1}
  NoArgs = NoArgs
  NoConfig = NoConfig
  NoEntry = NoEntry
  Registry0 <- TwoRegistered
  Commands <- AllCommands
  NoCmd = NoCmd
  Unreadable = Unreadable
INVARIANTS TypeInv ReadsWhole
PROPERTIES ImplementsDurable
CHECK_DEADLOCK FALSE
