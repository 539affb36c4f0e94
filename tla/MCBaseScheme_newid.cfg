SPECIFICATION Spec
CONSTANTS
  Users <- RootAndOther
  NoUser = NoUser
  StUid = 0
  StGid = 0
  Mode <- Mode644
  IdMod = 24
  Slots = {1, 2}
  NoFd = NoFd
  NoSub = NoSub
  NoCounts = NoCounts
  Forged <- NinetyNine
  FirstMgmt = 2
  Low7 = 1000
  MaxRequests = 8
PROPERTIES NewIdIsNew
CHECK_DEADLOCK FALSE
