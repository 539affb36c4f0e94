SPECIFICATION Spec
CONSTANTS
  Users <- RootAndOther
  NoUser = NoUser
  StUid = 0
  StGid = 0
  Mode <- Mode644
  IdMod = 24
  Slots = {1, 2}
  NoFd = NoFd
  NoSub = NoSub
  NoCounts = NoCounts
  Forged <- NinetyNine
  FirstMgmt = 9
  Low7 = 1000
  MaxRequests = 6
PROPERTIES ErrorsCounted
CHECK_DEADLOCK FALSE
