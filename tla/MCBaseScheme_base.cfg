SPECIFICATION Spec
CONSTANTS
  Users <- RootAndOther
  NoUser = NoUser
  StUid = 0
  StGid = 0
  Mode <- Mode644
  IdMod = 24
  Slots = {S1, S2, S3}
  NoFd = NoFd
  NoSub = NoSub
  NoCounts = NoCounts
  Forged <- NinetyNine
  FirstMgmt = 9
  Low7 = 3
  MaxRequests = 7
INVARIANTS TypeInv TablesAgree IdsUnique StatsAccount
CHECK_DEADLOCK FALSE
SYMMETRY SlotSymmetry
