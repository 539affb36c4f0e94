SPECIFICATION LedgerSpec
CONSTANTS
  Users <- Root
  NoUser = NoUser
  StUid = 0
  StGid = 0
  Mode <- Mode644
  IdMod = 64
  Main = Main
  Sub = Sub
  ChildScheme = ChildScheme
  PidScheme = PidScheme
  Slots = {Main, Sub, ChildScheme, PidScheme, Client}
  NoFd = NoFd
  NoSub = NoSub
  NoCounts = NoCounts
  Forged <- NinetyNine
  FirstMgmt = 60
  Low7 = 1000
  MaxRequests = 60
  MaxJobs = 3
  MaxAsked = 2
  MaxTimeouts = 1
INVARIANTS LedgerTypeInv CountsTold TotalsTold LossIsOwn
CHECK_DEADLOCK FALSE
