SPECIFICATION FairSpec
CONSTANTS
  Files <- MCFilesFew
  NoFile = NoFile
  Missing = {"day"}
  MaxEntries = 3
  Refresh = 2
  Day = 3
  NoPid = NoPid
  Pid = {p1, p2}
  MaxTime = 1
  MaxForkFail = 2
PROPERTIES
  DeadReplaced
  TerminateReturns
