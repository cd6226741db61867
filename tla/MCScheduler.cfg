SPECIFICATION Spec
CONSTANTS
  Files <- MCFiles
  NoFile = NoFile
  Missing = {"day"}
  MaxEntries = 3
  Refresh = 2
  Day = 3
  NoPid = NoPid
  Pid = {p1, p2}
  MaxTime = 2
  MaxForkFail = 1
SYMMETRY PidSymmetry
INVARIANTS
  TypeOK
  AtMostOneAlive
  NeverForgotten
  InStep
  EditsNoticed
