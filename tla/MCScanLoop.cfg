SPECIFICATION FairSpec
CONSTANTS
  Big = 3
  Day = 78
  Sec = 2
  Hour = 26
  Half = 17
  Block = 26
  Scan = 13
  Intt = 5
  Lead = 1
  Nap = 8
  Dur <- MCDur
  Begins <- MCBegins
  Beam <- MCBeam
  FirstBeam = 0
  LastBeam = 1
  XcfEvery = 2
  XcfEdit <- MCXcfEdit
  MaxEdit = 1
INVARIANTS TypeOK InStep NotBehind FilesFollow OneLateRecord
PROPERTIES NoScanTwice QuitReturns ChildEnds ScanEnds XcfComesRound
