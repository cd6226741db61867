SPECIFICATION FairSpec
CONSTANTS
  MaxRec = 3
  BodyLen <- MCBodyLen
  PipeSize = 8
  PipeBuf = 3
  BufSize = 7
  MaxLen = 4
  Junk = Junk
INVARIANTS
  TypeOK
  InOrder
  NoneMissing
PROPERTIES
  WriterReturns
  Delivered
