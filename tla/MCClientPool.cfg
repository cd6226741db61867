SPECIFICATION Spec
CONSTANTS
  ClientMax = 2
  BufSize = 2
  Conn = {c1, c2, c3}
  NoSock = NoSock
  MaxByte = 3
SYMMETRY ConnSymmetry
INVARIANTS
  TypeOK
  SlotsTrackConnections
  StreamOrder
  NoLossUnlessOverflow
  AllClosedAtExit
PROPERTY RefinesLossyStream
