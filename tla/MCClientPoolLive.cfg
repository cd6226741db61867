SPECIFICATION FairSpec
CONSTANTS
  ClientMax = 2
  BufSize = 2
  Conn = {c1, c2}
  NoSock = NoSock
  MaxByte = 2
PROPERTIES
  HangUpReaped
