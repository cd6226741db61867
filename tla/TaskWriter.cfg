SPECIFICATION FairSpec
CONSTANTS
  Dir = {d1}
  Time = {1, 2}
  NoFile = NoFile
  MaxSession = 2
  MaxRec = 3
  MaxOpen = 2
  MaxLeft = 1
INVARIANTS TypeOK OneOpenPerFile UnsentIsLast NothingMissing
PROPERTIES CallsReturn ChildrenEnd
