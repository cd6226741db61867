SPECIFICATION Spec
CONSTANTS
  Dir = {d1}
  Time = {1}
  NoFile = NoFile
  MaxSession = 1
  MaxRec = 2
  MaxOpen = 1
  MaxLeft = 1
INVARIANT WriterGoesOn
