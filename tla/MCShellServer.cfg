SPECIFICATION FairSpec
CONSTANTS
  Progs = 2
  Shells = 2
  Layout <- MCLayout
  MaxConn = 3
  MaxVer = 1
INVARIANTS
  TypeOK
  DownloadFresh
PROPERTIES
  UploadWhole
  ShellAnswered
  UploadReaches
