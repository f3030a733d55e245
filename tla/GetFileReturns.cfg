CONSTANTS
  a = a
  b = b
  Services <- MCServices
  RawPaths = {"/d/x", "/d//x", "/d/y"}
  Normalize <- MCNormalize
  InitFiles <- MCInitFiles
  Requests <- MCRequestsOneWay
  Leavers = {b}
  Absent = Absent
  NoOwner = NoOwner
  MaxGen = 3
  MaxCalls = 2
  MaxXfer = 2
  MaxOffset = 1
  BufSz = 1
SPECIFICATION Spec
PROPERTY GetFileReturns
