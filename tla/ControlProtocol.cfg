CONSTANTS
  Calls <- MCCalls
  Entries = {"f1", "f2"}
  Addrs = {"a1", "a6"}
  SockName <- MCSockName
  AddrDecoded <- MCAddrDecoded
  SendDecodes <- MCSendDecodes
  RequestRuns <- MCRequestRuns
  FileSize = 2
  RemoveResults = {TRUE}
  LongErrors = FALSE
  MaxList = 2
  MaxCalls = 3
SPECIFICATION Spec
INVARIANTS ProxyFaithful NoCrossTalk FramingSound
