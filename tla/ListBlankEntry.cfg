CONSTANTS
  Calls <- ListThenRead
  Entries = {"f1", "blank"}
  Addrs = {"a1"}
  SockName <- MCSockName
  AddrDecoded <- MCAddrDecoded
  SendDecodes <- MCSendDecodes
  RequestRuns <- MCRequestRuns
  FileSize = 2
  RemoveResults = {TRUE}
  LongErrors = FALSE
  MaxList = 2
  MaxCalls = 2
SPECIFICATION Spec
INVARIANT NoCrossTalk
