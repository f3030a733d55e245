CONSTANTS
  Calls <- RemoveOrSend
  Entries = {"f1"}
  Addrs = {"a1"}
  SockName <- MCSockName
  AddrDecoded <- MCAddrDecoded
  SendDecodes <- MCSendDecodes
  RequestRuns <- MCRequestRuns
  FileSize = 2
  RemoveResults = {TRUE, FALSE}
  LongErrors = TRUE
  MaxList = 1
  MaxCalls = 2
SPECIFICATION Spec
INVARIANT ProxyFaithful
