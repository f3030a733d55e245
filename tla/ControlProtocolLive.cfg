CONSTANTS
  Calls <- MCCallsAll
  Entries = {"f1", "blank", "nl"}
  Addrs = {"a1", "a6", "bad"}
  SockName <- MCSockName
  AddrDecoded <- MCAddrDecoded
  SendDecodes <- MCSendDecodes
  RequestRuns <- MCRequestRuns
  FileSize = 2
  RemoveResults = {TRUE, FALSE}
  LongErrors = TRUE
  MaxList = 1
  MaxCalls = 3
SPECIFICATION Spec
PROPERTY CallReturns
