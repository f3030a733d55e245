CONSTANTS
  W = 4
  HdrLen = 2
  MaxNoCmd = 4
  BufSz = 5
  FileSize = 8
  Cmds <- MCCmds
  MaxCmds = 3
  Letters <- MCLetters
  Fold <- MCFold
SPECIFICATION Spec
INVARIANTS TypeOK WithinSz
PROPERTIES AckExact CommandAnswered HeaderUnderstood
