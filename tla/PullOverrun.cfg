CONSTANTS
  W = 4
  HdrLen = 2
  MaxNoCmd = 4
  BufSz = 5
  FileSize = 12
  Cmds <- Overrun
  MaxCmds = 1
  Letters <- MCLetters
  Fold <- MCFold
SPECIFICATION Spec
INVARIANT WithinSz
