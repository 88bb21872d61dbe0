\* Two compilations of up to four lines in up to two files at a time.
SPECIFICATION Spec
CONSTANTS
  Start = start
  x = x
  Idents = {start, x}
  None = none
  Garbage = garbage
  IsaVersion = isa
  CondIdents = {isa, debug}
  Constants <- MCConstants
  InstrBase = 8
  InstrSize = 4
  InstrBytes = 2
  FirstAddrs = {6, 8, 10, 12, 13}
  MaxLines = 4
  MaxDepth = 2
  MaxSessions = 2
INVARIANT FailsWithoutStart
CHECK_DEADLOCK FALSE
