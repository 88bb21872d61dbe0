\* The subjects of MCSessions.  A session that failed ends.
SPECIFICATION CallSpec
CONSTANTS
  Base = 8
  Size = 3
  None = None
  Files <- MCFiles
  FirstAddrs = {7, 8}
  ParityTypes = {"NONE", "ODD"}
  DumpAddrs = {8}
  MemTypes <- MCMemTypes
  MemBase <- MCMemBase
  PartBits = 1
  Parts = 1
  HexFiles <- MCHexFiles
  IssFiles <- MCIssFiles
  IssFirstAddrs = {7, 9, 10, 11}
  OperandSteps <- MCOperandSteps
  TimingSteps <- MCTimingSteps
  StartPcs = {8, 10}
  Limits = {5}
  Filled = 255
INVARIANTS ProgramsReachStart CallsMakeSession StepsTellInstruction StepsTellDurations
CHECK_DEADLOCK FALSE
