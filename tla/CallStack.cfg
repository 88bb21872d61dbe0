\* Calls and returns across stops, restarts, resets and context loads.
SPECIFICATION CallSpec
CONSTANTS
  PcSpace = 5
  InstrBase = 1
  InstrSize = 3
  RarDepth = 2
  SpSpace = 3
  MaxInstrCnt = 0
  MaxChanges = 4
  Flags <- MCFlags
  Programs <- MCPrograms
  Patches <- NoPatches
  HostPcs <- MCHostPcs
  Contexts <- MCContexts
  StepCounts <- MCStepCounts
INVARIANTS RarHoldsOpenCalls
PROPERTIES ReturnsToCaller
