\* Programs that end, loop, are invalid, run off the memory or nest too deep; a host
\* that writes every register, patches code, loads contexts and resets.
SPECIFICATION FairSpec
CONSTANTS
  PcSpace = 5
  InstrBase = 1
  InstrSize = 3
  RarDepth = 1
  SpSpace = 2
  MaxInstrCnt = 2
  MaxChanges = 4
  Flags <- MCFlags
  Programs <- MCAllPrograms
  Patches <- OnePatch
  HostPcs <- OneHostPc
  Contexts <- MCContexts
  StepCounts <- MCStepCounts
INVARIANTS TypeOK ControlInv
PROPERTIES ResultOnlyByExecution ImplementsInvocation ReportedChangesChain StepReturns
