\* The doc of max_instr_cnt_.
SPECIFICATION FairSpec
CONSTANTS
  PcSpace = 5
  InstrBase = 1
  InstrSize = 3
  RarDepth = 1
  SpSpace = 2
  MaxInstrCnt = 2
  MaxChanges = 4
  Flags <- MCFlags
  Programs <- MCPrograms
  Patches <- NoPatches
  HostPcs <- OneHostPc
  Contexts <- NoContexts
  StepCounts <- MCStepCounts
PROPERTIES StepAlwaysReturns
