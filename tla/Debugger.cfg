\* Three instructions, three symbols, at most three breakpoints.
SPECIFICATION Spec
CONSTANTS
  loop = loop
  add = add
  size = size
  nowhere = nowhere
  AddrSpace = 8
  InstrBytes = 2
  StartPc = 2
  Successors <- MCSuccessors
  Names <- MCNames
  HexNames <- MCHexNames
  Labels <- MCLabels
  Symbols <- MCSymbols
  SymbolValue <- MCSymbolValue
  Numbers <- MCNumbers
  StepCounts = {0, 1, 2}
  MaxBreakpoints = 3
INVARIANTS TypeOK DeletedIsGone ExecutesStartedProgram
PROPERTIES NoBreakpointPassed
