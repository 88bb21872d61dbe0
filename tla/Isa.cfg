\* The parts of the data path; see MCIsa.
SPECIFICATION MCSpec
CONSTANTS
  Words = 2
  WordBits = 1
  ByteBits = 1
  ImmBits = 1
  AluRegs = 3
  NumRegs = 2
  AddrSpace = 10
  BytesPerWord = 2
  Base <- MCBase
  Size <- MCSize
  SmallSpace = 2
  SmallWord = 1
  SmallBase <- MCSmallBase
  SmallSize <- MCSmallSize
  V1Memories <- MCV1Memories
  MaxGrv = 2
  BusGrv = 0
  HashContext <- MCContexts
  Sponge <- MCSponge
  KeyWord <- MCKeyWord
  HashStart <- MCHashStart
  HashUpdate <- MCHashUpdate
  SpongeStart = 0
  Absorbed <- MCAbsorbed
  Squeezed <- MCSqueezed
  Permuted <- MCPermuted
  InstrMemAhbW = TRUE
  MaxChanges = 0
  P25519 = 3
  P256 = 2
  RateBits = 1
INVARIANTS PartTypeOK
PROPERTIES PartChangesTold
