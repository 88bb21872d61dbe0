\* The subjects of MCFormats.  Bounded in the number of operations: they stop.
SPECIFICATION SubjectSpec
CONSTANTS
\* Context files: two processes, up to two changes of a part of the core; two of every
\* element.
  NumRegs = 2
  HashWords = 2
  StateLines = 2
  BytesPerLine = 2
  RarDepth = 2
  RamIn = 2
  RamOut = 2
  Gprs = {0, 17}
  HashVals = {5, 260}
  Bytes = {1, 200}
  Rates = {144}
  Indices = {0, 17}
  Pcs = {0, 32772}
  Words = {0, 31}
  Widest = 99999
  Width = 5
  MaxWork = 2
  MaxProcesses = 2
\* Hex files: four words of memory, the upper two for instructions; four operations.
  MemWords = 4
  InstrBase = 8
  Vals = {0, 1}
  Codes <- MCCodes
  UserFiles <- MCUserFiles
  MaxLoads = 4
\* All instructions, all single wrong bits, all pairs of parities.
  Operands = {10, 31}
  Immediates = {0, 2730, 4095, 4097}
  Addresses = {0, 32772, 65535}
  Offsets = {0, 1}
\* Lines of up to four pieces.
  Registers = {0, 7}
  Numbers = {5, 16, 32784}
  MaxPieces = 4
\* Texts of up to four characters; 8 bits for a register, 6 for a word and an int,
\* 16 words of memory.
  RegisterBits = 8
  WordBits = 6
  IntMax = 31
  AddrBits = 6
  MaxText = 4
  Typed <- MCTyped
INVARIANTS ContextRestored HexFilesLand WordsUnderParity LinesReadAsMeant NumbersReadAlike
CHECK_DEADLOCK FALSE
