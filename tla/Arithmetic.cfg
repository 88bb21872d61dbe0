\* The subjects of MCArithmetic: four bits in two words of two, bytes of one; messages
\* of up to 27 bytes in blocks of 8.
SPECIFICATION SubjectSpec
CONSTANTS
  Words = 2
  WordBits = 2
  ByteBits = 1
  ImmBits = 1
  Block = 8
  Reserve = 3
  MaxMessage = 27
INVARIANTS BitsAsTold CongruentResults LimbsAreNumbers DivisionsExact
PROPERTIES DigestOfMessage
