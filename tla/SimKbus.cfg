\* Two slots of one key of two words, one register.
SPECIFICATION Spec
CONSTANTS
  Parts = 2
  Word = {0, 1}
  Zero = 0
  Erased = 1
  Scramble = 0
  NoKey = NoKey
  KeysPerSlot = 1
  Slots = {s1, s2}
  Regs = {r1}
INVARIANTS TypeOK QueuesDrained EmptySlotsErased
PROPERTIES ImplementsKeyStore InstructionsKeepPromises
