\* The RTL is up to three instructions ahead; values of two words.
SPECIFICATION CosimSpec
CONSTANTS
  Parts = 2
  Word = {0, 1}
  Zero = 0
  Regs = {r1}
  MaxPending = 3
  MaxQueue = 5
INVARIANTS QueuesMatchPending
PROPERTIES ModelFollowsRtl
