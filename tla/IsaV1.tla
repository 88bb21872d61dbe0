---------------------------------- MODULE IsaV1 ----------------------------------
(*****************************************************************************)
(* Instruction set version 1 over the same data: logic works on the low      *)
(* word, the zero flag tells of the low word only, a swap of a register with *)
(* itself is reported once, random words and keys are taken without a        *)
(* report.                                                                   *)
(*****************************************************************************)
EXTENDS CoreState

CONSTANTS P25519, P256, KeyWord   \* the words a key memory or a testbench supplies

LowWordZero(v) == MaskLsb(v, WordBits) = 0

ArithR == \E op \in {"ADD", "SUB"}, r1, r2, r3 \in Regs :
  LET v == Arith32(op, gpr[r2], gpr[r3]) IN PutBoth(r1, v, ZERO, LowWordZero(v))

Cmp == \E r2, r3 \in Regs : PutFlag(ZERO, LowWordZero(Sub32(gpr[r2], gpr[r3])))

LogicR == \E op \in {"AND", "OR", "XOR"}, r1, r2, r3 \in Regs :
  LET v == Logic(op, WordBits, gpr[r2], gpr[r3]) IN PutBoth(r1, v, ZERO, LowWordZero(v))

Not1 == \E r1, r2 \in Regs :
  LET v == Logic("NOT", WordBits, gpr[r2], gpr[r2]) IN PutBoth(r1, v, ZERO, LowWordZero(v))

\* LSL, LSR, ROL, ROR
ShiftByOne == \E d \in Dir, rotate \in BOOLEAN, r1, r2 \in Regs :
  PutBoth(r1, ShiftIn(d, 1, gpr[r2], IF rotate THEN gpr[r2] ELSE 0), CARRY, Carry(d, gpr[r2]))

\* ROL8, ROR8
RotateByte == \E d \in Dir, r1, r2 \in Regs : PutGpr(r1, ShiftIn(d, ByteBits, gpr[r2], gpr[r2]))

Swe == \E r1, r2 \in Regs : PutGpr(r1, SwapBytes(gpr[r2]))
Mov == \E r1, r2 \in Regs : PutGpr(r1, gpr[r2])

Cswap == \E r1, r2 \in Regs :
  LET g == IF flags[CARRY] = 1 THEN SetGpr2(r2, gpr[r1], r1, gpr[r2]) ELSE gpr
  IN Retire(g, flags, GprEntry(r1, g) \o (IF r1 # r2 THEN GprEntry(r2, g) ELSE <<>>))
     /\ UNCHANGED grvQ

Hash == \E r1, r2 \in Regs : HashInto(r1, r2)

Grv == \E r1 \in Regs :
  LET g == SetGpr(r1, FromWords([i \in 0 .. Words - 1 |-> GrvQueuePop(i)]))
  IN Retire(g, flags, GprEntry(r1, g)) /\ grvQ' = GrvQueueRest

Scb == \E r1, r2, r3 \in Regs : PutPair(r1, Blind(gpr[r2], gpr[r3], gpr[R31]))

Modular == \E r1, r2, r3 \in Regs :
  LET x == gpr[r2]
      y == gpr[r3]
  IN \/ \E prime \in {P25519, P256, gpr[R31]} : PutGpr(r1, MulP(x, y, prime))
     \/ PutGpr(r1, AddP(x, y, gpr[R31]))
     \/ PutGpr(r1, RedP(x, y, gpr[R31]))

SubPrime == \E r1, r2, r3 \in Regs : PutGpr(r1, SubP(gpr[r2], gpr[r3], gpr[R31]))

ArithI == \E op \in {"ADD", "SUB"}, r1, r2 \in Regs, imm \in Immediate :
  LET v == Arith32(op, gpr[r2], imm) IN PutBoth(r1, v, ZERO, LowWordZero(v))

CmpI == \E r2 \in Regs, imm \in Immediate : PutFlag(ZERO, LowWordZero(Sub32(gpr[r2], imm)))

LogicI == \E op \in {"AND", "OR", "XOR"}, r1, r2 \in Regs, imm \in Immediate :
  LET v == Logic(op, ImmBits, gpr[r2], imm) IN PutBoth(r1, v, ZERO, LowWordZero(v))

\* The whole register is compared.
CmpA == \E r2 \in Regs, imm \in Immediate : PutFlag(ZERO, gpr[r2] = imm)

MovI == \E r1 \in Regs, imm \in Immediate : PutGpr(r1, imm)

HashIt == sha512' = HashStart
          /\ UNCHANGED <<gpr, flags, memory, grvQ, keccak, changeReporting, changes>>

\* A key whose words come from a queue, without an error.
Gpk == \E r1 \in Regs, w \in [0 .. Words - 1 -> KeyWord] : PutGpr(r1, FromWords(w))

Ld == \E r1 \in Regs, a \in Addr : Load(r1, a)
St == \E r1 \in Regs, a \in Addr : Store(r1, a)

--------------------------------------------------------------------------------

ExecuteAlu == ArithR \/ Cmp \/ LogicR \/ Not1 \/ ShiftByOne \/ RotateByte \/ Swe \/ Mov \/ Cswap
              \/ ArithI \/ CmpI \/ LogicI \/ CmpA \/ MovI \/ Modular \/ SubPrime \/ Scb \/ Gpk
ExecuteUnits == Hash \/ HashIt \/ Grv \/ Ld \/ St

Execute == Len(changes) <= MaxChanges /\ (ExecuteAlu \/ ExecuteUnits)

Spec == InitCore /\ [][Aloud(Execute) \/ HostCall]_vars

\* A swap is reported as the hardware does it: an instruction that names one register
\* reports no register twice, and one that stores in two reports each.
RegistersOnce == \A r \in Regs : Cardinality(About(NewEntries, "GPR", {r})) <= 1
NoRegisterTwice == [][RegistersOnce]_vars
================================================================================
