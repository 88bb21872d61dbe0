---------------------------------- MODULE IsaV2 ----------------------------------
(*****************************************************************************)
(* Instruction set version 2: what each instruction does to the data of the  *)
(* core, and which changes it reports in which order.  One action per group  *)
(* of instructions that the code generates from one macro.  Control          *)
(* instructions are those of CpuControl; the transactions of the key bus     *)
(* have any outcome here, KbusQueues says which they have.                   *)
(*****************************************************************************)
EXTENDS CoreState

CONSTANTS P25519, P256, RateBits   \* the two primes; the sponge's rate, in bits

DPI_RBUS_FRESH_ENT == 1
DPI_RBUS_NO_FRESH_ENT == 2
DPI_KBUS_STK_WRITE == 16
DPI_KBUS_LDK_READ == 17

--------------------------------------------------------------------------------
(* Arithmetic, logic, shifts and moves *)

ArithR == \E op \in {"ADD", "SUB"}, r1, r2, r3 \in Regs :
  LET v == Arith32(op, gpr[r2], gpr[r3]) IN PutBoth(r1, v, ZERO, v = 0)

Cmp == \E r2, r3 \in Regs : PutFlag(ZERO, Sub32(gpr[r2], gpr[r3]) = 0)

LogicR == \E op \in {"AND", "OR", "XOR"}, r1, r2, r3 \in Regs :
  LET v == Logic(op, W, gpr[r2], gpr[r3]) IN PutBoth(r1, v, ZERO, v = 0)

Not1 == \E r1, r2 \in Regs :
  LET v == Logic("NOT", W, gpr[r2], gpr[r2]) IN PutBoth(r1, v, ZERO, v = 0)

SetOrClearBit == \E r1, r2, r3 \in Regs :
  PutGpr(r1, SetBit(gpr[r2], gpr[r3])) \/ PutGpr(r1, ClearBit(gpr[r2], gpr[r3]))

\* LSL, LSR, ROL, ROR
ShiftByOne == \E d \in Dir, rotate \in BOOLEAN, r1, r2 \in Regs :
  PutBoth(r1, ShiftIn(d, 1, gpr[r2], IF rotate THEN gpr[r2] ELSE 0), CARRY, Carry(d, gpr[r2]))

\* ROL8, ROR8 (r3 = r2), ROLIN, RORIN
ShiftByByte == \E d \in Dir, r1, r2, r3 \in Regs :
  PutGpr(r1, ShiftIn(d, ByteBits, gpr[r2], gpr[r3]))

Swe == \E r1, r2 \in Regs : PutGpr(r1, SwapBytes(gpr[r2]))
Mov == \E r1, r2 \in Regs : PutGpr(r1, gpr[r2])

\* Mutant: the second register is not reported.
SwapLosing == \E f \in {CARRY, ZERO}, r1, r2 \in Regs :
  LET g == IF flags[f] = 1 THEN SetGpr2(r2, gpr[r1], r1, gpr[r2]) ELSE gpr
  IN Retire(g, flags, GprEntry(r1, g)) /\ UNCHANGED grvQ

\* CSWAP, ZSWAP: both registers are reported, changed or not, the same twice.
Swap == \E f \in {CARRY, ZERO}, r1, r2 \in Regs :
  LET g == IF flags[f] = 1 THEN SetGpr2(r2, gpr[r1], r1, gpr[r2]) ELSE gpr
  IN Retire(g, flags, GprEntry(r1, g) \o GprEntry(r2, g)) /\ UNCHANGED grvQ

ArithI == \E op \in {"ADD", "SUB"}, r1, r2 \in Regs, imm \in Immediate :
  LET v == Arith32(op, gpr[r2], imm) IN PutBoth(r1, v, ZERO, v = 0)

CmpI == \E r2 \in Regs, imm \in Immediate : PutFlag(ZERO, Sub32(gpr[r2], imm) = 0)

LogicI == \E op \in {"AND", "OR", "XOR"}, r1, r2 \in Regs, imm \in Immediate :
  LET v == Logic(op, ImmBits, gpr[r2], imm) IN PutBoth(r1, v, ZERO, v = 0)

MovI == \E r1 \in Regs, imm \in Immediate : PutGpr(r1, imm)

--------------------------------------------------------------------------------
(* Modular arithmetic and scalar blinding *)

Modular == \E r1, r2, r3 \in Regs :
  LET x == gpr[r2]
      y == gpr[r3]
  IN \/ \E prime \in {P25519, P256, gpr[R31]} : PutGpr(r1, MulP(x, y, prime))
     \/ PutGpr(r1, AddP(x, y, gpr[R31]))
     \/ PutGpr(r1, RedP(x, y, gpr[R31]))

SubPrime == \E r1, r2, r3 \in Regs : PutGpr(r1, SubP(gpr[r2], gpr[r3], gpr[R31]))

Scb == \E r1, r2, r3 \in Regs :
  PutPair(r1, Blind(gpr[r2], gpr[r3], gpr[R31]))

--------------------------------------------------------------------------------
(* Loads and stores *)

\* The address is the low 16 bits of a register, or an immediate.
Ldr == \E r1, r2 \in Regs, a \in Addr : gpr[r2] % AddrSpace = a /\ Load(r1, a)
Str == \E r1, r2 \in Regs, a \in Addr : gpr[r2] % AddrSpace = a /\ Store(r1, a)
Ld == \E r1 \in Regs, a \in Addr : Load(r1, a)
St == \E r1 \in Regs, a \in Addr : Store(r1, a)

--------------------------------------------------------------------------------
(* Random words, hash and MAC *)

\* Each word is reported as taken from the bus, the first as fresh.
Grv == \E r1 \in Regs :
  LET g == SetGpr(r1, FromWords([i \in 0 .. Words - 1 |-> GrvQueuePop(i)]))
      taken == [i \in 1 .. Words |->
                  Entry("RBUS", IF i = 1 THEN DPI_RBUS_FRESH_ENT ELSE DPI_RBUS_NO_FRESH_ENT, 0, 0)]
  IN Retire(g, flags, taken \o GprEntry(r1, g)) /\ grvQ' = GrvQueueRest

Hash == \E r1, r2 \in Regs : HashInto(r1, r2)

HashIt == sha512' = HashStart
          /\ UNCHANGED <<gpr, flags, memory, grvQ, keccak, changeReporting, changes>>

\* The sponge takes no input once it has been squeezed; the error is only logged.
Absorb(s) ==
  /\ keccak' = IF keccak.squeezing THEN keccak ELSE [keccak EXCEPT !.sponge = s]
  /\ UNCHANGED <<gpr, flags, memory, grvQ, sha512, changeReporting, changes>>

TmacIt == keccak' = [squeezing |-> FALSE, sponge |-> SpongeStart]
          /\ UNCHANGED <<gpr, flags, memory, grvQ, sha512, changeReporting, changes>>

TmacUp == \E r2 \in Regs : Absorb(Absorbed(keccak.sponge, <<gpr[r2] % 2^RateBits>>))

\* The initial string, nonce and length before the key, takes two blocks.
TmacIs == \E r2 \in Regs, imm \in Immediate :
  LET half == 2^(W \div 2)
  IN Absorb(Absorbed(Absorbed(keccak.sponge, <<imm % 2^ByteBits, gpr[r2] \div half>>),
                     <<gpr[r2] % half>>))

TmacRd == \E r1 \in Regs :
  LET g == SetGpr(r1, Squeezed(keccak.sponge))
  IN /\ gpr' = g /\ keccak' = [squeezing |-> TRUE, sponge |-> Permuted(keccak.sponge)]
     /\ ReportChanges(GprEntry(r1, g))
     /\ UNCHANGED <<flags, memory, grvQ, sha512, changeReporting>>

--------------------------------------------------------------------------------
(* The key bus *)

\* n transactions, the last with error flag e: each reports itself and the flag, which
\* the ones before the last have cleared.
TransactionEntries(op, n, e, v) ==
  [k \in 1 .. 2 * n |->
     LET i == (k - 1) \div 2
     IN IF k % 2 = 1
        THEN Entry("KBUS", op, 0, IF op = DPI_KBUS_STK_WRITE THEN Part(v, i) ELSE 0)
        ELSE Entry("FLAG", ERROR, IF i = 0 THEN flags[ERROR] ELSE 0, IF i = n - 1 THEN e ELSE 0)]

\* A series stops at the first error, or after all words.
Series == {s \in (1 .. Words) \X {0, 1} : s[1] = Words \/ s[2] = 1}

Ldk == \E r1 \in Regs, v \in Gpr, s \in Series :
  LET g == IF s[2] = 0 THEN SetGpr(r1, v) ELSE gpr
  IN Retire(g, SetCpuFlag(ERROR, s[2] = 1),
            TransactionEntries(DPI_KBUS_LDK_READ, s[1], s[2], v)
              \o (IF s[2] = 0 THEN GprEntry(r1, g) ELSE <<>>))
     /\ UNCHANGED grvQ

Stk == \E r1 \in Regs, s \in Series :
  Retire(gpr, SetCpuFlag(ERROR, s[2] = 1),
         TransactionEntries(DPI_KBUS_STK_WRITE, s[1], s[2], gpr[r1])) /\ UNCHANGED grvQ

Kbo == \E op \in 0 .. 15, e \in {0, 1} :
  Retire(gpr, SetCpuFlag(ERROR, e = 1), TransactionEntries(op, 1, e, 0)) /\ UNCHANGED grvQ

--------------------------------------------------------------------------------

ExecuteAlu == ArithR \/ Cmp \/ LogicR \/ Not1 \/ SetOrClearBit \/ ShiftByOne \/ ShiftByByte \/ Swe
              \/ Mov \/ Swap \/ ArithI \/ CmpI \/ LogicI \/ MovI \/ Modular \/ SubPrime \/ Scb
ExecuteMemory == Ldr \/ Str \/ Ld \/ St
ExecuteUnits == Grv \/ Hash \/ HashIt \/ TmacIt \/ TmacUp \/ TmacIs \/ TmacRd \/ Ldk \/ Stk \/ Kbo

Execute == Len(changes) <= MaxChanges /\ (ExecuteAlu \/ ExecuteMemory \/ ExecuteUnits)

Spec == InitCore /\ [][Aloud(Execute) \/ HostCall]_vars
================================================================================
