------------------------------- MODULE WordArith -------------------------------
(*****************************************************************************)
(* The arithmetic the SPECT instructions are built from, on the unsigned     *)
(* wide integers of the simulator: what each instruction computes from the   *)
(* values of its operands, as the sequence of masks, shifts and wide         *)
(* products the code performs.                                               *)
(*                                                                           *)
(* The widths are parameters.  In the code a register has Words = 8 words of *)
(* WordBits = 32 bits, ByteBits = 8 and ImmBits = 12; a product or a pair of *)
(* registers is computed in twice the register width (uint512_t).  ADD, SUB  *)
(* and CMP and their immediate forms work on the low word, the other         *)
(* instructions on the register.                                             *)
(*****************************************************************************)
EXTENDS Naturals, FiniteSetsExt

CONSTANTS Words, WordBits, ByteBits, ImmBits

W == Words * WordBits
Bytes == W \div ByteBits

Word == 0 .. 2^WordBits - 1
Immediate == 0 .. 2^ImmBits - 1
Gpr == 0 .. 2^W - 1      \* uint256_t

ASSUME WidthAssumption ==
  /\ {Words, WordBits, ByteBits, ImmBits} \subseteq Nat \ {0}
  /\ Words # 1 /\ ImmBits <= WordBits /\ W % (2 * ByteBits) = 0

\* What ^ is, for exponents up to two registers: the provers do not know it.
ASSUME PowersAssumption == 2^0 = 1 /\ \A n \in 0 .. 2 * W - 1 : 2^(n + 1) = 2 * 2^n

Bit(v, i) == (v \div 2^i) % 2

\* A bitwise operation on the low n bits of two values, from the lowest bit.
Bitwise(op, n, a, b) ==
  LET low[i \in 0 .. n] ==
        IF i = 0 THEN 0 ELSE low[i - 1] + 2^(i - 1) * op[<<Bit(a, i - 1), Bit(b, i - 1)>>]
  IN low[n]

BitPair == {0, 1} \X {0, 1}
BitAnd == [d \in BitPair |-> d[1] * d[2]]
BitOr  == [d \in BitPair |-> IF d[1] + d[2] > 0 THEN 1 ELSE 0]
BitXor == [d \in BitPair |-> (d[1] + d[2]) % 2]
BitNot == [d \in BitPair |-> 1 - d[1]]

And(a, b) == Bitwise(BitAnd, W, a, b)
Or(a, b)  == Bitwise(BitOr, W, a, b)
Not(a)    == 2^W - 1 - a

Shl(a, n) == (a * 2^n) % 2^W
Shr(a, n) == a \div 2^n
Minus(a, b) == (a + 2^W - b) % 2^W

\* Part i of a register.
Part(v, i) == Shr(v, i * WordBits) % 2^WordBits

MaskLsb(v, n) == v % 2^n

\* op on the n low bits of both operands; the bits above are those of lhs.
BinaryLogicOpLsb(op, n, lhs, rhs) ==
  Or(lhs - MaskLsb(lhs, n), Bitwise(op, n, MaskLsb(lhs, n), MaskLsb(rhs, n)))

Logic(op, n, lhs, rhs) ==
  CASE op = "AND" -> BinaryLogicOpLsb(BitAnd, n, lhs, rhs)
    [] op = "OR"  -> BinaryLogicOpLsb(BitOr, n, lhs, rhs)
    [] op = "XOR" -> BinaryLogicOpLsb(BitXor, n, lhs, rhs)
    [] op = "NOT" -> BinaryLogicOpLsb(BitNot, n, lhs, rhs)

--------------------------------------------------------------------------------
(* Arithmetic on the low word, and single bits *)

\* Mutant: the sum keeps its carry.
Add32Carries(a, b) == a + b

Add32(a, b) == MaskLsb((a + b) % 2^W, WordBits)

Sub32(a, b) == MaskLsb(Minus(a, b), WordBits)

Arith32(op, x, y) == IF op = "ADD" THEN Add32(x, y) ELSE Sub32(x, y)

SetBit(a, b) == Or(a, Shl(1, b % W))

ClearBit(a, b) == And(a, Not(Shl(1, b % W)))

--------------------------------------------------------------------------------
(* Shifts: left and right exchange << and >> *)

Dir == {"left", "right"}
Opposite(d) == IF d = "left" THEN "right" ELSE "left"
Shift(d, a, n) == IF d = "left" THEN Shl(a, n) ELSE Shr(a, n)

\* Mutant: the bits shifted in are taken from the wrong end.
ShiftInWrongEnd(d, n, a, into) == Or(Shift(d, a, n), Shift(d, into, W - n))

\* op2 shifted by n with the bits that leave the other end of "into" shifted in:
\* op2 itself to rotate, op3 for ROLIN and RORIN, 0 to shift.
ShiftIn(d, n, a, into) == Or(Shift(d, a, n), Shift(Opposite(d), into, W - n))

\* The carry is the bit that leaves: the mask 80..01 shifted until one end is left.
Carry(d, a) == And(a, Shift(d, 2^(W - 1) + 1, W - 1)) # 0

\* Byte i of the loop that swaps the byte order, where it ends up.
SweLoop(a, i) ==
  LET tmp == And(a, Shl(2^ByteBits - 1, ByteBits * i))
      half == Bytes \div 2
  IN IF i < half THEN Shl(tmp, (Bytes - 1 - 2 * i) * ByteBits)
     ELSE Shr(tmp, (i - (half - 1)) * 2 * ByteBits - ByteBits)

SwapBytes(a) ==
  LET result[i \in 0 .. Bytes] == IF i = 0 THEN 0 ELSE Or(result[i - 1], SweLoop(a, i - 1))
  IN result[Bytes]

--------------------------------------------------------------------------------
(* Modular and wide arithmetic.  The remainder by 0 is what the wide integer *)
(* class leaves: a division by 0 has no remainder.                           *)

\* Operands for which the hardware promises a result.
Reduced(a, b, p) == a < p /\ b < p /\ p \notin {0, 1}

Rem(v, p) == IF p = 0 THEN 0 ELSE v % p

AddP(a, b, p) == Rem(a + b, p)
MulP(a, b, p) == Rem(a * b, p)
RedP(a, b, p) == Rem(a * 2^W + b, p)

\* A negative remainder is avoided by adding the modulus once.
SubP(a, b, p) ==
  LET lhs == IF b > a THEN a + p ELSE a
  IN Rem((lhs + 2^(2 * W) - b) % 2^(2 * W), p)

\* Mutant: only the top bit of the mask is set.
BlindTopBitOnly(s, b, p) == Or(b, 2^(W - 1)) * p + s

\* The blinded scalar of SCB; the random mask has its top bit and the top bit
\* of its second word set.
Blind(s, b, p) ==
  (Or(Or(b, 2^(W - 1)), 2^(W - 1 - WordBits)) * p + s) % 2^(2 * W)

Low(v)  == v % 2^W
High(v) == v \div 2^W
================================================================================
