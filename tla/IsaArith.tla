-------------------------------- MODULE IsaArith --------------------------------
(*****************************************************************************)
(* What the instruction set document promises of the results, for all        *)
(* operands: a, b and p stand for the registers op2, op3 and R31.  Each      *)
(* promise is stated bit by bit, byte by byte or as the number it is, and    *)
(* compared with the masks, shifts and products of WordArith.                *)
(*****************************************************************************)
EXTENDS WordArith

VARIABLES a, b, p
vars == <<a, b, p>>

Init == a = 0 /\ b = 0 /\ p = 0

LoadA == a' \in Gpr /\ UNCHANGED <<b, p>>
LoadB == b' \in Gpr /\ UNCHANGED <<a, p>>
LoadP == p' \in Gpr /\ UNCHANGED <<a, b>>

Next == LoadA \/ LoadB \/ LoadP
Spec == Init /\ [][Next]_vars

Bits == 0 .. W - 1

\* The operands are registers and every result fits one.
TypeOK ==
  /\ {a, b, p} \subseteq Gpr
  /\ {Add32(a, b), Sub32(a, b), SetBit(a, b), ClearBit(a, b), SwapBytes(a), SubP(a, b, p),
      AddP(a, b, p), MulP(a, b, p), RedP(a, b, p), High(Blind(a, b, p))} \subseteq Gpr

\* A bitwise instruction on the n low bits combines them pair by pair and leaves the
\* upper bits of op2, for the whole register, the word and the immediate alike.
LogicIsPointwise ==
  \A n \in {ImmBits, WordBits, W}, i \in Bits :
    LET r(op) == Bit(Logic(op, n, a, b), i)
        low == i < n
    IN /\ r("AND") = IF low THEN Bit(a, i) * Bit(b, i) ELSE Bit(a, i)
       /\ (r("OR") = 0) <=> (Bit(a, i) = 0 /\ (low => Bit(b, i) = 0))
       /\ (r("XOR") # Bit(a, i)) <=> (low /\ Bit(b, i) = 1)
       /\ (r("NOT") # Bit(a, i)) <=> low

\* SBIT and CBIT change one bit, the one op3 selects modulo the width of a register.
OneBitChanges ==
  \A i \in Bits :
    /\ Bit(SetBit(a, b), i) = IF i = b % W THEN 1 ELSE Bit(a, i)
    /\ Bit(ClearBit(a, b), i) = IF i = b % W THEN 0 ELSE Bit(a, i)

\* Rotations and shifts move every bit by the distance, and what enters is the end of
\* the operand they name (itself, op3 or nothing); the carry is the bit that left.
ShiftsMoveBits ==
  /\ \A n \in {1, ByteBits}, i \in Bits, into \in {a, b, 0} :
       /\ Bit(ShiftIn("left", n, a, into), i) =
            IF i < n THEN Bit(into, W - n + i) ELSE Bit(a, i - n)
       /\ Bit(ShiftIn("right", n, a, into), i) =
            IF i >= W - n THEN Bit(into, i - (W - n)) ELSE Bit(a, i + n)
  /\ Carry("left", a) <=> Bit(a, W - 1) = 1
  /\ Carry("right", a) <=> Bit(a, 0) = 1

\* SWE puts byte i in place of byte Bytes - 1 - i, though its loop moves the two
\* halves by differently computed distances.
SweReverses ==
  \A i \in 0 .. Bytes - 1 :
    LET byte(v, j) == (v \div 2^(j * ByteBits)) % 2^ByteBits
    IN byte(SwapBytes(a), i) = byte(a, Bytes - 1 - i)

\* Under the hardware's precondition ADDP and SUBP are inverse modulo R31, although
\* the subtraction is done on unsigned numbers.
SubPInvertsAddP ==
  Reduced(a, b, p) =>
    /\ SubP(a, b, p) < p
    /\ AddP(SubP(a, b, p), b, p) = a
    /\ SubP(AddP(a, b, p), b, p) = a

\* The blinded scalar is congruent to the scalar modulo R31 and fits two registers:
\* the multiple of R31 that is added never wraps, and it has a mask with its top bit.
BlindedScalarCongruent ==
  LET s == Blind(a, b, p)
  IN /\ s = Low(s) + 2^W * High(s)
     /\ p # 0 => s % p = a % p
     /\ s >= a + p * 2^(W - 1)
     /\ p # 0 => Bit((s - a) \div p, W - 1 - WordBits) = 1
================================================================================
