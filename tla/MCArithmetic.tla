------------------------------- MODULE MCArithmetic -------------------------------
(*****************************************************************************)
(* Computations against what they are to compute, over all operands of a     *)
(* small width.  The subject is chosen at the beginning; the hash keeps its  *)
(* initial state in the others.                                              *)
(*   instructions  results of instructions, registers of four bits (IsaArith)*)
(*   limbs         wide integers of three limbs of two bits (WideInt)        *)
(*   division      three limbs of three bits (WideInt)                       *)
(*   modular       four limbs of two bits, registers of two of them          *)
(*   hash          messages of up to three blocks and a bit (Sha512)         *)
(*****************************************************************************)
EXTENDS Sha512

CONSTANTS Words, WordBits, ByteBits, ImmBits

VARIABLES subject, op2, op3, r31, lhs, rhs

operands == <<op2, op3, r31>>
limbs == <<lhs, rhs>>
all == <<subject, vars, operands, limbs>>

Reg      == INSTANCE IsaArith WITH a <- op2, b <- op3, p <- r31
Short    == INSTANCE WideInt WITH x <- lhs, y <- rhs, Limbs <- 3, LimbBits <- 2
Dividing == INSTANCE WideInt WITH x <- lhs, y <- rhs, Limbs <- 3, LimbBits <- 3
Modular  == INSTANCE WideInt WITH x <- lhs, y <- rhs, Limbs <- 4, LimbBits <- 2

ASSUME ArithmeticAssumption ==
  /\ Reg!WidthAssumption /\ Reg!PowersAssumption
  /\ Short!LimbAssumption /\ Dividing!LimbAssumption /\ Modular!LimbAssumption

--------------------------------------------------------------------------------

Unused == 0
NoOperands == op2 = Unused /\ op3 = Unused /\ r31 = Unused
NoLimbs == lhs = Unused /\ rhs = Unused

SubjectInit ==
  /\ Init
  /\ \/ subject = "instructions" /\ Reg!Init /\ NoLimbs
     \/ subject = "limbs" /\ Short!Init /\ NoOperands
     \/ subject = "division" /\ Dividing!Init /\ NoOperands
     \/ subject = "modular" /\ Modular!Init /\ NoOperands
     \/ subject = "hash" /\ NoOperands /\ NoLimbs

SubjectNext ==
  /\ UNCHANGED subject
  /\ \/ subject = "instructions" /\ Reg!Next /\ UNCHANGED <<vars, limbs>>
     \/ subject = "limbs" /\ Short!Next /\ UNCHANGED <<vars, operands>>
     \/ subject = "division" /\ Dividing!Next /\ UNCHANGED <<vars, operands>>
     \/ subject = "modular" /\ Modular!Next /\ UNCHANGED <<vars, operands>>
     \/ subject = "hash" /\ Next /\ UNCHANGED <<operands, limbs>>

SubjectSpec == SubjectInit /\ [][SubjectNext]_all

--------------------------------------------------------------------------------

\* The masks and loops of the instructions move bits as the instruction set says: AND, OR,
\* XOR and NOT combine low bits pair by pair and leave the rest, SBIT and CBIT change one bit
\* modulo the width of a register, shifts and rotations move every bit by their distance and
\* carry the one that left, SWE reverses the bytes (InstructionDefsV2).
BitsAsTold ==
  subject = "instructions" =>
    Reg!LogicIsPointwise /\ Reg!OneBitChanges /\ Reg!ShiftsMoveBits /\ Reg!SweReverses

\* ADDP and SUBP are inverse modulo R31 for reduced operands, and SCB leaves a number
\* congruent to the scalar, of which no carry has been cut.
CongruentResults == subject = "instructions" => Reg!SubPInvertsAddP /\ Reg!BlindedScalarCongruent

\* Limb by limb, uintwide_t computes with numbers modulo the width: carries and borrows run
\* through every limb, products are right though no limb above the width is computed,
\* shifts at, across and beyond the borders of limbs, comparison and bitwise operators.
LimbsAreNumbers ==
  subject = "limbs" =>
    Short!SumsWrap /\ Short!ProductsWrap /\ Short!ShiftsExact /\ Short!OrderAndBits

\* Quotient and remainder are exact, whatever was estimated, corrected or added back; the
\* double width holds a product of registers, and its remainder fits a register.
DivisionsExact ==
  /\ subject = "limbs" => Short!DivisionExact
  /\ subject = "division" => Dividing!DivisionExact
  /\ subject = "modular" => Modular!ModularProductExact
================================================================================
