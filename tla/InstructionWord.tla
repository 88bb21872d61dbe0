------------------------------ MODULE InstructionWord ------------------------------
(*****************************************************************************)
(* Instructions as words of the instruction memory: the factory's tables,    *)
(* Assemble and DisAssemble of the four types, the parity bit, and the       *)
(* objects of key-bus changes, which are packed into a word the same way.    *)
(*                                                                           *)
(* A word is the set of its bits that are 1: or is union, exclusive or the   *)
(* symmetric difference, and a shift moves every bit.                        *)
(*****************************************************************************)
EXTENDS Integers, FiniteSets, Sequences, FiniteSetsExt

CONSTANTS
  Operands, Immediates, Addresses,   \* values an instruction is given
  Offsets                            \* word offsets of key-bus transactions

ASSUME WordAssumption ==
  /\ Operands \subseteq 0 .. 31 /\ Immediates \subseteq Nat /\ Addresses \subseteq Nat
  /\ Offsets \subseteq 0 .. 255

\* What ^ is, for the bits of a field: the provers do not know it.
ASSUME FieldPowersAssumption == 2^0 = 1 /\ \A n \in 0 .. 16 : 2^(n + 1) = 2 * 2^n

ParityTypes == {"NONE", "ODD", "EVEN"}
Bits == 0 .. 31

--------------------------------------------------------------------------------
(* Fields *)

Shr(w, n) == {b - n : b \in {c \in w : c >= n}}
Shl(w, n) == {b + n : b \in w} \cap Bits
Xor(v, w) == (v \ w) \cup (w \ v)

BitsOf(n) == {b \in Bits : b < 17 /\ (n \div 2^b) % 2 = 1}
NumberOf(w) ==
  LET upto[b \in 0 .. 17] ==
        IF b = 0 THEN 0 ELSE upto[b - 1] + (IF b - 1 \in w THEN 2^(b - 1) ELSE 0)
  IN upto[17]

\* (value & mask) << offset, and back.
Put(n, bits, offset) == Shl({b \in BitsOf(n) : b < bits}, offset)
Get(w, bits, offset) == NumberOf({b \in Shr(w, offset) : b < bits})

TypeField == [bits |-> 2, offset |-> 29]
OpcodeField == [bits |-> 4, offset |-> 25]
FuncField == [bits |-> 3, offset |-> 22]
ParityOffset == 31

\* Where each type keeps its operands, as op1_, op2_, op3_ or what stands for them.
TypeFields ==
  [R |-> << [bits |-> 5, offset |-> 17], [bits |-> 5, offset |-> 12], [bits |-> 5, offset |-> 7] >>,
   I |-> << [bits |-> 5, offset |-> 17], [bits |-> 5, offset |-> 12], [bits |-> 12, offset |-> 0] >>,
   M |-> << [bits |-> 5, offset |-> 17], [bits |-> 16, offset |-> 0] >>,
   J |-> << [bits |-> 16, offset |-> 0] >>]

TypeCode == [R |-> 3, I |-> 1, M |-> 2, J |-> 0]

--------------------------------------------------------------------------------
(* The tables of the factory: mnemonic, type, opcode, func, operand mask *)

SharedTable == <<
  <<"ADD", "R", 1, 1, "111">>, <<"SUB", "R", 2, 1, "111">>, <<"CMP", "R", 4, 1, "011">>,
  <<"AND", "R", 1, 2, "111">>, <<"OR", "R", 2, 2, "111">>, <<"XOR", "R", 4, 2, "111">>,
  <<"NOT", "R", 8, 2, "110">>, <<"LSL", "R", 1, 4, "110">>, <<"LSR", "R", 2, 4, "110">>,
  <<"ROL", "R", 5, 4, "110">>, <<"ROR", "R", 6, 4, "110">>, <<"ROL8", "R", 9, 4, "110">>,
  <<"ROR8", "R", 10, 4, "110">>, <<"SWE", "R", 12, 4, "110">>, <<"MOV", "R", 1, 5, "110">>,
  <<"CSWAP", "R", 3, 5, "110">>, <<"HASH", "R", 5, 7, "110">>, <<"GRV", "R", 9, 7, "100">>,
  <<"SCB", "R", 15, 7, "111">>, <<"MUL25519", "R", 3, 6, "111">>, <<"MUL256", "R", 7, 6, "111">>,
  <<"ADDP", "R", 13, 6, "111">>, <<"SUBP", "R", 14, 6, "111">>, <<"MULP", "R", 15, 6, "111">>,
  <<"REDP", "R", 12, 6, "111">>, <<"ADDI", "I", 1, 1, "111">>, <<"SUBI", "I", 2, 1, "111">>,
  <<"CMPI", "I", 4, 1, "011">>, <<"ANDI", "I", 1, 2, "111">>, <<"ORI", "I", 2, 2, "111">>,
  <<"XORI", "I", 4, 2, "111">>, <<"MOVI", "I", 1, 5, "101">>, <<"HASH_IT", "I", 6, 7, "000">>,
  <<"LD", "M", 2, 5, "110">>, <<"ST", "M", 4, 5, "110">>, <<"CALL", "J", 1, 0, "100">>,
  <<"RET", "J", 2, 0, "000">>, <<"BRZ", "J", 4, 0, "100">>, <<"BRNZ", "J", 5, 0, "100">>,
  <<"BRC", "J", 6, 0, "100">>, <<"BRNC", "J", 7, 0, "100">>, <<"JMP", "J", 12, 0, "100">>,
  <<"END", "J", 9, 7, "000">>, <<"NOP", "J", 10, 7, "000">> >>

TableV1 == SharedTable \o << <<"CMPA", "I", 8, 5, "011">>, <<"GPK", "I", 10, 7, "101">> >>

TableV2 == SharedTable \o <<
  <<"SBIT", "R", 1, 3, "111">>, <<"CBIT", "R", 2, 3, "111">>, <<"ROLIN", "R", 14, 4, "111">>,
  <<"RORIN", "R", 13, 4, "111">>, <<"LDR", "R", 2, 5, "110">>, <<"STR", "R", 4, 5, "110">>,
  <<"ZSWAP", "R", 7, 5, "110">>, <<"TMAC_IT", "R", 1, 7, "010">>, <<"TMAC_UP", "R", 4, 7, "010">>,
  <<"TMAC_RD", "R", 8, 7, "100">>, <<"TMAC_IS", "I", 2, 7, "011">>, <<"LDK", "I", 10, 7, "111">>,
  <<"STK", "I", 11, 7, "111">>, <<"KBO", "I", 12, 7, "011">>, <<"BRE", "J", 14, 0, "100">>,
  <<"BRNE", "J", 15, 0, "100">> >>

InstrEncode(type, opcode, func) ==
  Put(func, FuncField.bits, FuncField.offset) \cup Put(opcode, OpcodeField.bits, OpcodeField.offset)
    \cup Put(type, TypeField.bits, TypeField.offset)

EncodingOf(row) == InstrEncode(TypeCode[row[2]], row[3], row[4])

\* The table of an ISA version, keyed by the encoding: a later entry replaces an earlier.
Register(table) ==
  LET keys == {EncodingOf(table[k]) : k \in DOMAIN table}
  IN [e \in keys |-> table[Max({k \in DOMAIN table : EncodingOf(table[k]) = e})]]

Factory == <<Register(TableV1), Register(TableV2)>>

--------------------------------------------------------------------------------
(* Parity *)

Folded(w) ==
  LET b1 == Xor(w, Shr(w, 1))
      b2 == Xor(b1, Shr(b1, 2))
      b4 == Xor(b2, Shr(b2, 4))
      b8 == Xor(b4, Shr(b4, 8))
  IN Xor(b8, Shr(b8, 16))

\* Mutant: odd parity is taken for none.
CheckParityEven(parity, w) == parity # "EVEN" \/ 0 \notin Folded(w)

CheckParity(parity, w) == parity = "NONE" \/ ((0 \in Folded(w)) <=> (parity = "ODD"))

ComputeParity(parity, w) ==
  CASE parity = "NONE" -> FALSE
    [] parity = "ODD" -> 0 \notin Folded(w)
    [] parity = "EVEN" -> 0 \in Folded(w)

--------------------------------------------------------------------------------
(* Words *)

Fields(type) == TypeFields[type]

Assemble(parity, i) ==
  LET w == EncodingOf(i.row)
             \cup UNION {Put(i.args[k], Fields(i.row[2])[k].bits, Fields(i.row[2])[k].offset) :
                           k \in DOMAIN i.args}
  IN IF ComputeParity(parity, w) THEN w \cup {ParityOffset} ELSE w

NoInstruction == [row |-> <<>>, args |-> <<>>]

DisAssemble(isa, parity, w) ==
  LET e == InstrEncode(Get(w, TypeField.bits, TypeField.offset),
                       Get(w, OpcodeField.bits, OpcodeField.offset),
                       Get(w, FuncField.bits, FuncField.offset))
      row == Factory[isa][e]
  IN IF ~CheckParity(parity, w) \/ e \notin DOMAIN Factory[isa]
     THEN NoInstruction
     ELSE [row |-> row,
           args |-> [k \in DOMAIN Fields(row[2]) |->
                       Get(w, Fields(row[2])[k].bits, Fields(row[2])[k].offset)]]

\* What the fields of an instruction can hold of its arguments.
Held(i) == [i EXCEPT !.args = [k \in DOMAIN @ |-> @[k] % 2^(Fields(i.row[2])[k].bits)]]

--------------------------------------------------------------------------------
(* Objects of key-bus changes *)

KbusObjEncode(op, type, slot, offset) ==
  BitsOf(op) \cup Shl(BitsOf(type), 5) \cup Shl(BitsOf(slot), 9) \cup Shl(BitsOf(4 * offset), 17)

\* dpi_change_obj_to_str
KbusObjDecode(w) == <<Get(w, 5, 0), Get(w, 4, 5), Get(w, 8, 9), Get(w, 5, 17)>>

--------------------------------------------------------------------------------
(* A word on its way from the assembler to the core, and a change to its reader *)

VARIABLES isa, instr, parity, word, flipped, decoded, sent, told

vars == <<isa, instr, parity, word, flipped, decoded, sent, told>>

Init ==
  /\ isa \in {1, 2} /\ parity \in ParityTypes
  /\ instr = NoInstruction /\ word = {} /\ flipped = FALSE /\ decoded = <<>>
  /\ sent = <<>> /\ told = <<>>

Rows == IF isa = 1 THEN TableV1 ELSE TableV2

\* Operands the mask leaves out stay R0 or 0, as the factory's instruction has them.
ArgsOf(row) ==
  LET values == [R |-> <<Operands, Operands, Operands>>, I |-> <<Operands, Operands, Immediates>>,
                 M |-> <<Operands, Addresses>>, J |-> <<Addresses>>][row[2]]
      given == [k \in DOMAIN values |-> IF SubSeq(row[5], k, k) = "1" THEN values[k] ELSE {0}]
  IN {a \in [DOMAIN values -> UNION {given[k] : k \in DOMAIN given}] : \A k \in DOMAIN a : a[k] \in given[k]}

AssembleOne ==
  /\ instr = NoInstruction /\ sent = <<>>
  /\ \E k \in DOMAIN Rows : \E a \in ArgsOf(Rows[k]) : instr' = [row |-> Rows[k], args |-> a]
  /\ word' = Assemble(parity, instr')
  /\ UNCHANGED <<isa, parity, flipped, decoded, sent, told>>

\* The memory of the core returns one bit wrong.
FlipBit ==
  /\ instr # NoInstruction /\ ~flipped /\ decoded = <<>>
  /\ \E b \in Bits : word' = Xor(word, {b})
  /\ flipped' = TRUE /\ UNCHANGED <<isa, instr, parity, decoded, sent, told>>

FetchOne ==
  /\ instr # NoInstruction /\ decoded = <<>>
  /\ \E p \in ParityTypes : decoded' = <<p, DisAssemble(isa, p, word)>>
  /\ UNCHANGED <<isa, instr, parity, word, flipped, sent, told>>

ReportKbus ==
  /\ instr = NoInstruction /\ sent = <<>>
  /\ \E op \in {16, 17}, type \in {0, 5, 15}, slot \in {0, 255}, o \in Offsets :
       sent' = <<op, type, slot, 4 * o>> /\ told' = KbusObjDecode(KbusObjEncode(op, type, slot, o))
  /\ UNCHANGED <<isa, instr, parity, word, flipped, decoded>>

Next == AssembleOne \/ FlipBit \/ FetchOne \/ ReportKbus

Spec == Init /\ [][Next]_vars

--------------------------------------------------------------------------------

\* An instruction read from an intact word by a core with the same parity, or with none,
\* is the one that was assembled, with what its fields hold of its arguments: no two
\* instructions share an encoding and no field overlaps another.
DecodesBack ==
  (decoded # <<>> /\ ~flipped /\ decoded[1] \in {parity, "NONE"}) => decoded[2] = Held(instr)

\* One wrong bit, wherever it is, makes the core see an invalid instruction if both sides
\* use the same parity; so does an intact word if they use opposite ones.
WrongParityRejected ==
  (decoded # <<>> /\ "NONE" \notin {parity, decoded[1]} /\ (flipped <=> (parity = decoded[1])))
    => decoded[2] = NoInstruction

\* "16: 9 - slot, 31:17 - offset": a reader of a key-bus change learns what it was about.
KbusObjectReadable == told = sent
================================================================================
