------------------------------ MODULE InstructionText ------------------------------
(*****************************************************************************)
(* The arguments of an instruction as text: the loop of ParseInstruction     *)
(* that splits them at commas and puts each into its field, and Dump, which  *)
(* writes them back.                                                         *)
(*                                                                           *)
(* A text is the sequence of pieces between its commas. A piece is nothing,  *)
(* a register, a decimal number or anything else, which is taken for the     *)
(* name of a symbol. Field k of an instruction is there if k is in the mask  *)
(* (bit 3 - k of op_mask_).                                                  *)
(*****************************************************************************)
EXTENDS Integers, Sequences, FiniteSets, SequencesExt

CONSTANTS
  Registers, Numbers,   \* values an argument is given
  MaxPieces             \* bound: pieces of a line of a source file

TextAssumption ==
  /\ Registers \subseteq 0 .. 31 /\ Numbers \subseteq 0 .. 65535 /\ MaxPieces \in Nat

Nothing == <<"nothing", 0>>
Register(n) == <<"register", n>>
Number(n) == <<"number", n>>
Symbol(n) == <<"symbol", n>>

Pieces == {Nothing, Symbol(0)} \cup {Register(n) : n \in Registers} \cup {Number(n) : n \in Numbers}

\* The shapes of instructions in the tables of the factory.
Shapes ==
  ({"R"} \X {{1, 2, 3}, {1, 2}, {1}, {2, 3}, {2}}) \cup ({"I"} \X {{1, 2, 3}, {2, 3}, {1, 3}, {}})
    \cup {<<"M", {1, 2}>>} \cup ({"J"} \X {{1}, {}})

VARIABLES
  shape,          \* itype_ and op_mask_ of the instruction
  given,          \* the fields of an instruction that was dumped, or <<>>
  printer,        \* who wrote the text: a user, an instruction's Dump or a program's
  text, line_buf, \* the arguments as written, and what is left of them
  arg_index, skipped_args,
  fields,         \* op1_, op2_, op3_ or what stands for them
  outcome         \* "none", "parsing", "accepted" or "rejected"

vars == <<shape, given, printer, text, line_buf, arg_index, skipped_args, fields, outcome>>

Mask == shape[2]

Unset == [k \in 1 .. 3 |-> Nothing]

Init ==
  /\ shape \in Shapes
  /\ given = <<>> /\ printer = "none" /\ text = <<>> /\ line_buf = <<>>
  /\ arg_index = 1 /\ skipped_args = 0 /\ fields = Unset /\ outcome = "none"

IsOperand(k) == shape[1] = "R" \/ (shape[1] = "I" /\ k < 3) \/ (shape[1] = "M" /\ k = 1)

--------------------------------------------------------------------------------
(* Dump *)

\* What a number means to a reader of decimals when it is printed in hexadecimal without a
\* prefix: with a letter in it, it is a symbol.
DecimalReading(n) ==
  LET digit(k) == (n \div 16^k) % 16
  IN IF \E k \in 0 .. 3 : digit(k) > 9 THEN Symbol(n)
     ELSE Number(digit(0) + 10 * digit(1) + 100 * digit(2) + 1000 * digit(3))

\* A program's Dump leaves its stream hexadecimal; printing a register makes it decimal.
Written(who, piece, k) ==
  IF who = "program" /\ piece[1] = "number" /\ \A j \in Mask : j < k => ~IsOperand(j)
  THEN DecimalReading(piece[2]) ELSE piece

\* The place of a field among those of the instruction, and back.
Place(k) == Cardinality({j \in Mask : j <= k})
FieldAt(n) == CHOOSE k \in Mask : Place(k) = n

\* Fields 2 and 3 are written behind a comma.
Dump(who, i) ==
  LET pieces == [n \in 1 .. Cardinality(Mask) |-> Written(who, i[FieldAt(n)], FieldAt(n))]
  IN IF 1 \notin Mask /\ Mask # {} THEN <<Nothing>> \o pieces ELSE pieces

Instructions ==
  {i \in [1 .. 3 -> Pieces] :
     \A k \in 1 .. 3 : IF k \notin Mask THEN i[k] = Nothing
                       ELSE i[k][1] = IF IsOperand(k) THEN "register" ELSE "number"}

--------------------------------------------------------------------------------
(* ParseInstruction *)

WriteLine ==
  /\ outcome = "none"
  /\ text' \in BoundedSeq(Pieces, MaxPieces) /\ line_buf' = text'
  /\ printer' = "user" /\ outcome' = "parsing"
  /\ UNCHANGED <<shape, given, arg_index, skipped_args, fields>>

DumpAndRead ==
  /\ outcome = "none"
  /\ given' \in Instructions /\ printer' \in {"instruction", "program"}
  /\ text' = Dump(printer', given') /\ line_buf' = text'
  /\ outcome' = "parsing"
  /\ UNCHANGED <<shape, arg_index, skipped_args, fields>>

Empty == line_buf \in {<<>>, <<Nothing>>}

TooMany == arg_index > Cardinality(Mask) + skipped_args

Reject == outcome' = "rejected" /\ UNCHANGED <<shape, given, printer, text, line_buf, arg_index, skipped_args, fields>>

TooManyArguments == outcome = "parsing" /\ ~Empty /\ TooMany /\ Reject

\* Mutant: a missing field is passed over without being counted.
SkipUncounted == [at |-> IF arg_index \in Mask THEN arg_index ELSE arg_index + 1, count |-> skipped_args]

\* The field the next argument belongs to, and how many have been passed over.
Skip ==
  LET wanted == {k \in Mask : k >= arg_index}
      at == IF wanted = {} THEN arg_index ELSE CHOOSE k \in wanted : \A j \in wanted : k <= j
  IN [at |-> at, count |-> skipped_args + (at - arg_index)]

\* ParseOp takes registers only, ParseValue everything else.
Fits(k, piece) == IsOperand(k) <=> (piece[1] = "register")

ParseArgument ==
  /\ outcome = "parsing" /\ ~Empty /\ ~TooMany
  /\ IF Fits(Skip.at, Head(line_buf))
     THEN /\ fields' = [fields EXCEPT ![Skip.at] = Head(line_buf)]
          /\ line_buf' = Tail(line_buf)
          /\ arg_index' = Skip.at + 1 /\ skipped_args' = Skip.count
          /\ UNCHANGED <<shape, given, printer, text, outcome>>
     ELSE Reject

Finish ==
  /\ outcome = "parsing" /\ Empty
  /\ outcome' = IF arg_index <= Cardinality(Mask) + skipped_args THEN "rejected" ELSE "accepted"
  /\ UNCHANGED <<shape, given, printer, text, line_buf, arg_index, skipped_args, fields>>

Next == WriteLine \/ DumpAndRead \/ TooManyArguments \/ ParseArgument \/ Finish

Spec == Init /\ [][Next]_vars

--------------------------------------------------------------------------------

\* Types. The index never passes the bits of the mask, which the loop shifts by it.
TypeOK ==
  /\ arg_index \in 1 .. 4 /\ skipped_args \in 0 .. 2
  /\ DOMAIN fields = 1 .. 3 /\ outcome \in {"none", "parsing", "accepted", "rejected"}

Arguments == IF text # <<>> /\ Last(text) = Nothing THEN Front(text) ELSE text

\* A line is accepted exactly if it has one argument of the right kind for every field the
\* instruction has, one comma at its end aside, and each argument is then in its field,
\* whichever fields the instruction lacks.
ArgumentsLand ==
  LET right == Len(Arguments) = Cardinality(Mask) /\ \A k \in Mask : Fits(k, Arguments[Place(k)])
  IN /\ outcome = "accepted" =>
          right /\ fields = [k \in 1 .. 3 |-> IF k \in Mask THEN Arguments[Place(k)] ELSE Nothing]
     /\ outcome = "rejected" => ~right

ReadsBack == outcome \in {"accepted", "rejected"} => outcome = "accepted" /\ fields = given

Fieldless == Mask = {}
FirstIsOperand == 1 \in Mask /\ IsOperand(1)

\* What an instruction with a first field, or without any, dumps is read as the instruction;
\* also what the dump of a program has of it behind an address, unless it begins with a
\* number, which is in the base that the address left.
DumpsReadBack ==
  ( \/ printer = "instruction" /\ (1 \in Mask \/ Fieldless)
    \/ printer = "program" /\ (FirstIsOperand \/ Fieldless) ) => ReadsBack

\* "Instruction as it would be written in .S file", of every instruction.
DumpAsWritten == printer = "instruction" => ReadsBack

\* "Dump compiled program (.s file with addresses)", of instructions that have a first field.
ProgramDumpIsSource == (printer = "program" /\ 1 \in Mask) => ReadsBack
================================================================================
