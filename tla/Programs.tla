--------------------------------- MODULE Programs ---------------------------------
(*****************************************************************************)
(* Programs as the hosts of the simulator see them: a source file becomes    *)
(* words of the instruction memory.                                          *)
(*                                                                           *)
(* Addresses are words of the instruction memory.  Of an instruction only    *)
(* the parity of its bits is kept, the parity bit apart.  A source file is   *)
(* well formed or not, and defines _start at one of its instructions or not. *)
(*****************************************************************************)
EXTENDS Integers, Sequences

CONSTANTS Base, Size,    \* the instruction memory
          None           \* an option that is not given, a symbol that is not defined

ASSUME ProgramsAssumption == Base \in Nat /\ Size \in Nat \ {0} /\ None \notin Nat

Words == Base .. Base + Size - 1
Parities == {"NONE", "ODD", "EVEN"}
Erased == [ones |-> 0, bit |-> 0]

ComputeParity(type, ones) ==
  CASE type = "NONE" -> 0 [] type = "ODD" -> (ones + 1) % 2 [] OTHER -> ones % 2

CheckParity(type, word) ==
  type = "NONE" \/ (word.ones + word.bit) % 2 = (IF type = "ODD" THEN 1 ELSE 0)

\* An error of the compiler throws; all of these come before anything is assembled.
Compiles(first, file, defined) ==
  /\ first \in Base .. Base + Size
  /\ file.valid
  /\ file.start # None => defined = None
  /\ first + Len(file.ones) <= Base + Size

\* A source file: the parity of each instruction, and which one _start stands before.
SourceFile(file) ==
  /\ file.ones \in Seq({0, 1})
  /\ file.valid /\ file.start # None => file.start \in 0 .. Len(file.ones) - 1

Assembled(mem, first, file, type) ==
  [a \in Words |->
     IF a - first + 1 \in DOMAIN file.ones
     THEN LET ones == file.ones[a - first + 1] IN [ones |-> ones, bit |-> ComputeParity(type, ones)]
     ELSE mem[a]]

WithHexFile(mem, hex) ==
  [a \in Words |-> IF a - hex.first + 1 \in DOMAIN hex.words THEN hex.words[a - hex.first + 1]
                   ELSE mem[a]]
===================================================================================
