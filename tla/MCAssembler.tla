------------------------------- MODULE MCAssembler -------------------------------
(* Programs of a few lines with two symbols and one condition besides the ISA     *)
(* version, placed in an instruction memory of two instructions.                  *)
EXTENDS Assembler

\* A symbol whose name is made of hexadecimal digits: a constant may be given as it.
CONSTANT x

MCConstants == {<<"decimal", 1>>, <<"leading zero", 7>>, <<"name", x>>}
================================================================================
