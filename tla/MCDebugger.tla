------------------------------- MODULE MCDebugger -------------------------------
(* A program of three instructions of two bytes: a loop with a shorter way back, *)
(* a label on its second instruction, one of hexadecimal digits on its third.    *)
EXTENDS Debugger
CONSTANTS loop, add, size, nowhere

MCSuccessors(p) == CASE p = 2 -> {4} [] p = 4 -> {6, 2} [] p = 6 -> {2} [] OTHER -> {}
MCNames == {loop, add, size, nowhere}
MCHexNames == {add}
MCLabels == {loop, add}
MCSymbols == {loop, add, size}
MCSymbolValue == [s \in MCSymbols |-> CASE s = loop -> 4 [] s = add -> 6 [] s = size -> 4]
MCNumbers == {2, 4, 5}
================================================================================
