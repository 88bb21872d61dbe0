------------------------------ MODULE MCCallStack ------------------------------
(* Small instances of CallStack: the programs of MCCpuControl with calls.     *)
EXTENDS CallStack

I(op)       == [op |-> op, flag |-> "Z", val |-> TRUE, tgt |-> 0]
Jump(op, a) == [op |-> op, flag |-> "Z", val |-> TRUE, tgt |-> a]

MCFlags == {"Z"}

\* A subroutine, calls that nest until the stack is full and beyond, a RET with
\* nothing to return to, a subroutine that ends the program without returning.
MCPrograms ==
  { <<Jump("CALL", 3), I("END"), I("RET")>>,
    <<Jump("CALL", 2), Jump("CALL", 3), I("RET")>>,
    <<I("RET"), Jump("CALL", 1), I("END")>>,
    <<Jump("CALL", 3), I("RET"), Jump("CALL", 2)>> }

NoPatches  == {}
NoContexts == {}
MCHostPcs  == {1, 2}
MCContexts == {[rar |-> [i \in RarIndex |-> 2], sp |-> s,
                flags |-> [f \in Flags |-> TRUE]] : s \in 0 .. 2}
MCStepCounts == {0, 1}
================================================================================
