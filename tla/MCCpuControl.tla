----------------------------- MODULE MCCpuControl ------------------------------
(* Small instances of CpuControl.  Instruction memory is words 1 to 3 of a    *)
(* space of 5, so a program can run off either end of it.                     *)
EXTENDS CpuControl

I(op)        == [op |-> op, flag |-> "Z", val |-> TRUE, tgt |-> 0]
Jump(op, a)  == [op |-> op, flag |-> "Z", val |-> TRUE, tgt |-> a]
Branch(v, a) == [op |-> "BR", flag |-> "Z", val |-> v, tgt |-> a]

MCFlags == {"Z"}

\* Ends at once, ends after two, loops while Z is set, runs off the end, is
\* invalid in the middle.
MCPrograms ==
  { <<I("END"), I("END"), I("END")>>,
    <<I("DATA"), Branch(TRUE, 1), I("END")>>,
    <<Branch(FALSE, 3), I("DATA"), Jump("JMP", 2)>>,
    <<I("DATA"), I("INVALID"), I("END")>> }

\* A subroutine, two levels of calls, and a RET with nothing to return to.
MCCallPrograms ==
  { <<Jump("CALL", 3), I("END"), I("RET")>>,
    <<Jump("CALL", 2), Jump("CALL", 3), I("RET")>>,
    <<I("RET"), Jump("CALL", 1), I("END")>> }

MCAllPrograms == MCPrograms \cup MCCallPrograms

OnePatch == {I("INVALID")}
NoPatches == {}

MCHostPcs == {1, 2}
OneHostPc == {1}

\* A context with one or no frame on the stack.
NoContexts == {}
MCContexts == {[rar |-> [i \in RarIndex |-> 2], sp |-> s,
                flags |-> [f \in Flags |-> TRUE]] : s \in 0 .. 1}

MCStepCounts == {0, 1, 2}
================================================================================
