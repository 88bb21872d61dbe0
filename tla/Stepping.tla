--------------------------------- MODULE Stepping ---------------------------------
(*****************************************************************************)
(* What a step tells the testbench besides the state: the last instruction   *)
(* with its operands (spect_dpi_get_last_instr) and whether it took as many  *)
(* cycles as the last one of its mnemonic (spect_dpi_program_step).          *)
(*                                                                           *)
(* Durations are kept in the instruction factory, which is static: they      *)
(* outlive the model.  What an instruction computes is left open: it may     *)
(* write its first two operands and the program counter.                     *)
(*****************************************************************************)
EXTENDS Naturals, FiniteSets

CONSTANTS
  Regs, R31, Vals, PCs,
  Kinds,         \* mnemonics: type, operands used, whether R31 is read, c_time_, cycles_
  Durations,     \* cycles the testbench measures; 0 when it does not
  Filled,        \* 0xFFFFFFFF
  MaxInstrCnt,   \* max_instr_cnt_
  MaxSteps, MaxModels   \* bounds: instructions of a model, models

SteppingAssumption ==
  /\ {0, R31} \subseteq Regs /\ 0 \in Durations /\ 0 \in Vals /\ 0 \in PCs /\ Durations \subseteq Nat
  /\ {MaxInstrCnt, MaxSteps, MaxModels} \subseteq Nat /\ Filled \notin Vals \cup Regs \cup PCs
  /\ \A k \in Kinds : /\ k.type \in {"R", "I", "M", "J"} /\ k.uses \subseteq 1 .. 3 /\ k.cycles \in Nat
                      /\ k.r31Dep => k.type = "R"

VARIABLES
  gpr, pc, instrCnt, timingAccurate,
  goldCycles,    \* cycles_ of the factory's instruction of each mnemonic
  lastInstr,     \* last_instr
  rv,            \* what the last step returned
  executed,      \* history: the last instruction with registers and pc before and after
  measured,      \* history: the last cycles of each mnemonic since the model was created,
                 \* and whether the model was reset since
  models

vars == <<gpr, pc, instrCnt, timingAccurate, goldCycles, lastInstr, rv, executed, measured, models>>

Attributes == {"op1", "op2", "op3", "immediate", "addr", "old_pc", "new_pc",
               "op1_v", "op2_v", "op3_v", "r31_v"}
NoInstr == [kind |-> "none"]
Never == [cycles |-> 0, known |-> FALSE, reset |-> FALSE]

Init ==
  /\ gpr \in [Regs -> Vals] /\ pc \in PCs /\ instrCnt = 0 /\ timingAccurate \in BOOLEAN
  /\ goldCycles = [k \in Kinds |-> k.cycles]
  /\ lastInstr = [a \in Attributes |-> 0]
  /\ rv = 0 /\ executed = NoInstr /\ measured = [k \in Kinds |-> Never] /\ models = 1

\* An instruction of a kind; operands it does not use are R0 of the factory's instance.
Operand(k, n) == IF n \in k.uses THEN Regs ELSE {0}

Instrs(k) ==
  [kind : {k}, op1 : Operand(k, 1), op2 : Operand(k, 2),
   op3 : IF k.type = "R" THEN Operand(k, 3) ELSE {0}, imm : IF k.type = "R" THEN {0} ELSE PCs]

SampleR(i) ==
  [a \in Attributes |->
     CASE a = "op1" /\ 1 \in i.kind.uses -> i.op1
       [] a = "op2" /\ 2 \in i.kind.uses -> i.op2
       [] a = "op3" /\ 3 \in i.kind.uses -> i.op3
       [] a = "op2_v" /\ 2 \in i.kind.uses -> gpr[i.op2]
       [] a = "op3_v" /\ 3 \in i.kind.uses -> gpr[i.op3]
       [] a = "r31_v" /\ i.kind.r31Dep -> gpr[R31]
       [] OTHER -> Filled]

\* The value of op2 is sampled whether the instruction has one or not.
SampleI(i) ==
  [a \in Attributes |->
     CASE a = "op1" /\ 1 \in i.kind.uses -> i.op1
       [] a = "op2" /\ 2 \in i.kind.uses -> i.op2
       [] a = "immediate" /\ 3 \in i.kind.uses -> i.imm
       [] a = "op2_v" -> gpr[i.op2]
       [] OTHER -> Filled]

SampleM(i) ==
  [a \in Attributes |->
     CASE a = "op1" /\ 1 \in i.kind.uses -> i.op1
       [] a = "addr" /\ i.kind.uses \cap {1, 2} # {} -> i.imm
       [] OTHER -> Filled]

SampleJ(i) ==
  [a \in Attributes |->
     CASE a = "new_pc" /\ 1 \in i.kind.uses -> i.imm
       [] a = "old_pc" -> pc
       [] OTHER -> Filled]

SampleInputs(i) ==
  CASE i.kind.type = "R" -> SampleR(i)
    [] i.kind.type = "I" -> SampleI(i)
    [] i.kind.type = "M" -> SampleM(i)
    [] i.kind.type = "J" -> SampleJ(i)

\* Mutant: the operands are sampled together, after execution.
SampleOutputsAll(i, sampled, after) ==
  [sampled EXCEPT !["op1_v"] = IF i.kind.type # "J" /\ 1 \in i.kind.uses THEN after[i.op1] ELSE Filled,
                  !["op2_v"] = IF 2 \in i.kind.uses /\ i.kind.type \in {"R", "I"} THEN after[i.op2] ELSE @]

SampleOutputs(i, sampled, after) ==
  IF i.kind.type # "J" /\ 1 \in i.kind.uses
  THEN [sampled EXCEPT !["op1_v"] = after[i.op1]]
  ELSE sampled

\* The check of the duration, against the one remembered.
CycleCheck(k, cycles) ==
  IF k.constantTime /\ cycles > 0 /\ cycles # goldCycles[k] THEN goldCycles[k] ELSE 0

\* Mutant: a step that is not measured keeps the duration.
RememberMeasured(k, cycles) ==
  IF timingAccurate \/ cycles = 0 THEN goldCycles ELSE [goldCycles EXCEPT ![k] = cycles]

Remember(k, cycles) ==
  IF timingAccurate THEN goldCycles ELSE [goldCycles EXCEPT ![k] = cycles]

\* A counter that is past the limit goes on.
Limit == instrCnt + 1 = MaxInstrCnt

ExecuteNextInstruction(cycles) ==
  \E k \in Kinds : \E i \in Instrs(k), v1 \in Vals, v2 \in Vals, npc \in PCs :
    /\ instrCnt < MaxSteps
    /\ i.op1 # i.op2 \/ v1 = v2
    /\ gpr' = [gpr EXCEPT ![i.op1] = v1, ![i.op2] = v2] /\ pc' = npc
    /\ goldCycles' = Remember(k, cycles)
    /\ lastInstr' = SampleOutputs(i, SampleInputs(i), gpr')
    /\ instrCnt' = instrCnt + 1
    /\ rv' = IF Limit THEN 0 ELSE CycleCheck(k, cycles)
    /\ executed' = [kind |-> k, instr |-> i, before |-> gpr, after |-> gpr', from |-> pc,
                    cycles |-> cycles, prior |-> measured[k]]
    /\ measured' = [measured EXCEPT ![k] = [cycles |-> cycles, known |-> TRUE, reset |-> FALSE]]
    /\ UNCHANGED <<timingAccurate, models>>

StepSingle == \E cycles \in Durations : ExecuteNextInstruction(cycles)

\* Each instruction of Step is executed with no duration.
Step == ExecuteNextInstruction(0)

InvalidInstruction ==
  /\ rv' = 0 /\ executed' = NoInstr
  /\ UNCHANGED <<gpr, pc, instrCnt, timingAccurate, goldCycles, lastInstr, measured, models>>

\* Reset knows nothing of the factory; the last instruction stays too.
Reset ==
  /\ gpr' = [r \in Regs |-> 0] /\ pc' = 0 /\ rv' = 0 /\ executed' = NoInstr
  /\ measured' = [k \in Kinds |-> [measured[k] EXCEPT !.reset = TRUE]]
  /\ UNCHANGED <<instrCnt, timingAccurate, goldCycles, lastInstr, models>>

\* spect_dpi_exit and spect_dpi_init: a model of its own, the factory as it was.
NewModel ==
  /\ models < MaxModels /\ models' = models + 1
  /\ instrCnt' = 0 /\ rv' = 0 /\ executed' = NoInstr /\ measured' = [k \in Kinds |-> Never]
  /\ lastInstr' = [a \in Attributes |-> 0]
  /\ UNCHANGED <<gpr, pc, timingAccurate, goldCycles>>

Next == StepSingle \/ Step \/ InvalidInstruction \/ Reset \/ NewModel

Spec == Init /\ [][Next]_vars

--------------------------------------------------------------------------------

Ran == executed # NoInstr
Used(n) == n \in executed.kind.uses

\* The last instruction carries the operands it was fetched with, their values before
\* it executed and the value of its first operand after, also where operands coincide.
InstructionTold ==
  Ran => LET i == executed.instr IN
    /\ Used(1) /\ executed.kind.type # "J" =>
         lastInstr["op1"] = i.op1 /\ lastInstr["op1_v"] = executed.after[i.op1]
    /\ Used(2) /\ executed.kind.type \in {"R", "I"} =>
         lastInstr["op2"] = i.op2 /\ lastInstr["op2_v"] = executed.before[i.op2]
    /\ Used(3) /\ executed.kind.type = "R" =>
         lastInstr["op3"] = i.op3 /\ lastInstr["op3_v"] = executed.before[i.op3]
    /\ executed.kind.type = "J" => lastInstr["old_pc"] = executed.from
    /\ executed.kind.r31Dep => lastInstr["r31_v"] = executed.before[R31]

\* Once a mnemonic has been measured, a constant-time instruction of it that takes
\* another time is reported with the earlier one, and no other is; a step without a
\* measurement starts it anew.  The step that reaches the limit reports nothing.
ChangedDurationReported ==
  (Ran /\ ~timingAccurate /\ executed.prior.known /\ instrCnt # MaxInstrCnt) =>
    rv = IF executed.kind.constantTime /\ executed.cycles # 0 /\ executed.prior.cycles # executed.cycles
         THEN executed.prior.cycles ELSE 0

\* "Returned also if: 1. Instruction with the same mnemonic is executed first time since
\* model initialization."
FirstTimeIsSilent == (Ran /\ ~timingAccurate /\ ~executed.prior.known) => rv = 0

\* spect_dpi_reset: "6. Erase cycle counter for each instruction mnemonic."
ResetErasesDurations == (Ran /\ ~timingAccurate /\ executed.prior.reset) => rv = 0

\* "Model fills 0xFF to all attributes of 'dpi_instruction' which are not used by last
\* executed instruction".
UnusedAreFilled ==
  Ran =>
    /\ ~Used(2) => lastInstr["op2_v"] = Filled
    /\ ~Used(1) => lastInstr["op1_v"] = Filled
================================================================================
