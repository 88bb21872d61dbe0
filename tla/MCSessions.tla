-------------------------------- MODULE MCSessions --------------------------------
(*****************************************************************************)
(* Sessions with the model: sequences of calls in any order.  The subject is *)
(* chosen at the beginning; the variables of the others are unused.          *)
(*   dpi       the calls of the DPI library (DpiCalls)                       *)
(*   iss       the options of spect_iss, and the calls of the ISS library    *)
(*             that stand for them (IssSession)                              *)
(*   operands  single steps: what is told of the last instruction (Stepping) *)
(*   timing    single steps: measured durations (Stepping)                   *)
(*****************************************************************************)
EXTENDS DpiCalls, FiniteSets

CONSTANTS Filled, HexFiles, StartPcs, Limits,
          IssFiles, IssFirstAddrs,    \* of the session with spect_iss
          OperandSteps, TimingSteps   \* registers, values and bounds of the single steps

VARIABLES
  subject,
  executed,                                                             \* iss, stepping
  first_addr_, parity_type_, simulator, host, given, ordered,           \* iss
  instrCnt, timingAccurate, goldCycles, lastInstr, rv, measured, models \* stepping

dpiOnly   == <<handle, parity, mem, startPc, symbol, hexFile, told, flow, buffer>>
core      == <<pc, gpr>>   \* of dpi and stepping
issVars   == <<first_addr_, parity_type_, simulator, host, given, ordered>>
stepVars  == <<instrCnt, timingAccurate, goldCycles, lastInstr, rv, measured, models>>
callVars  == <<subject, dpiOnly, core, executed, issVars, stepVars>>

--------------------------------------------------------------------------------
(* Programs of one or two instructions of either parity, with and without       *)
(* _start, one that does not compile and one that is not there.                 *)

MCFiles == {[exists |-> TRUE, valid |-> TRUE, start |-> 1, ones |-> <<1, 0>>],
            [exists |-> TRUE, valid |-> TRUE, start |-> None, ones |-> <<1>>],
            [exists |-> TRUE, valid |-> FALSE, start |-> 0, ones |-> <<>>],
            [exists |-> FALSE, valid |-> FALSE, start |-> None, ones |-> <<>>]}
MCMemTypes == {"RAM_IN", "INSTR"}
MCMemBase == [m \in MCMemTypes |-> IF m = "INSTR" THEN 8 ELSE 0]

MCIssFiles == {[valid |-> TRUE, start |-> 1, ones |-> <<0, 1>>],
               [valid |-> TRUE, start |-> None, ones |-> <<1, 0>>],
               [valid |-> FALSE, start |-> None, ones |-> <<>>]}
MCHexFiles == {[first |-> 8, words |-> <<[ones |-> 1, bit |-> 1]>>]}

Kind(name, type, uses, r31Dep, constantTime, cycles) ==
  [name |-> name, type |-> type, uses |-> uses, r31Dep |-> r31Dep,
   constantTime |-> constantTime, cycles |-> cycles]

\* One mnemonic of each shape.
OperandKinds ==
  {Kind("ADDP", "R", {1, 2, 3}, TRUE, TRUE, 2), Kind("CMP", "R", {2, 3}, FALSE, TRUE, 1),
   Kind("LDK", "I", {1, 2, 3}, FALSE, FALSE, 2), Kind("MOVI", "I", {1, 3}, FALSE, TRUE, 1),
   Kind("LD", "M", {1, 2}, FALSE, FALSE, 2), Kind("JMP", "J", {1}, FALSE, TRUE, 1)}

TimingKinds ==
  {Kind("JMP", "J", {1}, FALSE, TRUE, 1), Kind("RET", "J", {}, FALSE, TRUE, 2),
   Kind("GRV", "J", {}, FALSE, FALSE, 2)}

\* Two registers and operands that coincide, two instructions, the first at the limit.
MCOperandSteps ==
  [regs |-> {0, 31}, r31 |-> 31, vals |-> {0, 101}, pcs |-> {0, 8}, kinds |-> OperandKinds,
   durations |-> {0}, limit |-> 1, steps |-> 2, models |-> 1]

\* Two models one after the other, four instructions, the third at the limit.
MCTimingSteps ==
  [regs |-> {0}, r31 |-> 0, vals |-> {0}, pcs |-> {0}, kinds |-> TimingKinds,
   durations |-> 0 .. 3, limit |-> 3, steps |-> 4, models |-> 2]

--------------------------------------------------------------------------------
(* The sessions, of any parameters *)

Iss == INSTANCE IssSession WITH Files <- IssFiles, FirstAddrs <- IssFirstAddrs

Operands == INSTANCE Stepping WITH
  Regs <- OperandSteps.regs, R31 <- OperandSteps.r31, Vals <- OperandSteps.vals,
  PCs <- OperandSteps.pcs, Kinds <- OperandSteps.kinds, Durations <- OperandSteps.durations,
  MaxInstrCnt <- OperandSteps.limit, MaxSteps <- OperandSteps.steps,
  MaxModels <- OperandSteps.models

Timing == INSTANCE Stepping WITH
  Regs <- TimingSteps.regs, R31 <- TimingSteps.r31, Vals <- TimingSteps.vals,
  PCs <- TimingSteps.pcs, Kinds <- TimingSteps.kinds, Durations <- TimingSteps.durations,
  MaxInstrCnt <- TimingSteps.limit, MaxSteps <- TimingSteps.steps,
  MaxModels <- TimingSteps.models

ASSUME SessionsAssumption ==
  Iss!IssAssumption /\ Operands!SteppingAssumption /\ Timing!SteppingAssumption


Unused == 0
NoDpi  == /\ handle = Unused /\ parity = Unused /\ mem = Unused /\ startPc = Unused
          /\ symbol = Unused /\ hexFile = Unused /\ told = Unused /\ compiled = Unused
          /\ stage = Unused /\ buffer = Unused
NoIss  == /\ first_addr_ = Unused /\ parity_type_ = Unused /\ simulator = Unused /\ host = Unused
          /\ given = Unused /\ ordered = Unused
NoStep == /\ instrCnt = Unused /\ timingAccurate = Unused /\ goldCycles = Unused
          /\ lastInstr = Unused /\ rv = Unused /\ measured = Unused /\ models = Unused

CallInit ==
  \/ subject = "dpi" /\ Init /\ executed = Unused /\ NoIss /\ NoStep
  \/ subject = "iss" /\ Iss!Init /\ NoDpi /\ pc = Unused /\ gpr = Unused /\ NoStep
  \/ subject = "operands" /\ Operands!Init /\ NoDpi /\ NoIss
  \/ subject = "timing" /\ Timing!Init /\ NoDpi /\ NoIss

CallNext ==
  /\ UNCHANGED subject
  /\ \/ subject = "dpi" /\ Next /\ UNCHANGED <<executed, issVars, stepVars>>
     \/ subject = "iss" /\ Iss!Next /\ UNCHANGED <<dpiOnly, core, stepVars>>
     \/ subject = "operands" /\ Operands!Next /\ UNCHANGED <<dpiOnly, issVars>>
     \/ subject = "timing" /\ Timing!Next /\ UNCHANGED <<dpiOnly, issVars>>

CallSpec == CallInit /\ [][CallNext]_callVars

--------------------------------------------------------------------------------

\* A program that is compiled, loaded and started the way the header of the DPI library
\* describes is fetched at its _start with a parity the model accepts, also after other
\* programs, failures, resets and sessions (spect_dpi_compile_program and the calls after);
\* so is one that is given to spect_iss, whatever the options say (main).
ProgramsReachStart ==
  /\ subject = "dpi" => FlowReachesStart
  /\ subject = "iss" => Iss!StartsAtStart

\* Library calls in the order of main make the session that main makes of the options they
\* stand for, also in the second session of a process.
CallsMakeSession == subject = "iss" => Iss!OrderedCallsEquivalent

\* The last instruction is told with the operands it was fetched with and the values they
\* had, also where operands coincide (SampleInputs, SampleOutputs).
StepsTellInstruction == subject = "operands" => Operands!InstructionTold

\* A constant-time instruction that takes another time than the last of its mnemonic is
\* reported with the earlier one, and no other is (StepSingle with cycles).
StepsTellDurations == subject = "timing" => Timing!ChangedDurationReported
================================================================================
