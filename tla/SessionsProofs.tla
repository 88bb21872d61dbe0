----------------------------- MODULE SessionsProofs -----------------------------
(*****************************************************************************)
(* Proofs about the sessions with the model: for programs, memories,         *)
(* registers, mnemonics and limits of any size, what a single step tells of  *)
(* its instruction and of its duration, that a program which went through    *)
(* the flow of the DPI header is fetched at its _start, and that the calls   *)
(* of the ISS library make the session that main makes of the options.       *)
(*                                                                           *)
(* Each subject has a module of its own, instantiated in MCSessions; an      *)
(* invariant of a subject speaks of the states in which it was chosen.       *)
(*****************************************************************************)
EXTENDS MCSessions, SequenceTheorems, TLAPS

--------------------------------------------------------------------------------
(* The last instruction *)

\* A step tells the operands as they were fetched and their values before it, and the
\* value of the first after it.
LEMMA OperandsStep ==
  ASSUME NEW cycles, Operands!ExecuteNextInstruction(cycles)
  PROVE  Operands!InstructionTold'
<1> USE DEF Operands!Attributes
<1>1. PICK k \in OperandSteps.kinds : \E i \in Operands!Instrs(k) :
        /\ executed' = [kind |-> k, instr |-> i, before |-> gpr, after |-> gpr',
                        from |-> pc, cycles |-> cycles, prior |-> measured[k]]
        /\ lastInstr' = Operands!SampleOutputs(i, Operands!SampleInputs(i), gpr')
  BY DEF Operands!ExecuteNextInstruction
<1>2. PICK i \in Operands!Instrs(k) :
        /\ executed' = [kind |-> k, instr |-> i, before |-> gpr, after |-> gpr',
                        from |-> pc, cycles |-> cycles, prior |-> measured[k]]
        /\ lastInstr' = Operands!SampleOutputs(i, Operands!SampleInputs(i), gpr')
  BY <1>1
<1>3. /\ executed'.kind = k /\ executed'.instr = i /\ executed'.before = gpr
      /\ executed'.after = gpr' /\ executed'.from = pc
  BY <1>2
<1>4. /\ i.kind = k
      /\ k.type \in {"R", "I", "M", "J"}
      /\ k.r31Dep => k.type = "R"
  BY SessionsAssumption DEF Operands!SteppingAssumption, Operands!Instrs
<1> DEFINE s == Operands!SampleInputs(i)
<1>5. CASE k.type = "R"
  <2>1. s = Operands!SampleR(i)
    BY <1>4, <1>5 DEF Operands!SampleInputs
  <2>2. /\ 1 \in k.uses => s["op1"] = i.op1
        /\ 2 \in k.uses => s["op2"] = i.op2 /\ s["op2_v"] = gpr[i.op2]
        /\ 3 \in k.uses => s["op3"] = i.op3 /\ s["op3_v"] = gpr[i.op3]
        /\ k.r31Dep => s["r31_v"] = gpr[OperandSteps.r31]
        /\ s = [a \in Operands!Attributes |-> s[a]]
    BY <1>4, <2>1 DEF Operands!SampleR
  <2> QED
    BY <1>2, <1>3, <1>4, <1>5, <2>2
    DEF Operands!InstructionTold, Operands!Used, Operands!SampleOutputs
<1>6. CASE k.type = "I"
  <2>1. s = Operands!SampleI(i)
    BY <1>4, <1>6 DEF Operands!SampleInputs
  <2>2. /\ 1 \in k.uses => s["op1"] = i.op1
        /\ 2 \in k.uses => s["op2"] = i.op2 /\ s["op2_v"] = gpr[i.op2]
        /\ s = [a \in Operands!Attributes |-> s[a]]
    BY <1>4, <2>1 DEF Operands!SampleI
  <2> QED
    BY <1>2, <1>3, <1>4, <1>6, <2>2
    DEF Operands!InstructionTold, Operands!Used, Operands!SampleOutputs
<1>7. CASE k.type = "M"
  <2>1. s = Operands!SampleM(i)
    BY <1>4, <1>7 DEF Operands!SampleInputs
  <2>2. /\ 1 \in k.uses => s["op1"] = i.op1
        /\ s = [a \in Operands!Attributes |-> s[a]]
    BY <1>4, <2>1 DEF Operands!SampleM
  <2> QED
    BY <1>2, <1>3, <1>4, <1>7, <2>2
    DEF Operands!InstructionTold, Operands!Used, Operands!SampleOutputs
<1>8. CASE k.type = "J"
  <2>1. s = Operands!SampleJ(i)
    BY <1>4, <1>8 DEF Operands!SampleInputs
  <2>2. s["old_pc"] = pc
    BY <1>4, <2>1 DEF Operands!SampleJ
  <2> QED
    BY <1>2, <1>3, <1>4, <1>8, <2>2
    DEF Operands!InstructionTold, Operands!Used, Operands!SampleOutputs
<1> QED
  BY <1>4, <1>5, <1>6, <1>7, <1>8

LEMMA OperandsNext ==
  ASSUME Operands!InstructionTold,
         Operands!Next \/ UNCHANGED <<core, executed, stepVars>>
  PROVE  Operands!InstructionTold'
<1>1. CASE \E cycles : Operands!ExecuteNextInstruction(cycles)
  BY <1>1, OperandsStep
<1>2. CASE executed' = Operands!NoInstr
  BY <1>2 DEF Operands!InstructionTold, Operands!Ran
<1>3. CASE UNCHANGED <<core, executed, stepVars>>
  BY <1>3 DEF Operands!InstructionTold, Operands!Ran, Operands!Used, stepVars
<1> QED
  BY <1>1, <1>2, <1>3
  DEF Operands!Next, Operands!StepSingle, Operands!Step, Operands!InvalidInstruction,
      Operands!Reset, Operands!NewModel

\* Whatever was executed last, and after resets and with a new model, the testbench is
\* told its operands as they were fetched, the values they had before it executed and
\* the value of the first operand after, for every register file and set of mnemonics
\* and also where operands are the same register.
THEOREM LastInstructionTold == CallSpec => []StepsTellInstruction
<1>1. CallInit => StepsTellInstruction
  BY DEF CallInit, StepsTellInstruction, Operands!Init, Operands!InstructionTold,
         Operands!Ran
<1>2. StepsTellInstruction /\ [CallNext]_callVars => StepsTellInstruction'
  <2> SUFFICES ASSUME StepsTellInstruction, [CallNext]_callVars, subject' = "operands"
               PROVE  Operands!InstructionTold'
    BY DEF StepsTellInstruction
  <2>1. subject = "operands"
    BY DEF CallNext, callVars
  <2>2. Operands!Next \/ UNCHANGED <<core, executed, stepVars>>
    BY <2>1 DEF CallNext, callVars
  <2> QED
    BY <2>1, <2>2, OperandsNext DEF StepsTellInstruction
<1> QED
  BY <1>1, <1>2, PTL DEF CallSpec

--------------------------------------------------------------------------------
(* The durations *)

\* Unless timing is accurate, the factory remembers the duration each mnemonic had last
\* since the model was created.
FactoryRemembers ==
  /\ goldCycles \in [TimingSteps.kinds -> Nat]
  /\ measured \in [TimingSteps.kinds -> [cycles : Nat, known : BOOLEAN, reset : BOOLEAN]]
  /\ \A k \in TimingSteps.kinds :
       ~timingAccurate /\ measured[k].known => goldCycles[k] = measured[k].cycles

TimingInv ==
  subject = "timing" => FactoryRemembers /\ Timing!ChangedDurationReported

LEMMA TimingStep ==
  ASSUME FactoryRemembers, NEW cycles \in Nat, Timing!ExecuteNextInstruction(cycles)
  PROVE  FactoryRemembers' /\ Timing!ChangedDurationReported'
<1>0. PICK k \in TimingSteps.kinds : \E i \in Timing!Instrs(k) :
        /\ goldCycles' = Timing!Remember(k, cycles)
        /\ rv' = IF Timing!Limit THEN 0 ELSE Timing!CycleCheck(k, cycles)
        /\ instrCnt' = instrCnt + 1
        /\ measured' = [measured EXCEPT ![k] =
                          [cycles |-> cycles, known |-> TRUE, reset |-> FALSE]]
        /\ executed' = [kind |-> k, instr |-> i, before |-> gpr, after |-> gpr',
                        from |-> pc, cycles |-> cycles, prior |-> measured[k]]
        /\ UNCHANGED <<timingAccurate, models>>
  BY Zenon DEF Timing!ExecuteNextInstruction
<1>1. /\ goldCycles' = Timing!Remember(k, cycles)
      /\ rv' = IF Timing!Limit THEN 0 ELSE Timing!CycleCheck(k, cycles)
      /\ instrCnt' = instrCnt + 1
      /\ measured' = [measured EXCEPT ![k] =
                        [cycles |-> cycles, known |-> TRUE, reset |-> FALSE]]
      /\ executed'.kind = k /\ executed'.cycles = cycles
      /\ executed'.prior = measured[k]
      /\ timingAccurate' = timingAccurate
  BY <1>0
<1>2. FactoryRemembers'
  <2>1. /\ goldCycles' \in [TimingSteps.kinds -> Nat]
        /\ ~timingAccurate => goldCycles' = [goldCycles EXCEPT ![k] = cycles]
    BY <1>1 DEF FactoryRemembers, Timing!Remember
  <2>2. measured' \in [TimingSteps.kinds -> [cycles : Nat, known : BOOLEAN, reset : BOOLEAN]]
    BY <1>1 DEF FactoryRemembers
  <2>3. ASSUME NEW m \in TimingSteps.kinds, ~timingAccurate', measured'[m].known
        PROVE  goldCycles'[m] = measured'[m].cycles
    <3>1. CASE m = k
      BY <1>1, <2>1, <2>3, <3>1 DEF FactoryRemembers
    <3>2. CASE m # k
      <4>1. measured'[m] = measured[m] /\ goldCycles'[m] = goldCycles[m]
        BY <1>1, <2>1, <2>3, <3>2 DEF FactoryRemembers
      <4> QED
        BY <1>1, <2>3, <4>1 DEF FactoryRemembers
    <3> QED
      BY <3>1, <3>2
  <2> QED
    BY <2>1, <2>2, <2>3 DEF FactoryRemembers
<1>3. Timing!ChangedDurationReported'
  <2> SUFFICES ASSUME ~timingAccurate', executed'.prior.known,
                      instrCnt' # TimingSteps.limit
               PROVE  rv' = IF /\ executed'.kind.constantTime
                               /\ executed'.cycles # 0
                               /\ executed'.prior.cycles # executed'.cycles
                            THEN executed'.prior.cycles ELSE 0
    BY DEF Timing!ChangedDurationReported
  <2>1. goldCycles[k] = measured[k].cycles
    BY <1>1 DEF FactoryRemembers
  <2>2. rv' = Timing!CycleCheck(k, cycles)
    BY <1>1 DEF Timing!Limit
  <2>3. cycles > 0 <=> cycles # 0
    OBVIOUS
  <2> QED
    BY <1>1, <2>1, <2>2, <2>3 DEF Timing!CycleCheck
<1> QED
  BY <1>2, <1>3

LEMMA TimingNext ==
  ASSUME FactoryRemembers, Timing!ChangedDurationReported,
         Timing!Next \/ UNCHANGED <<core, executed, stepVars>>
  PROVE  FactoryRemembers' /\ Timing!ChangedDurationReported'
<1>1. CASE Timing!StepSingle \/ Timing!Step
  <2>1. PICK cycles \in Nat : Timing!ExecuteNextInstruction(cycles)
    BY <1>1, SessionsAssumption
    DEF Timing!StepSingle, Timing!Step, Timing!SteppingAssumption
  <2> QED
    BY <2>1, TimingStep
<1>2. ASSUME executed' = Timing!NoInstr
      PROVE  Timing!ChangedDurationReported'
  BY <1>2 DEF Timing!ChangedDurationReported, Timing!Ran
<1>3. CASE Timing!InvalidInstruction
  BY <1>2, <1>3 DEF Timing!InvalidInstruction, FactoryRemembers
<1>4. CASE Timing!Reset
  <2>1. /\ measured' \in [TimingSteps.kinds -> [cycles : Nat, known : BOOLEAN, reset : BOOLEAN]]
        /\ \A k \in TimingSteps.kinds : /\ measured'[k].known = measured[k].known
                                        /\ measured'[k].cycles = measured[k].cycles
    BY <1>4 DEF Timing!Reset, FactoryRemembers
  <2> QED
    BY <1>2, <1>4, <2>1 DEF Timing!Reset, FactoryRemembers
<1>5. CASE Timing!NewModel
  BY <1>2, <1>5 DEF Timing!NewModel, Timing!Never, FactoryRemembers
<1>6. CASE UNCHANGED <<core, executed, stepVars>>
  BY <1>6 DEF stepVars, FactoryRemembers, Timing!ChangedDurationReported, Timing!Ran
<1> QED
  BY <1>1, <1>3, <1>4, <1>5, <1>6 DEF Timing!Next

\* A constant-time instruction that takes another time than the last of its mnemonic is
\* reported with that earlier time, and no other is, across resets, unmeasured steps and
\* models; only the step that reaches the limit of instructions tells nothing.
THEOREM DurationsTold == CallSpec => []StepsTellDurations
<1>1. CallInit => TimingInv
  <2> SUFFICES ASSUME CallInit, subject = "timing"
               PROVE  FactoryRemembers /\ Timing!ChangedDurationReported
    BY DEF TimingInv
  <2>1. Timing!Init
    BY DEF CallInit
  <2>2. \A k \in TimingSteps.kinds : k.cycles \in Nat
    BY SessionsAssumption DEF Timing!SteppingAssumption
  <2> QED
    BY <2>1, <2>2 DEF Timing!Init, Timing!Never, FactoryRemembers,
                      Timing!ChangedDurationReported, Timing!Ran
<1>2. TimingInv /\ [CallNext]_callVars => TimingInv'
  <2> SUFFICES ASSUME TimingInv, [CallNext]_callVars, subject' = "timing"
               PROVE  FactoryRemembers' /\ Timing!ChangedDurationReported'
    BY DEF TimingInv
  <2>1. subject = "timing"
    BY DEF CallNext, callVars
  <2>2. Timing!Next \/ UNCHANGED <<core, executed, stepVars>>
    BY <2>1 DEF CallNext, callVars
  <2> QED
    BY <2>1, <2>2, TimingNext DEF TimingInv
<1>3. TimingInv => StepsTellDurations
  BY DEF TimingInv, StepsTellDurations
<1> QED
  BY <1>1, <1>2, <1>3, PTL DEF CallSpec

--------------------------------------------------------------------------------
(* The program of a session with the DPI library *)

\* What the compiler left of the program the flow is at: it fits the memory, the symbol
\* is that of its _start, and the hex file holds its words.
ProgramCompiled ==
  LET c == compiled
  IN /\ c.file \in Files /\ c.parity \in Parities /\ c.first \in Base .. Base + Size
     /\ c.file.valid /\ c.first + Len(c.file.ones) <= Base + Size
     /\ symbol # None
     /\ c.file.start # None => symbol = c.first + c.file.start
     /\ hexFile.type \in HexTypes
     /\ hexFile = [type |-> hexFile.type, first |-> c.first,
                   words |-> Written(c.first, c.file, c.parity)]

ProgramLoaded ==
  \A i \in DOMAIN compiled.file.ones :
    mem[compiled.first + i - 1] =
      [ones |-> compiled.file.ones[i],
       bit  |-> ComputeParity(compiled.parity, compiled.file.ones[i])]

\* Each step of the flow holds on to what those before it did.
FlowInv ==
  /\ stage \in 0 .. 5
  /\ stage >= 1 => ProgramCompiled
  /\ stage >= 2 => ProgramLoaded
  /\ stage >= 3 => told = symbol
  /\ stage >= 4 => startPc = told
  /\ stage = 5  => pc = startPc

DpiInv == subject = "dpi" /\ handle = "live" => FlowInv

LEMMA DpiInitially ==
  ASSUME Init
  PROVE  FlowInv
BY DEF Init, FlowInv

\* A compilation that ends without an error leaves the program, and its hex file holds it.
LEMMA CompileStarts ==
  ASSUME NEW f \in Files, NEW h \in HexTypes, NEW type \in ParityTypes, NEW first,
         CompileEnds(f, h, type, first)
  PROVE  FlowInv'
<1>1. /\ Compiles(first, f, symbol) /\ compiled'.file = f /\ compiled'.first = first
      /\ compiled'.parity = type /\ type \in Parities
      /\ symbol' = SymbolAfter(first, f)
      /\ stage' = 1 - CompileFinish(first, f)
      /\ CompileFinish(first, f) = 0 =>
           hexFile' = [type |-> h, first |-> first, words |-> Written(first, f, type)]
  BY DpiAssumption DEF CompileEnds, Compiling
<1>2. CASE symbol' = None
  BY <1>1, <1>2 DEF FlowInv, CompileFinish
<1>3. CASE symbol' # None
  <2>1. CompileFinish(first, f) = 0
    BY <1>1, <1>3 DEF CompileFinish
  <2>2. /\ stage' = 1
        /\ hexFile' = [type |-> h, first |-> first, words |-> Written(first, f, type)]
    BY <1>1, <2>1
  <2>3. f.start # None => symbol' = first + f.start
    BY <1>1 DEF SymbolAfter, Compiles
  <2> QED
    BY <1>1, <1>3, <2>2, <2>3 DEF FlowInv, ProgramCompiled, Compiles
<1> QED
  BY <1>2, <1>3

\* Loaded in place, the program is in the memory, word by word.
LEMMA LoadKeepsFlow ==
  ASSUME FlowInv, NEW offset, LoadHexFile(offset)
  PROVE  FlowInv'
<1>1. UNCHANGED <<startPc, pc, symbol, hexFile, told, compiled>>
  BY DEF LoadHexFile
<1>2. /\ stage' \in 0 .. 5
      /\ stage' >= 1 => stage >= 1
      /\ stage' >= 2 => InPlace(offset)
      /\ stage' >= 3 => stage' = stage
  BY DEF LoadHexFile, FlowInv, Reach, Redo
<1>3. ASSUME stage' >= 1
      PROVE  ProgramCompiled'
  BY <1>1, <1>2, <1>3 DEF FlowInv, ProgramCompiled, Written
<1>4. ASSUME stage' >= 2
      PROVE  ProgramLoaded'
  <2>1. ProgramCompiled /\ InPlace(offset)
    BY <1>2, <1>4 DEF FlowInv
  <2>2. /\ hexFile.first = compiled.first
        /\ hexFile.words = Written(compiled.first, compiled.file, compiled.parity)
        /\ hexFile.type \in {"ISS_WORD", "VERILOG_RAW_WORD"}
        /\ hexFile.type = "VERILOG_RAW_WORD" => offset = hexFile.first
    BY <2>1 DEF ProgramCompiled, InPlace
  <2>3. hexFile.type = "VERILOG_RAW_WORD" => [hexFile EXCEPT !.first = offset] = hexFile
    BY <2>1, <2>2 DEF ProgramCompiled
  <2>4. mem' = WithHexFile(mem, hexFile)
    BY <2>2, <2>3 DEF LoadHexFile
  <2> SUFFICES ASSUME NEW i \in DOMAIN compiled.file.ones
               PROVE  mem'[compiled.first + i - 1] =
                        [ones |-> compiled.file.ones[i],
                         bit  |-> ComputeParity(compiled.parity, compiled.file.ones[i])]
    BY <1>1 DEF ProgramLoaded
  <2>5. /\ compiled.file.ones \in Seq({0, 1})
        /\ DOMAIN compiled.file.ones = 1 .. Len(compiled.file.ones)
        /\ Len(compiled.file.ones) \in Nat
    BY <2>1, DpiAssumption DEF ProgramCompiled, SourceFile
  <2> DEFINE a == compiled.first + i - 1
  <2>6. a \in Words /\ a - compiled.first + 1 = i
    BY SMTT(30), <2>1, <2>5, ProgramsAssumption DEF ProgramCompiled, Words
  <2>7. /\ DOMAIN hexFile.words = DOMAIN compiled.file.ones
        /\ hexFile.words[i] =
             [ones |-> compiled.file.ones[i],
              bit  |-> ComputeParity(compiled.parity, compiled.file.ones[i])]
    BY <2>2 DEF Written
  <2>8. mem'[a] = hexFile.words[i]
    BY <2>2, <2>4, <2>6, <2>7 DEF WithHexFile
  <2> QED
    BY <2>7, <2>8
<1> QED
  BY <1>1, <1>2, <1>3, <1>4 DEF FlowInv

\* What leaves the program, its symbol and its words alone keeps what the flow holds on to.
LEMMA FlowKept ==
  ASSUME FlowInv, UNCHANGED <<mem, symbol, hexFile, compiled>>,
         stage' \in 0 .. 5, stage' >= 1 => stage >= 1, stage' >= 2 => stage >= 2,
         stage' >= 3 => told' = symbol,
         stage' >= 4 => startPc' = told',
         stage' = 5  => pc' = startPc'
  PROVE  FlowInv'
BY DEF FlowInv, ProgramCompiled, ProgramLoaded, Written

LEMMA FlowStep ==
  ASSUME handle = "live" => FlowInv, handle' = "live",
         Next \/ UNCHANGED <<dpiOnly, core>>
  PROVE  FlowInv'
<1>1. CASE SpectDpiInit
  BY <1>1 DEF SpectDpiInit, FlowInv
<1>2. CASE \E f \in Files, h \in HexTypes, t \in ParityTypes, first \in FirstAddrs :
             CompileProgram(f, h, t, first)
  <2>1. PICK f \in Files, h \in HexTypes, t \in ParityTypes, first \in FirstAddrs :
          CompileProgram(f, h, t, first)
    BY <1>2
  <2>2. CASE CompileFails(f, t, first)
    BY <2>2 DEF CompileFails, FlowInv
  <2>3. CASE CompileEnds(f, h, t, first)
    BY <2>3, CompileStarts
  <2> QED
    BY <2>1, <2>2, <2>3 DEF CompileProgram, CompileMissing
<1>3. CASE \E m \in MemTypes : LoadHexFile(MemBase[m])
  BY <1>3, LoadKeepsFlow DEF LoadHexFile, Live
<1>4. CASE GetCompiledProgramStartAddress
  <2>1. FlowInv /\ UNCHANGED <<mem, symbol, hexFile, compiled, startPc, pc>>
    BY <1>4 DEF GetCompiledProgramStartAddress, Live, model
  <2>2. /\ stage' = IF stage = 2 THEN 3 ELSE stage
        /\ stage \in 0 .. 5
    BY <1>4, <2>1 DEF GetCompiledProgramStartAddress, Reach, FlowInv
  <2>3. stage >= 1 => told' = symbol
    BY <1>4, <2>1 DEF GetCompiledProgramStartAddress, StartAddress, FlowInv, ProgramCompiled
  <2>4. /\ stage' >= 4 => startPc' = told'
        /\ stage' = 5 => pc' = startPc'
    BY <2>1, <2>2, <2>3 DEF FlowInv
  <2> QED
    BY <2>1, <2>2, <2>3, <2>4, FlowKept
<1>5. CASE \E v \in {Base, told} \ {None} : SetModelStartPc(v)
  <2>1. PICK v : SetModelStartPc(v)
    BY <1>5
  <2>2. FlowInv /\ UNCHANGED <<mem, symbol, hexFile, compiled, told, pc>> /\ startPc' = v
    BY <2>1 DEF SetModelStartPc, Live
  <2>3. /\ stage \in 0 .. 5
        /\ stage' = IF v = told THEN IF stage = 3 THEN 4 ELSE stage
                    ELSE IF stage >= 4 THEN 3 ELSE stage
    BY <2>1, <2>2 DEF SetModelStartPc, Reach, Redo, FlowInv
  <2>4. /\ stage' >= 3 => told' = symbol
        /\ stage' >= 4 => startPc' = told'
        /\ stage' = 5 => pc' = startPc'
    BY <2>2, <2>3 DEF FlowInv
  <2> QED
    BY <2>2, <2>3, <2>4, FlowKept
<1>6. CASE Reset
  BY <1>6, FlowKept DEF Reset, Live, Redo, FlowInv
<1>7. CASE Start
  BY <1>7, FlowKept DEF Start, Live, Reach, FlowInv
<1>8. CASE \E t \in ParityTypes : SetParityType(t)
  BY <1>8, FlowKept DEF SetParityType, Live, flow, FlowInv
<1>9. CASE \E part \in 0 .. Parts, d \in PartValues : SetGprPart(part, d)
  BY <1>9, FlowKept DEF SetGprPart, Live, flow, FlowInv
<1>10. CASE \E a \in DumpAddrs : DumpInstruction(a)
  BY <1>10, FlowKept DEF DumpInstruction, Live, model, flow, FlowInv
<1>11. CASE UNCHANGED <<dpiOnly, core>>
  BY <1>11, FlowKept DEF dpiOnly, core, flow, FlowInv
<1> QED
  BY <1>1, <1>2, <1>3, <1>4, <1>5, <1>6, <1>7, <1>8, <1>9, <1>10, <1>11
  DEF Next, SpectDpiExit, CallWithoutModel

\* A word whose parity bit was computed passes the check.
LEMMA ComputedPassesCheck ==
  ASSUME NEW type \in Parities, NEW ones \in {0, 1}
  PROVE  CheckParity(type, [ones |-> ones, bit |-> ComputeParity(type, ones)])
BY DEF Parities, CheckParity, ComputeParity

LEMMA FlowReaches ==
  ASSUME handle = "live" => FlowInv
  PROVE  FlowReachesStart
<1> SUFFICES ASSUME FlowInv, stage = 5, compiled.file.start # None
             PROVE  /\ pc = compiled.first + compiled.file.start
                    /\ mem[pc].ones = compiled.file.ones[compiled.file.start + 1]
                    /\ parity \in {"NONE", compiled.parity} => CheckParity(parity, mem[pc])
  BY DEF FlowReachesStart
<1>1. /\ ProgramCompiled /\ ProgramLoaded
      /\ pc = symbol
  BY DEF FlowInv
<1> DEFINE start == compiled.file.start
           i == start + 1
<1>2. /\ compiled.file.ones \in Seq({0, 1})
      /\ start \in 0 .. Len(compiled.file.ones) - 1
      /\ Len(compiled.file.ones) \in Nat /\ compiled.first \in Int
  BY SMTT(30), <1>1, DpiAssumption, ProgramsAssumption DEF ProgramCompiled, SourceFile
<1>3. /\ i \in DOMAIN compiled.file.ones /\ compiled.file.ones[i] \in {0, 1}
      /\ pc = compiled.first + i - 1
  BY <1>1, <1>2 DEF ProgramCompiled
<1>4. mem[pc] = [ones |-> compiled.file.ones[i],
                 bit  |-> ComputeParity(compiled.parity, compiled.file.ones[i])]
  BY <1>1, <1>3 DEF ProgramLoaded
<1>5. CheckParity(compiled.parity, mem[pc])
  BY <1>1, <1>3, <1>4, ComputedPassesCheck DEF ProgramCompiled
<1> QED
  BY <1>1, <1>4, <1>5 DEF CheckParity, ProgramCompiled

--------------------------------------------------------------------------------
(* The two hosts of the simulator *)

\* The record of a simulator.
SimulatorOf(par, m, start, first, sp, lim, pc0, b) ==
  [parity |-> par, mem |-> m, start |-> start, first |-> first, startPc |-> sp,
   limit |-> lim, pc |-> pc0, began |-> b]

\* What main makes of its options, field by field.
PreloadedMem(o) ==
  LET empty == [a \in Iss!Words |-> Iss!Erased]
  IN IF o.program # None
     THEN Iss!Assembled(empty, Iss!FirstAddr(o), o.program, Iss!ParityOption(o.parity))
     ELSE IF o.hex = None THEN empty ELSE Iss!WithHexFile(empty, o.hex)

StartOf(o) ==
  IF o.program = None THEN None
  ELSE IF o.program.start = None THEN None ELSE Iss!FirstAddr(o) + o.program.start

FirstOf(o) == IF o.program = None THEN None ELSE Iss!FirstAddr(o)

SessionOf(o, pc0, b) ==
  SimulatorOf(Iss!ParityOption(o.parity), PreloadedMem(o), StartOf(o), FirstOf(o),
              Iss!StartPcOption(o, StartOf(o)), Iss!LimitOption(o), pc0, b)

\* What main made of its options.
MainInv ==
  host \in {"shell", "batch"} =>
    /\ given \in Iss!Options /\ Iss!Failure(given) = "none"
    /\ simulator \in {Iss!Main(given), Iss!Started(Iss!Main(given))}

\* The globals of the library hold the first address and the parity that were given, and
\* an ordered session is what main makes of the options so far, but for the limit and for
\* having been started.
LibraryInv ==
  host \in {"none", "library"} =>
    /\ given \in Iss!Options
    /\ first_addr_ = IF given.first = None THEN Base ELSE given.first
    /\ parity_type_ = Iss!ParityOption(given.parity)
    /\ host = "library" /\ ordered =>
         /\ given.hex = None
         /\ simulator = SimulatorOf(parity_type_, PreloadedMem(given), StartOf(given),
                          FirstOf(given), Iss!StartPcOption(given, StartOf(given)), None,
                          simulator.pc, simulator.began)

IssInv == subject = "iss" => MainInv /\ LibraryInv

\* Reset and Start leave all but two fields.
LEMMA StartedIs ==
  ASSUME NEW par, NEW m, NEW start, NEW first, NEW sp, NEW lim, NEW pc0, NEW b
  PROVE  Iss!Started(SimulatorOf(par, m, start, first, sp, lim, pc0, b)) =
           SimulatorOf(par, m, start, first, sp, lim, sp, TRUE)
<1>0. PICK s : s = SimulatorOf(par, m, start, first, sp, lim, pc0, b)
  OBVIOUS
<1>1. PICK s1 : s1 = [s EXCEPT !.pc = s.startPc]
  OBVIOUS
<1>2. s1 = SimulatorOf(par, m, start, first, sp, lim, sp, b)
  BY <1>0, <1>1 DEF SimulatorOf
<1>3. PICK s2 : s2 = [s1 EXCEPT !.began = TRUE]
  OBVIOUS
<1>4. s2 = SimulatorOf(par, m, start, first, sp, lim, sp, TRUE)
  BY <1>2, <1>3 DEF SimulatorOf
<1>5. Iss!Started(s) = s2
  BY Zenon, <1>1, <1>3 DEF Iss!Started
<1> QED
  BY <1>0, <1>4, <1>5

LEMMA PreloadedIs ==
  ASSUME NEW o
  PROVE  Iss!Preloaded(o) = SimulatorOf(Iss!ParityOption(o.parity), PreloadedMem(o),
                              StartOf(o), FirstOf(o), Base, None, 0, FALSE)
<1> DEFINE empty == [a \in Iss!Words |-> Iss!Erased]
<1>1. PICK par : par = Iss!ParityOption(o.parity)
  OBVIOUS
<1>2. PICK new : new = Iss!NewSimulator(par)
  OBVIOUS
<1>3. /\ new = SimulatorOf(par, empty, None, None, Base, None, 0, FALSE)
      /\ new.mem = empty /\ new.parity = par
  BY <1>2 DEF Iss!NewSimulator, SimulatorOf
<1>4. CASE o.program = None
  <2>1. PICK m : m = IF o.hex = None THEN new.mem ELSE Iss!WithHexFile(new.mem, o.hex)
    OBVIOUS
  <2>2. PICK s1 : s1 = [new EXCEPT !.mem = m]
    OBVIOUS
  <2>3. s1 = SimulatorOf(par, m, None, None, Base, None, 0, FALSE)
    BY <1>3, <2>2 DEF SimulatorOf
  <2>5. Iss!Preloaded(o) = s1
    BY Zenon, <1>1, <1>2, <1>4, <2>1, <2>2 DEF Iss!Preloaded
  <2>4. m = PreloadedMem(o) /\ StartOf(o) = None /\ FirstOf(o) = None
    BY <1>3, <1>4, <2>1 DEF PreloadedMem, StartOf, FirstOf
  <2> QED
    BY <1>1, <2>3, <2>4, <2>5
<1>5. CASE o.program # None
  <2>1. PICK m : m = Iss!Assembled(new.mem, Iss!FirstAddr(o), o.program, new.parity)
    OBVIOUS
  <2>2. PICK first : first = Iss!FirstAddr(o)
    OBVIOUS
  <2>3. PICK start : start = IF o.program.start = None THEN None
                             ELSE Iss!FirstAddr(o) + o.program.start
    OBVIOUS
  <2>4. PICK s1 : s1 = [new EXCEPT !.mem = m]
    OBVIOUS
  <2>5. s1 = SimulatorOf(par, m, None, None, Base, None, 0, FALSE)
    BY <1>3, <2>4 DEF SimulatorOf
  <2>6. PICK s2 : s2 = [s1 EXCEPT !.first = first]
    OBVIOUS
  <2>7. s2 = SimulatorOf(par, m, None, first, Base, None, 0, FALSE)
    BY <2>5, <2>6 DEF SimulatorOf
  <2>8. PICK s3 : s3 = [s2 EXCEPT !.start = start]
    OBVIOUS
  <2>9. s3 = SimulatorOf(par, m, start, first, Base, None, 0, FALSE)
    BY <2>7, <2>8 DEF SimulatorOf
  <2>10. Iss!Preloaded(o) = s3
    BY Zenon, <1>1, <1>2, <1>5, <2>1, <2>2, <2>3, <2>4, <2>6, <2>8 DEF Iss!Preloaded
  <2>11. m = PreloadedMem(o) /\ start = StartOf(o) /\ first = FirstOf(o)
    BY <1>1, <1>3, <1>5, <2>1, <2>2, <2>3 DEF PreloadedMem, StartOf, FirstOf
  <2> QED
    BY <1>1, <2>9, <2>10, <2>11
<1> QED
  BY <1>4, <1>5

LEMMA MainIs ==
  ASSUME NEW o
  PROVE  /\ Iss!Main(o) = SessionOf(o, 0, FALSE)
         /\ Iss!Started(Iss!Main(o)) = SessionOf(o, Iss!StartPcOption(o, StartOf(o)), TRUE)
<1>1. PICK s : s = Iss!Preloaded(o)
  OBVIOUS
<1>2. s = SimulatorOf(Iss!ParityOption(o.parity), PreloadedMem(o), StartOf(o), FirstOf(o),
                      Base, None, 0, FALSE)
  BY <1>1, PreloadedIs
<1>3. PICK sp : sp = Iss!StartPcOption(o, s.start)
  OBVIOUS
<1>4. PICK lim : lim = Iss!LimitOption(o)
  OBVIOUS
<1>5. PICK s1 : s1 = [s EXCEPT !.startPc = sp]
  OBVIOUS
<1>6. s1 = SimulatorOf(Iss!ParityOption(o.parity), PreloadedMem(o), StartOf(o), FirstOf(o),
                       sp, None, 0, FALSE)
  BY <1>2, <1>5 DEF SimulatorOf
<1>7. PICK s2 : s2 = [s1 EXCEPT !.limit = lim]
  OBVIOUS
<1>8. s2 = SimulatorOf(Iss!ParityOption(o.parity), PreloadedMem(o), StartOf(o), FirstOf(o),
                       sp, lim, 0, FALSE)
  BY <1>6, <1>7 DEF SimulatorOf
<1>9. Iss!Main(o) = s2
  BY Zenon, <1>1, <1>3, <1>4, <1>5, <1>7 DEF Iss!Main
<1>10. sp = Iss!StartPcOption(o, StartOf(o))
  BY <1>2, <1>3 DEF SimulatorOf
<1>11. Iss!Main(o) = SessionOf(o, 0, FALSE)
  BY <1>4, <1>8, <1>9, <1>10 DEF SessionOf
<1>12. Iss!Started(s2) = SimulatorOf(Iss!ParityOption(o.parity), PreloadedMem(o), StartOf(o),
                                     FirstOf(o), sp, lim, sp, TRUE)
  BY <1>8, StartedIs
<1> QED
  BY <1>4, <1>9, <1>10, <1>11, <1>12 DEF SessionOf

LEMMA MainStep ==
  ASSUME MainInv, Iss!Next \/ UNCHANGED <<executed, issVars>>
  PROVE  MainInv'
<1>1. CASE Iss!RunMain
  <2>1. PICK o \in Iss!Options :
          /\ given' = o
          /\ IF Iss!Failure(o) # "none" THEN host' = Iss!Failure(o)
             ELSE simulator' \in {Iss!Main(o), Iss!Started(Iss!Main(o))}
    BY <1>1 DEF Iss!RunMain
  <2>2. Iss!Failure(o) \notin {"shell", "batch"}
    BY DEF Iss!Failure
  <2> QED
    BY <2>1, <2>2 DEF MainInv
<1>2. CASE Iss!ShellStart
  <2>1. /\ simulator \in {Iss!Main(given), Iss!Started(Iss!Main(given))}
        /\ given' = given /\ host' = host /\ Iss!Failure(given) = "none"
        /\ simulator' = Iss!Started(simulator) /\ given \in Iss!Options
    BY <1>2 DEF Iss!ShellStart, MainInv
  <2>2. PICK sp : sp = Iss!StartPcOption(given, StartOf(given))
    OBVIOUS
  <2>3. \/ simulator = SessionOf(given, 0, FALSE)
        \/ simulator = SessionOf(given, sp, TRUE)
    BY <2>1, <2>2, MainIs
  <2>4. Iss!Started(simulator) = SessionOf(given, sp, TRUE)
    BY ZenonT(30), <2>2, <2>3, StartedIs DEF SessionOf
  <2> QED
    BY <2>1, <2>2, <2>4, MainIs DEF MainInv
<1>3. CASE host' \notin {"shell", "batch"}
  BY <1>3 DEF MainInv
<1>4. CASE UNCHANGED <<executed, issVars>>
  BY <1>4 DEF issVars, MainInv
<1> QED
  BY <1>1, <1>2, <1>3, <1>4
  DEF Iss!Next, Iss!SpectIssInit, Iss!SetFirstAddr, Iss!SetParityType, Iss!LoadSFile,
      Iss!LoadHexFile, Iss!SetStartPc, Iss!CmdStart, Iss!SpectIssExit, Iss!Live

\* A program that fits is assembled with a parity the model accepts.
LEMMA AssembledAtStart ==
  ASSUME NEW f \in IssFiles, NEW first, NEW mem0, NEW type \in Iss!Parities,
         Iss!Compiles(first, f, None), f.start # None
  PROVE  LET m == Iss!Assembled(mem0, first, f, type)
             a == first + f.start
         IN m[a].ones = f.ones[f.start + 1] /\ Iss!CheckParity(type, m[a])
<1>1. /\ f.ones \in Seq({0, 1}) /\ f.start \in 0 .. Len(f.ones) - 1
      /\ Len(f.ones) \in Nat /\ first \in Base .. Base + Size
      /\ first + Len(f.ones) <= Base + Size
  BY SessionsAssumption DEF Iss!IssAssumption, Iss!SourceFile, Iss!Compiles
<1> DEFINE a == first + f.start
           i == f.start + 1
<1>2. a \in Iss!Words /\ a - first + 1 = i /\ i \in DOMAIN f.ones /\ f.ones[i] \in {0, 1}
  <2>1. Base \in Nat /\ Size \in Nat /\ first \in Nat /\ f.start \in Nat /\ first >= Base
    BY <1>1, ProgramsAssumption
  <2>2. f.start + 1 <= Len(f.ones)
    BY <1>1, <2>1
  <2>3. a \in Base .. Base + Size - 1
    BY <1>1, <2>1, <2>2
  <2>4. a - first + 1 = i
    BY <2>1
  <2>5. i \in 1 .. Len(f.ones)
    BY <1>1, <2>1, <2>2
  <2>6. i \in DOMAIN f.ones /\ f.ones[i] \in {0, 1}
    BY <1>1, <2>5
  <2> QED
    BY <2>3, <2>4, <2>6 DEF Iss!Words
<1>3. Iss!Assembled(mem0, first, f, type)[a] =
        [ones |-> f.ones[i], bit |-> Iss!ComputeParity(type, f.ones[i])]
  BY <1>2 DEF Iss!Assembled
<1> QED
  BY <1>2, <1>3, ComputedPassesCheck
  DEF Iss!Parities, Parities, Iss!CheckParity, CheckParity, Iss!ComputeParity, ComputeParity

LEMMA MainStartsAtStart ==
  ASSUME MainInv
  PROVE  Iss!StartsAtStart
<1> SUFFICES ASSUME host \in {"shell", "batch"}, simulator.began, given.program # None,
                    given.startPc = None, simulator.start # None
             PROVE  LET o == given
                        pc0 == simulator.pc
                    IN /\ pc0 = Iss!FirstAddr(o) + o.program.start
                       /\ simulator.mem[pc0].ones = o.program.ones[o.program.start + 1]
                       /\ Iss!CheckParity(simulator.parity, simulator.mem[pc0])
  BY Zenon DEF Iss!StartsAtStart
<1> DEFINE o == given
           f == given.program
           first == Iss!FirstAddr(o)
<1>1. /\ o \in Iss!Options /\ Iss!Failure(o) = "none" /\ f \in IssFiles
      /\ simulator \in {Iss!Main(o), Iss!Started(Iss!Main(o))}
  BY DEF MainInv, Iss!Options
<1>2. simulator = SessionOf(o, Iss!StartPcOption(o, StartOf(o)), TRUE)
  <2>1. PICK s0 : s0 = Iss!Main(o)
    OBVIOUS
  <2>2. s0 = SessionOf(o, 0, FALSE)
    BY <2>1, MainIs
  <2>3. s0.began = FALSE
    BY <2>2 DEF SessionOf, SimulatorOf
  <2> QED
    BY <1>1, <2>1, <2>3, MainIs
<1>3. /\ simulator.pc = Iss!StartPcOption(o, StartOf(o))
      /\ simulator.start = StartOf(o)
      /\ simulator.parity = Iss!ParityOption(o.parity)
      /\ simulator.mem = Iss!Assembled([a \in Iss!Words |-> Iss!Erased], first, f,
                                       Iss!ParityOption(o.parity))
  BY <1>2 DEF SessionOf, SimulatorOf, PreloadedMem
<1>4. f.start # None /\ StartOf(o) = first + f.start /\ simulator.pc = first + f.start
  BY <1>3 DEF StartOf, Iss!StartPcOption
<1>5. Iss!Compiles(first, f, None)
  BY <1>1 DEF Iss!Failure
<1>6. Iss!ParityOption(o.parity) \in Iss!Parities
  BY DEF Iss!ParityOption, Iss!Parities
<1> QED
  BY <1>1, <1>3, <1>4, <1>5, <1>6, AssembledAtStart

LEMMA LibraryInitially ==
  ASSUME Iss!Init
  PROVE  LibraryInv
<1>1. given \in Iss!Options
  BY DEF Iss!Init, Iss!NoOptions, Iss!Options
<1> QED
  BY <1>1, SessionsAssumption
  DEF Iss!Init, Iss!NoOptions, LibraryInv, Iss!ParityOption, Iss!IssAssumption

\* A new session forgets the program, the hex file and the start address.
LEMMA SessionBegins ==
  ASSUME LibraryInv, Iss!SpectIssInit
  PROVE  LibraryInv'
<1>1. /\ given \in Iss!Options /\ host = "none" /\ host' = "library"
      /\ first_addr_ = IF given.first = None THEN Base ELSE given.first
      /\ parity_type_ = Iss!ParityOption(given.parity)
      /\ first_addr_' = first_addr_ /\ parity_type_' = parity_type_
      /\ simulator' = Iss!NewSimulator(parity_type_)
  BY DEF LibraryInv, Iss!SpectIssInit
<1>2. /\ given' \in Iss!Options /\ given'.program = None /\ given'.hex = None
      /\ given'.startPc = None /\ given'.first = given.first /\ given'.parity = given.parity
  <2>1. PICK g1 : g1 = [given EXCEPT !.program = None]
    OBVIOUS
  <2>2. PICK g2 : g2 = [g1 EXCEPT !.hex = None]
    OBVIOUS
  <2>3. PICK g3 : g3 = [g2 EXCEPT !.startPc = None]
    OBVIOUS
  <2>4. /\ g1 \in Iss!Options /\ g1.program = None
        /\ g1.first = given.first /\ g1.parity = given.parity
    BY <1>1, <2>1 DEF Iss!Options
  <2>5. /\ g2 \in Iss!Options /\ g2.program = None /\ g2.hex = None
        /\ g2.first = given.first /\ g2.parity = given.parity
    BY <2>2, <2>4 DEF Iss!Options
  <2>6. /\ g3 \in Iss!Options /\ g3.program = None /\ g3.hex = None /\ g3.startPc = None
        /\ g3.first = given.first /\ g3.parity = given.parity
    BY <2>3, <2>5 DEF Iss!Options
  <2>7. given' = g3
    BY Zenon, <2>1, <2>2, <2>3 DEF Iss!SpectIssInit
  <2> QED
    BY <2>6, <2>7
<1>3. simulator' = SimulatorOf(parity_type_, PreloadedMem(given'), None, None, Base, None,
                               0, FALSE)
  BY <1>1, <1>2 DEF Iss!NewSimulator, SimulatorOf, PreloadedMem
<1>4. StartOf(given') = None /\ FirstOf(given') = None
  BY <1>2 DEF StartOf, FirstOf
<1>5. Iss!StartPcOption(given', None) = Base
  BY <1>2 DEF Iss!StartPcOption
<1>6. simulator'.pc = 0 /\ simulator'.began = FALSE
  BY <1>3 DEF SimulatorOf
<1> QED
  BY <1>1, <1>2, <1>3, <1>4, <1>5, <1>6 DEF LibraryInv, PreloadedMem, StartOf, FirstOf
LEMMA GlobalsSet ==
  ASSUME LibraryInv, Iss!SetFirstAddr \/ Iss!SetParityType
  PROVE  LibraryInv'
<1>1. /\ given \in Iss!Options /\ host' = host /\ host \in {"none", "library"}
      /\ first_addr_ = IF given.first = None THEN Base ELSE given.first
      /\ parity_type_ = Iss!ParityOption(given.parity)
      /\ ~(host' = "library" /\ ordered')
  BY DEF LibraryInv, Iss!SetFirstAddr, Iss!SetParityType, Iss!Live
<1>2. CASE Iss!SetFirstAddr
  <2>1. PICK a \in IssFirstAddrs : first_addr_' = a /\ given' = [given EXCEPT !.first = a]
    BY <1>2 DEF Iss!SetFirstAddr
  <2>2. /\ given' \in Iss!Options /\ given'.first = a /\ given'.parity = given.parity
    BY <1>1, <2>1 DEF Iss!Options
  <2>3. a # None
    BY SessionsAssumption DEF Iss!IssAssumption
  <2> QED
    BY <1>1, <1>2, <2>1, <2>2, <2>3 DEF LibraryInv, Iss!SetFirstAddr
<1>3. CASE Iss!SetParityType
  <2>1. PICK arg \in {"1", "2"} :
          parity_type_' = Iss!ParityOption(arg) /\ given' = [given EXCEPT !.parity = arg]
    BY <1>3 DEF Iss!SetParityType
  <2>2. /\ given' \in Iss!Options /\ given'.first = given.first /\ given'.parity = arg
    BY <1>1, <2>1 DEF Iss!Options
  <2> QED
    BY <1>1, <1>3, <2>1, <2>2 DEF LibraryInv, Iss!SetParityType
<1> QED
  BY <1>2, <1>3

\* A program loaded in order is where main would have put it, with the parity main would
\* have used.
LEMMA ProgramInOrder ==
  ASSUME LibraryInv, Iss!LoadSFile
  PROVE  LibraryInv'
<1> SUFFICES ASSUME host' \in {"none", "library"}
             PROVE  LibraryInv'
  BY DEF LibraryInv
<1>1. PICK f \in IssFiles : \E start :
        /\ start = IF f.start = None THEN simulator.start ELSE first_addr_ + f.start
        /\ given' = [given EXCEPT !.program = f]
        /\ ordered' = (ordered /\ given.startPc = None /\ given.program = None /\ given.hex = None)
        /\ start # None /\ host' = host
        /\ simulator' = [simulator EXCEPT !.mem = Iss!Assembled(@, first_addr_, f, parity_type_),
                         !.first = first_addr_, !.start = start, !.startPc = start]
  BY Zenon DEF Iss!LoadSFile
<1>2. PICK start :
        /\ start = IF f.start = None THEN simulator.start ELSE first_addr_ + f.start
        /\ given' = [given EXCEPT !.program = f]
        /\ ordered' = (ordered /\ given.startPc = None /\ given.program = None /\ given.hex = None)
        /\ start # None /\ host' = host
        /\ simulator' = [simulator EXCEPT !.mem = Iss!Assembled(@, first_addr_, f, parity_type_),
                         !.first = first_addr_, !.start = start, !.startPc = start]
  BY <1>1
<1>3. /\ host = "library" /\ first_addr_' = first_addr_ /\ parity_type_' = parity_type_
      /\ given \in Iss!Options
      /\ first_addr_ = IF given.first = None THEN Base ELSE given.first
      /\ parity_type_ = Iss!ParityOption(given.parity)
  BY DEF Iss!LoadSFile, Iss!Live, LibraryInv
<1>4. /\ given' \in Iss!Options /\ given'.program = f /\ given'.first = given.first
      /\ given'.parity = given.parity /\ given'.hex = given.hex
      /\ given'.startPc = given.startPc
  BY <1>2, <1>3 DEF Iss!Options
<1>5. ASSUME ordered'
      PROVE  /\ given'.hex = None
             /\ simulator' = SimulatorOf(parity_type_, PreloadedMem(given'), StartOf(given'),
                               FirstOf(given'), Iss!StartPcOption(given', StartOf(given')),
                               None, simulator'.pc, simulator'.began)
  <2>1. /\ ordered /\ given.startPc = None /\ given.program = None /\ given.hex = None
    BY <1>2, <1>5
  <2>2. PICK empty : empty = [a \in Iss!Words |-> Iss!Erased]
    OBVIOUS
  <2>3. PreloadedMem(given) = empty /\ StartOf(given) = None /\ FirstOf(given) = None
    BY <2>1, <2>2 DEF PreloadedMem, StartOf, FirstOf
  <2>4. PICK sp, pc0, b : simulator =
          SimulatorOf(parity_type_, empty, None, None, sp, None, pc0, b)
    BY <1>3, <2>1, <2>3 DEF LibraryInv
  <2>5. simulator.start = None /\ simulator.mem = empty
    BY <2>4 DEF SimulatorOf
  <2>6. PICK m : m = Iss!Assembled(simulator.mem, first_addr_, f, parity_type_)
    OBVIOUS
  <2>7. PICK s1 : s1 = [simulator EXCEPT !.mem = m]
    OBVIOUS
  <2>8. s1 = SimulatorOf(parity_type_, m, None, None, sp, None, pc0, b)
    BY <2>4, <2>7 DEF SimulatorOf
  <2>9. PICK s2 : s2 = [s1 EXCEPT !.first = first_addr_]
    OBVIOUS
  <2>10. s2 = SimulatorOf(parity_type_, m, None, first_addr_, sp, None, pc0, b)
    BY <2>8, <2>9 DEF SimulatorOf
  <2>11. PICK s3 : s3 = [s2 EXCEPT !.start = start]
    OBVIOUS
  <2>12. s3 = SimulatorOf(parity_type_, m, start, first_addr_, sp, None, pc0, b)
    BY <2>10, <2>11 DEF SimulatorOf
  <2>13. PICK s4 : s4 = [s3 EXCEPT !.startPc = start]
    OBVIOUS
  <2>14. s4 = SimulatorOf(parity_type_, m, start, first_addr_, start, None, pc0, b)
    BY <2>12, <2>13 DEF SimulatorOf
  <2>15. simulator' = s4
    BY Zenon, <1>2, <2>6, <2>7, <2>9, <2>11, <2>13
  <2>16. simulator'.pc = pc0 /\ simulator'.began = b
    BY <2>14, <2>15 DEF SimulatorOf
  <2>17. f # None
    BY SessionsAssumption DEF Iss!IssAssumption
  <2>18. Iss!FirstAddr(given') = first_addr_
    BY <1>3, <1>4, <2>17 DEF Iss!FirstAddr
  <2>19. FirstOf(given') = first_addr_ /\ StartOf(given') = start
    BY <1>2, <1>4, <2>5, <2>17, <2>18 DEF FirstOf, StartOf
  <2>20. PreloadedMem(given') = m
    BY <1>3, <1>4, <2>2, <2>5, <2>6, <2>17, <2>18 DEF PreloadedMem
  <2>21. Iss!StartPcOption(given', start) = start
    BY <1>2, <1>4, <2>1 DEF Iss!StartPcOption
  <2> QED
    BY <1>4, <2>1, <2>14, <2>15, <2>16, <2>19, <2>20, <2>21
<1> QED
  BY <1>2, <1>3, <1>4, <1>5 DEF LibraryInv

LEMMA StartAddressSet ==
  ASSUME LibraryInv, Iss!SetStartPc
  PROVE  LibraryInv'
<1>1. PICK a \in StartPcs :
        simulator' = [simulator EXCEPT !.startPc = a] /\ given' = [given EXCEPT !.startPc = a]
  BY DEF Iss!SetStartPc
<1>2. /\ host = "library" /\ host' = host /\ ordered' = ordered
      /\ first_addr_' = first_addr_ /\ parity_type_' = parity_type_
      /\ given \in Iss!Options
      /\ first_addr_ = IF given.first = None THEN Base ELSE given.first
      /\ parity_type_ = Iss!ParityOption(given.parity)
  BY DEF Iss!SetStartPc, Iss!Live, LibraryInv
<1>3. /\ given' \in Iss!Options /\ given'.program = given.program
      /\ given'.first = given.first /\ given'.parity = given.parity
      /\ given'.hex = given.hex /\ given'.startPc = a /\ a # None
  BY <1>1, <1>2, SessionsAssumption DEF Iss!Options, Iss!IssAssumption
<1>4. /\ Iss!FirstAddr(given') = Iss!FirstAddr(given)
      /\ StartOf(given') = StartOf(given) /\ FirstOf(given') = FirstOf(given)
      /\ PreloadedMem(given') = PreloadedMem(given)
  BY <1>3 DEF StartOf, FirstOf, PreloadedMem, Iss!FirstAddr
<1>5. Iss!StartPcOption(given', StartOf(given')) = a
  BY <1>3 DEF Iss!StartPcOption
<1>6. ASSUME ordered
      PROVE  /\ given'.hex = None
             /\ simulator' = SimulatorOf(parity_type_, PreloadedMem(given), StartOf(given),
                               FirstOf(given), a, None, simulator'.pc, simulator'.began)
  <2>1. given.hex = None
    BY <1>2, <1>6 DEF LibraryInv
  <2>2. PICK sp, pc0, b : simulator = SimulatorOf(parity_type_, PreloadedMem(given),
          StartOf(given), FirstOf(given), sp, None, pc0, b)
    BY <1>2, <1>6 DEF LibraryInv
  <2>3. simulator' = SimulatorOf(parity_type_, PreloadedMem(given),
          StartOf(given), FirstOf(given), a, None, pc0, b)
    BY <1>1, <2>2 DEF SimulatorOf
  <2>4. simulator'.pc = pc0 /\ simulator'.began = b
    BY <2>3 DEF SimulatorOf
  <2> QED
    BY <1>3, <2>1, <2>3, <2>4
<1> QED
  BY <1>2, <1>3, <1>4, <1>5, <1>6 DEF LibraryInv

LEMMA SessionStarts ==
  ASSUME LibraryInv, Iss!CmdStart
  PROVE  LibraryInv'
<1>1. /\ host = "library" /\ host' = host /\ ordered' = ordered /\ given' = given
      /\ first_addr_' = first_addr_ /\ parity_type_' = parity_type_
      /\ simulator' = Iss!Started(simulator)
  BY DEF Iss!CmdStart, Iss!Live
<1>2. ASSUME ordered
      PROVE  simulator' = SimulatorOf(parity_type_, PreloadedMem(given), StartOf(given),
                            FirstOf(given), Iss!StartPcOption(given, StartOf(given)), None,
                            simulator'.pc, simulator'.began)
  <2>1. PICK sp : sp = Iss!StartPcOption(given, StartOf(given))
    OBVIOUS
  <2>2. PICK pc0, b : simulator = SimulatorOf(parity_type_, PreloadedMem(given),
          StartOf(given), FirstOf(given), sp, None, pc0, b)
    BY <1>1, <1>2, <2>1 DEF LibraryInv
  <2>3. simulator' = SimulatorOf(parity_type_, PreloadedMem(given), StartOf(given),
          FirstOf(given), sp, None, sp, TRUE)
    BY <1>1, <2>2, StartedIs
  <2>4. simulator'.pc = sp /\ simulator'.began = TRUE
    BY <2>3 DEF SimulatorOf
  <2> QED
    BY <2>1, <2>3, <2>4
<1>3. given.hex = None \/ ~ordered
  BY <1>1 DEF LibraryInv
<1> QED
  BY <1>1, <1>2, <1>3 DEF LibraryInv, PreloadedMem, StartOf, FirstOf
LEMMA LibraryStep ==
  ASSUME LibraryInv, Iss!Next \/ UNCHANGED <<executed, issVars>>
  PROVE  LibraryInv'
<1>1. CASE Iss!RunMain
  <2>1. host' \notin {"none", "library"}
    BY <1>1 DEF Iss!RunMain, Iss!Failure
  <2> QED
    BY <2>1 DEF LibraryInv
<1>2. CASE Iss!ShellStart
  BY <1>2 DEF Iss!ShellStart, LibraryInv
<1>3. CASE Iss!LoadHexFile
  <2>1. PICK hex \in HexFiles : given' = [given EXCEPT !.hex = hex]
    BY <1>3 DEF Iss!LoadHexFile
  <2>2. given \in Iss!Options
    BY <1>3 DEF Iss!LoadHexFile, Iss!Live, LibraryInv
  <2>3. /\ given' \in Iss!Options /\ given'.first = given.first
        /\ given'.parity = given.parity
    BY <2>1, <2>2 DEF Iss!Options
  <2> QED
    BY <1>3, <2>3 DEF Iss!LoadHexFile, Iss!Live, LibraryInv
<1>4. CASE Iss!SpectIssExit
  BY <1>4 DEF Iss!SpectIssExit, Iss!Live, LibraryInv
<1>5. CASE UNCHANGED <<executed, issVars>>
  BY <1>5 DEF issVars, LibraryInv, PreloadedMem, StartOf, FirstOf
<1> QED
  BY <1>1, <1>2, <1>3, <1>4, <1>5, SessionBegins, GlobalsSet, ProgramInOrder,
     StartAddressSet, SessionStarts DEF Iss!Next

LEMMA LibraryMakesSession ==
  ASSUME LibraryInv
  PROVE  Iss!OrderedCallsEquivalent
<1> SUFFICES ASSUME host = "library", ordered, given.program # None
             PROVE  simulator = [Iss!Main(given) EXCEPT
                       !.limit = None, !.pc = simulator.pc, !.began = simulator.began]
  BY Zenon DEF Iss!OrderedCallsEquivalent, Iss!Live
<1>1. PICK sp : sp = Iss!StartPcOption(given, StartOf(given))
  OBVIOUS
<1>2. PICK pc0, b : pc0 = simulator.pc /\ b = simulator.began
  OBVIOUS
<1>3. simulator = SimulatorOf(Iss!ParityOption(given.parity), PreloadedMem(given),
                    StartOf(given), FirstOf(given), sp, None, pc0, b)
  BY <1>1, <1>2 DEF LibraryInv
<1>4. PICK s : s = Iss!Main(given)
  OBVIOUS
<1>5. PICK s1 : s1 = [s EXCEPT !.limit = None]
  OBVIOUS
<1>6. PICK s2 : s2 = [s1 EXCEPT !.pc = pc0]
  OBVIOUS
<1>7. PICK s3 : s3 = [s2 EXCEPT !.began = b]
  OBVIOUS
<1>8. s = SimulatorOf(Iss!ParityOption(given.parity), PreloadedMem(given), StartOf(given),
            FirstOf(given), sp, Iss!LimitOption(given), 0, FALSE)
  BY <1>1, <1>4, MainIs DEF SessionOf
<1>9. s1 = SimulatorOf(Iss!ParityOption(given.parity), PreloadedMem(given), StartOf(given),
             FirstOf(given), sp, None, 0, FALSE)
  BY <1>5, <1>8 DEF SimulatorOf
<1>10. s2 = SimulatorOf(Iss!ParityOption(given.parity), PreloadedMem(given), StartOf(given),
              FirstOf(given), sp, None, pc0, FALSE)
  BY <1>6, <1>9 DEF SimulatorOf
<1>11. s3 = SimulatorOf(Iss!ParityOption(given.parity), PreloadedMem(given), StartOf(given),
              FirstOf(given), sp, None, pc0, b)
  BY <1>7, <1>10 DEF SimulatorOf
<1>12. simulator = s3
  BY <1>3, <1>11
<1> QED
  BY Zenon, <1>2, <1>4, <1>5, <1>6, <1>7, <1>12

--------------------------------------------------------------------------------
(* The theorems about programs *)

LEMMA SessionsInit ==
  ASSUME CallInit
  PROVE  DpiInv /\ IssInv
<1>1. subject = "dpi" => FlowInv
  BY DpiInitially DEF CallInit
<1>2. subject = "iss" => Iss!Init
  BY DEF CallInit
<1>3. subject = "iss" => MainInv
  BY <1>2 DEF Iss!Init, MainInv
<1> QED
  BY <1>1, <1>2, <1>3, LibraryInitially DEF DpiInv, IssInv

LEMMA SessionsNext ==
  ASSUME DpiInv, IssInv, [CallNext]_callVars
  PROVE  DpiInv' /\ IssInv'
<1>1. subject' = subject
  BY DEF CallNext, callVars
<1>2. ASSUME subject = "dpi", handle' = "live"
      PROVE  FlowInv'
  <2>1. handle = "live" => FlowInv
    BY <1>2 DEF DpiInv
  <2>2. Next \/ UNCHANGED <<dpiOnly, core>>
    BY <1>2 DEF CallNext, callVars
  <2> QED
    BY <1>2, <2>1, <2>2, FlowStep
<1>3. ASSUME subject = "iss"
      PROVE  MainInv' /\ LibraryInv'
  <2>1. MainInv /\ LibraryInv
    BY <1>3 DEF IssInv
  <2>2. Iss!Next \/ UNCHANGED <<executed, issVars>>
    BY <1>3 DEF CallNext, callVars
  <2> QED
    BY <2>1, <2>2, MainStep, LibraryStep
<1> QED
  BY <1>1, <1>2, <1>3 DEF DpiInv, IssInv

\* A program that is compiled, loaded, asked for its start address and started, with any
\* other calls in between that the flow allows, is fetched at its _start, and a model that
\* checks no parity or the one compiled with accepts the word there; so is a program
\* given to spect_iss with any options: for every program, memory and parity.
THEOREM ProgramsStart == CallSpec => []ProgramsReachStart
<1>1. CallInit => DpiInv /\ IssInv
  BY SessionsInit
<1>2. (DpiInv /\ IssInv) /\ [CallNext]_callVars => (DpiInv /\ IssInv)'
  BY SessionsNext
<1>3. DpiInv /\ IssInv => ProgramsReachStart
  <2>1. DpiInv /\ subject = "dpi" => FlowReachesStart
    BY FlowReaches DEF DpiInv
  <2>2. IssInv /\ subject = "iss" => Iss!StartsAtStart
    BY MainStartsAtStart DEF IssInv
  <2> QED
    BY <2>1, <2>2 DEF ProgramsReachStart
<1> QED
  BY <1>1, <1>2, <1>3, PTL DEF CallSpec

\* Whatever was done in earlier sessions of the process, library calls in the order main
\* works in leave the simulator that main makes of the options they stand for: the same
\* memory, parity, first address, start of the program and start address.
THEOREM CallsEquivalent == CallSpec => []CallsMakeSession
<1>1. CallInit => DpiInv /\ IssInv
  BY SessionsInit
<1>2. (DpiInv /\ IssInv) /\ [CallNext]_callVars => (DpiInv /\ IssInv)'
  BY SessionsNext
<1>3. DpiInv /\ IssInv => CallsMakeSession
  BY LibraryMakesSession DEF IssInv, CallsMakeSession
<1> QED
  BY <1>1, <1>2, <1>3, PTL DEF CallSpec
================================================================================
