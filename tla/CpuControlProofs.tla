--------------------------- MODULE CpuControlProofs ----------------------------
(*****************************************************************************)
(* Proofs about CpuControl: for memories, stacks, programs and limits of any *)
(* size, its states are well typed, the registers, the interrupt outputs and *)
(* end_executed_ agree, results appear only by execution, the machine        *)
(* implements the invocation protocol, what it reports of its outputs        *)
(* replays to them, and, with the history of CallStack, calls return.        *)
(*****************************************************************************)
EXTENDS CallStack, SequenceTheorems, TLAPS

--------------------------------------------------------------------------------
(* The register block *)

LEMMA ResetRegistersType == ResetRegisters \in Registers
  BY DEF ResetRegisters, Registers, Bit

LEMMA LevelType == \A r \in Registers : Level(r) \in [Lines -> Bit]
  BY DEF Level, Bit

LEMMA FieldWriteType ==
  \A mode \in {"w_std", "w_1set", "w_1clr", "w_none"}, old \in Bit, b \in Bit :
    FieldWrite(mode, old, b) \in Bit
  BY DEF FieldWrite, Bit

LEMMA WriteRegisterType ==
  ASSUME NEW r \in Registers, NEW a \in ConfigAddr, NEW d \in WriteData
  PROVE  WriteRegister(r, a, d) \in Registers
<1>1. d[0] \in Bit /\ d[1] \in Bit /\ d[2] \in Bit
  BY DEF WriteData
<1>2. WriteCommand(r, d) \in Registers
  BY <1>1, FieldWriteType DEF WriteCommand, Registers
<1>3. WriteStatus(r, d) \in Registers
  BY <1>1, FieldWriteType DEF WriteStatus, Registers
<1>4. WriteIntEna(r, d) \in Registers
  BY <1>1, FieldWriteType DEF WriteIntEna, Registers
<1> QED
  BY <1>2, <1>3, <1>4 DEF WriteRegister

LEMMA StartRegsType == \A r \in Registers : StartRegs(r) \in Registers
  BY DEF StartRegs, Registers, Bit

LEMMA FinishRegsType ==
  \A r \in Registers, e \in Bit : FinishRegs(r, e) \in Registers
  BY DEF FinishRegs, Registers, Bit

--------------------------------------------------------------------------------
(* The change queue *)

LEMMA IntChangesType ==
  ASSUME NEW old \in [Lines -> Bit], NEW new \in [Lines -> Bit]
  PROVE  IntChanges(old, new) \in Seq(Change)
<1>1. ASSUME NEW l \in Lines
      PROVE  LineChange(l, old, new) \in Seq(Change)
  <2>1. [line |-> l, old |-> old[l], new |-> new[l]] \in Change
    BY DEF Change
  <2>2. << [line |-> l, old |-> old[l], new |-> new[l]] >> \in Seq(Change)
    BY <2>1
  <2> QED
    BY <2>2 DEF LineChange
<1>2. "INT_DONE" \in Lines /\ "INT_ERR" \in Lines
  BY DEF Lines
<1> QED
  BY <1>1, <1>2 DEF IntChanges

LEMMA ReportChangeType ==
  ASSUME NEW e \in Seq(Change), changes \in Seq(Change), ReportChange(e)
  PROVE  changes' \in Seq(Change)
  BY DEF ReportChange

LEMMA UpdateInterruptsType ==
  ASSUME NEW r \in Registers, int \in [Lines -> Bit], changes \in Seq(Change),
         UpdateInterrupts(r)
  PROVE  int' \in [Lines -> Bit] /\ changes' \in Seq(Change)
<1>1. Level(r) \in [Lines -> Bit]
  BY LevelType
<1> QED
  BY <1>1, IntChangesType, ReportChangeType DEF UpdateInterrupts
--------------------------------------------------------------------------------
(* Words and addresses *)

LEMMA AddressTypes == 0 \in Pc /\ InstrBase \in Pc /\ 0 \in Sp
  BY GeometryAssumption DEF Pc, Sp

LEMMA FetchType ==
  ASSUME imem \in [InstrAddr -> Instr]
  PROVE  ReadMemoryCoreFetch \in Instr
<1>1. (CHOOSE f \in Flags : TRUE) \in Flags
  BY GeometryAssumption
<1>2. NoInstr \in Instr
  BY <1>1, AddressTypes DEF NoInstr, Instr
<1> QED
  BY <1>2 DEF ReadMemoryCoreFetch

LEMMA ModuloType == \A a \in Nat, b \in Nat \ {0} : a % b \in 0 .. b - 1
  OBVIOUS

LEMMA NextPcType == pc \in Pc => NextPc \in Pc
<1> SUFFICES ASSUME pc \in Pc PROVE NextPc \in Pc
  OBVIOUS
<1>1. pc + 1 \in Nat /\ PcSpace \in Nat \ {0}
  BY GeometryAssumption DEF Pc
<1>2. (pc + 1) % PcSpace \in 0 .. PcSpace - 1
  BY <1>1, ModuloType
<1> QED
  BY <1>2 DEF NextPc, Pc

--------------------------------------------------------------------------------
(* One instruction *)

LEMMA StepLoopType ==
  ASSUME NEW finished \in BOOLEAN, stepsLeft \in Nat \cup {RunToEnd},
         stepsLeft # 0, StepLoop(finished)
  PROVE  stepsLeft' \in Nat \cup {RunToEnd}
  BY DEF StepLoop, RunToEnd

\* The part of the state that the end of an instruction writes.
CountedType ==
  /\ regs' \in Registers /\ int' \in [Lines -> Bit] /\ ended' \in BOOLEAN
  /\ startPc' \in Pc /\ instrCnt' \in 0 .. MaxInstrCnt + 1
  /\ imem' \in [InstrAddr -> Instr] /\ reporting' \in BOOLEAN
  /\ changes' \in Seq(Change) /\ stepsLeft' \in Nat \cup {RunToEnd}

LEMMA CountInstrType ==
  ASSUME TypeOK, stepsLeft # 0, NEW r \in Registers, NEW l \in [Lines -> Bit],
         NEW finished \in BOOLEAN, CountInstr(r, l, finished)
  PROVE  CountedType
<1> DEFINE limit == instrCnt + 1 = MaxInstrCnt
           r2    == IF limit THEN FinishRegs(r, 1) ELSE r
           l2    == IF limit THEN Level(r2) ELSE l
<1>1. r2 \in Registers
  BY FinishRegsType DEF Bit
<1>2. l2 \in [Lines -> Bit]
  BY <1>1, LevelType
<1>3. IntChanges(int, l) \o IntChanges(l, l2) \in Seq(Change)
  <2>1. IntChanges(int, l) \in Seq(Change)
    BY IntChangesType DEF TypeOK
  <2>2. IntChanges(l, l2) \in Seq(Change)
    BY <1>2, IntChangesType
  <2> QED
    BY <2>1, <2>2
<1>4. changes' \in Seq(Change)
  BY <1>3, ReportChangeType DEF CountInstr, TypeOK
<1>5. instrCnt' \in 0 .. MaxInstrCnt + 1
  BY HostAssumption DEF CountInstr, TypeOK
<1>6. stepsLeft' \in Nat \cup {RunToEnd}
  BY StepLoopType DEF CountInstr, TypeOK
<1> QED
  BY <1>1, <1>2, <1>4, <1>5, <1>6 DEF CountInstr, CountedType, TypeOK
--------------------------------------------------------------------------------
(* Type correctness *)

LEMMA ResetCoreType ==
  ASSUME ResetCore
  PROVE  /\ regs' \in Registers /\ ended' \in BOOLEAN /\ pc' \in Pc
         /\ rar' \in [RarIndex -> Pc] /\ rarSp' \in Sp
         /\ flags' \in [Flags -> BOOLEAN]
  BY ResetRegistersType, AddressTypes DEF ResetCore

LEMMA InitType == Init => TypeOK
<1> SUFFICES ASSUME Init PROVE TypeOK
  OBVIOUS
<1>1. regs \in Registers
  BY ResetRegistersType DEF Init
<1>2. int \in [Lines -> Bit]
  BY DEF Init, Bit
<1>3. changes \in Seq(Change)
  BY DEF Init
<1>4. imem \in [InstrAddr -> Instr]
  BY HostAssumption DEF Init
<1>5. instrCnt \in 0 .. MaxInstrCnt + 1
  BY HostAssumption DEF Init
<1> QED
  BY <1>1, <1>2, <1>3, <1>4, <1>5, AddressTypes DEF Init, TypeOK

LEMMA ConfigWriteType ==
  ASSUME TypeOK, NEW a \in ConfigAddr, NEW d \in WriteData, ConfigWrite(a, d)
  PROVE  TypeOK'
<1> DEFINE written == WriteRegister(regs, a, d)
           starts  == written.start = 1
           r       == IF starts THEN StartRegs(written) ELSE written
<1>1. r \in Registers
  BY WriteRegisterType, StartRegsType DEF TypeOK
<1>2. int' \in [Lines -> Bit] /\ changes' \in Seq(Change)
  BY <1>1, UpdateInterruptsType DEF ConfigWrite, TypeOK
<1>3. instrCnt' \in 0 .. MaxInstrCnt + 1
  BY HostAssumption DEF ConfigWrite, TypeOK
<1>4. UNCHANGED <<startPc, imem, reporting, stepsLeft>>
  BY DEF ConfigWrite
<1>5. CASE r.soft_reset = 1
  <2>1. ResetCore
    BY <1>5 DEF ConfigWrite
  <2> QED
    BY <1>2, <1>3, <1>4, <2>1, ResetCoreType DEF TypeOK
<1>6. CASE r.soft_reset # 1
  <2>1. /\ regs' = r /\ UNCHANGED <<rar, rarSp, flags>>
        /\ pc' = (IF starts THEN startPc ELSE pc)
        /\ ended' = (IF starts THEN FALSE ELSE ended)
    BY <1>6 DEF ConfigWrite
  <2>2. pc' \in Pc /\ ended' \in BOOLEAN
    BY <2>1 DEF TypeOK
  <2>3. regs' \in Registers
    BY <1>1, <2>1
  <2> HIDE DEF r, starts
  <2> QED
    BY <1>2, <1>3, <1>4, <2>1, <2>2, <2>3 DEF TypeOK
<1> QED
  BY <1>5, <1>6

LEMMA HostNextType == TypeOK /\ HostNext => TypeOK'
<1> SUFFICES ASSUME TypeOK, HostNext PROVE TypeOK'
  OBVIOUS
<1>1. CASE Start
  <2>1. StartRegs(regs) \in Registers
    BY StartRegsType DEF TypeOK
  <2>2. int' \in [Lines -> Bit] /\ changes' \in Seq(Change)
    BY <1>1, <2>1, UpdateInterruptsType DEF Start, TypeOK
  <2>3. instrCnt' \in 0 .. MaxInstrCnt + 1
    BY <1>1, HostAssumption DEF Start
  <2>4. regs' \in Registers
    BY <1>1, <2>1 DEF Start
  <2> QED
    BY <1>1, <2>2, <2>3, <2>4 DEF Start, TypeOK
<1>2. CASE Reset
  BY <1>2, ResetCoreType DEF Reset, TypeOK
<1>3. CASE \E a \in ConfigAddr, d \in WriteData : ConfigWrite(a, d)
  BY <1>3, ConfigWriteType
<1>4. CASE \E a \in InstrAddr, w \in Patches : StoreInstr(a, w)
  BY <1>4, HostAssumption DEF StoreInstr, TypeOK
<1>5. CASE \E a \in HostPcs : SetStartPc(a) \/ SetPc(a)
  BY <1>5, HostAssumption DEF SetStartPc, SetPc, TypeOK
<1>6. CASE \E c \in Contexts : CmdStart(c)
  <2>1. PICK c \in Context : CmdStart(c)
    BY <1>6, HostAssumption
  <2>2. StartRegs(ResetRegisters) \in Registers
    BY ResetRegistersType, StartRegsType
  <2>3. int' \in [Lines -> Bit] /\ changes' \in Seq(Change)
    BY <2>1, <2>2, UpdateInterruptsType DEF CmdStart, TypeOK
  <2>4. /\ rar' \in [RarIndex -> Pc] /\ rarSp' \in Sp
        /\ flags' \in [Flags -> BOOLEAN]
    BY <2>1 DEF CmdStart, Context
  <2>5. regs' \in Registers /\ instrCnt' \in 0 .. MaxInstrCnt + 1
    BY <2>1, <2>2, HostAssumption DEF CmdStart
  <2> QED
    BY <2>1, <2>3, <2>4, <2>5 DEF CmdStart, TypeOK
<1>7. CASE \E enable \in BOOLEAN : SetChangeReporting(enable)
  BY <1>7 DEF SetChangeReporting, cpuVars, TypeOK
<1>8. CASE ConsumeChange
  <2>1. changes' \in Seq(Change)
    BY <1>8 DEF ConsumeChange, TypeOK
  <2> QED
    BY <1>8, <2>1 DEF ConsumeChange, cpuVars, TypeOK
<1>9. CASE \E n \in StepCounts : Step(n)
  BY <1>9, HostAssumption DEF Step, cpuVars, TypeOK
<1> QED
  BY <1>1, <1>2, <1>3, <1>4, <1>5, <1>6, <1>7, <1>8, <1>9 DEF HostNext

LEMMA ExecuteType == TypeOK /\ ExecuteNextInstruction => TypeOK'
<1> SUFFICES ASSUME TypeOK, ExecuteNextInstruction PROVE TypeOK'
  OBVIOUS
<1> DEFINE i == ReadMemoryCoreFetch
<1>1. i \in Instr /\ i.tgt \in Pc
  BY FetchType DEF TypeOK, Instr
<1>2. NextPc \in Pc
  BY NextPcType DEF TypeOK
<1>3. stepsLeft # 0
  BY DEF ExecuteNextInstruction
<1>4. ASSUME Continue PROVE CountedType
  BY <1>3, <1>4, CountInstrType DEF Continue, TypeOK
<1>5. CASE ExecInvalid
  <2>1. FinishRegs(regs, 1) \in Registers
    BY FinishRegsType DEF TypeOK, Bit
  <2>2. int' \in [Lines -> Bit] /\ changes' \in Seq(Change)
    BY <1>5, <2>1, UpdateInterruptsType DEF ExecInvalid, TypeOK
  <2>3. stepsLeft' \in Nat \cup {RunToEnd}
    BY <1>3, <1>5, StepLoopType DEF ExecInvalid, TypeOK
  <2> QED
    BY <1>5, <2>1, <2>2, <2>3 DEF ExecInvalid, TypeOK
<1>6. CASE ExecData
  BY <1>2, <1>4, <1>6 DEF ExecData, CountedType, TypeOK
<1>7. CASE ExecJmp
  BY <1>1, <1>4, <1>7 DEF ExecJmp, CountedType, TypeOK
<1>8. CASE ExecBranch
  BY <1>1, <1>2, <1>4, <1>8 DEF ExecBranch, CountedType, TypeOK
<1>9. CASE ExecCall
  <2>1. rar' \in [RarIndex -> Pc]
    BY <1>2, <1>9 DEF ExecCall, TypeOK
  <2>2. rarSp' \in Sp
    BY <1>9, GeometryAssumption DEF ExecCall, Sp, RarIndex, TypeOK
  <2>3. pc' \in Pc /\ CountedType /\ UNCHANGED flags
    BY <1>1, <1>4, <1>9 DEF ExecCall
  <2> QED
    BY <2>1, <2>2, <2>3 DEF CountedType, TypeOK
<1>10. CASE ExecRet
  <2>1. rarSp' \in Sp
    <3>1. rarSp + SpSpace - 1 \in Nat /\ SpSpace \in Nat \ {0}
      BY GeometryAssumption DEF TypeOK, Sp
    <3>2. rarSp' = (rarSp + SpSpace - 1) % SpSpace
      BY <1>10 DEF ExecRet
    <3> QED
      BY <3>1, <3>2, ModuloType DEF Sp
  <2>2. pc' \in Pc
    BY <1>10 DEF ExecRet, TypeOK
  <2>3. CountedType /\ UNCHANGED <<rar, flags>>
    BY <1>4, <1>10 DEF ExecRet
  <2> QED
    BY <2>1, <2>2, <2>3 DEF CountedType, TypeOK
<1>11. CASE ExecEnd
  <2>1. FinishRegs(regs, 0) \in Registers
    BY FinishRegsType DEF TypeOK, Bit
  <2>2. Level(FinishRegs(regs, 0)) \in [Lines -> Bit]
    BY <2>1, LevelType
  <2>3. CountedType
    BY <1>3, <1>11, <2>1, <2>2, CountInstrType DEF ExecEnd
  <2> QED
    BY <1>11, <2>3 DEF ExecEnd, CountedType, TypeOK
<1> QED
  BY <1>5, <1>6, <1>7, <1>8, <1>9, <1>10, <1>11 DEF ExecuteNextInstruction

\* In every reachable state every variable has its type; in particular the
\* program counter stays within its 16 bits when a program runs off the end of
\* the memory, and so does the stack pointer when an empty RAR stack is popped.
THEOREM TypeCorrect == Spec => []TypeOK
<1>1. TypeOK /\ [Next]_vars => TypeOK'
  <2> SUFFICES ASSUME TypeOK, [Next]_vars PROVE TypeOK'
    OBVIOUS
  <2>1. CASE UNCHANGED vars
    BY <2>1 DEF vars, cpuVars, TypeOK
  <2> QED
    BY <2>1, HostNextType, ExecuteType DEF Next
<1> QED
  BY InitType, <1>1, PTL DEF Spec
--------------------------------------------------------------------------------
(* Registers, interrupt outputs and end_executed_ *)

\* ControlInv, said of given registers r, end_executed_ e and outputs l.
Agree(r, e, l) ==
  /\ r.start = 0 /\ r.soft_reset = 0
  /\ ~(r.done = 1 /\ r.err = 1)
  /\ e => r.idle = 1
  /\ r.idle = 1 /\ ~e => r.done = 0 /\ r.err = 0
  /\ r # ResetRegisters => l = Level(r)

LEMMA ControlInvAgrees == ControlInv <=> Agree(regs, ended, int)
  BY DEF ControlInv, CommandSelfClears, StatusConsistent,
         InterruptsFollowRegs, Agree

LEMMA ResetAgrees == \A l : Agree(ResetRegisters, FALSE, l)
  BY DEF Agree, ResetRegisters

LEMMA StartAgrees ==
  ASSUME NEW r \in Registers, r.soft_reset = 0, ~(r.done = 1 /\ r.err = 1)
  PROVE  Agree(StartRegs(r), FALSE, Level(StartRegs(r)))
<1> DEFINE s == StartRegs(r)
<1>1. /\ s.start = 0 /\ s.soft_reset = 0 /\ s.idle = 0
      /\ s.done = r.done /\ s.err = r.err
  BY DEF StartRegs, Registers
<1> QED
  BY <1>1 DEF Agree

LEMMA FinishAgrees ==
  ASSUME NEW r \in Registers, r.start = 0, r.soft_reset = 0, NEW b \in Bit
  PROVE  Agree(FinishRegs(r, b), TRUE, Level(FinishRegs(r, b)))
<1> DEFINE f == FinishRegs(r, b)
<1>1. /\ f.start = 0 /\ f.soft_reset = 0 /\ f.idle = 1
      /\ f.done = (IF b = 0 THEN 1 ELSE 0) /\ f.err = b
  BY DEF FinishRegs, Registers
<1> QED
  BY <1>1 DEF Agree, Bit

\* A write leaves IDLE alone and can only take results away.
LEMMA WriteKeepsStatus ==
  ASSUME NEW r \in Registers, NEW a \in ConfigAddr, NEW d \in WriteData
  PROVE  LET w == WriteRegister(r, a, d) IN
         /\ w.idle = r.idle
         /\ w.done = 1 => r.done = 1
         /\ w.err = 1 => r.err = 1
<1>1. d[1] \in Bit /\ d[2] \in Bit
  BY DEF WriteData
<1>2. /\ WriteCommand(r, d).idle = r.idle
      /\ WriteCommand(r, d).done = r.done
      /\ WriteCommand(r, d).err = r.err
  BY DEF WriteCommand, Registers
<1>3. /\ WriteIntEna(r, d).idle = r.idle
      /\ WriteIntEna(r, d).done = r.done
      /\ WriteIntEna(r, d).err = r.err
  BY DEF WriteIntEna, Registers
<1>4. /\ WriteStatus(r, d).idle = r.idle
      /\ WriteStatus(r, d).done = 1 => r.done = 1
      /\ WriteStatus(r, d).err = 1 => r.err = 1
  BY <1>1 DEF WriteStatus, FieldWrite, Registers, Bit
<1> QED
  BY <1>2, <1>3, <1>4 DEF WriteRegister

LEMMA CountInstrAgrees ==
  ASSUME NEW r \in Registers, NEW l, NEW finished \in BOOLEAN,
         Agree(r, finished, l), CountInstr(r, l, finished)
  PROVE  ControlInv'
<1>1. Agree(regs', ended', int')
  <2>1. CASE instrCnt + 1 = MaxInstrCnt
    <3>1. /\ regs' = FinishRegs(r, 1) /\ ended' = TRUE
          /\ int' = Level(FinishRegs(r, 1))
      BY <2>1 DEF CountInstr
    <3> QED
      BY <3>1, FinishAgrees DEF Agree, Bit
  <2>2. CASE instrCnt + 1 # MaxInstrCnt
    BY <2>2 DEF CountInstr
  <2> QED
    BY <2>1, <2>2
<1> QED
  BY <1>1 DEF ControlInv, CommandSelfClears, StatusConsistent,
              InterruptsFollowRegs, Agree

LEMMA ConfigWriteControl ==
  ASSUME TypeOK, ControlInv, NEW a \in ConfigAddr, NEW d \in WriteData,
         ConfigWrite(a, d)
  PROVE  Agree(regs', ended', int')
<1> DEFINE w == WriteRegister(regs, a, d)
           r == IF w.start = 1 THEN StartRegs(w) ELSE w
<1>1. w \in Registers
  BY WriteRegisterType DEF TypeOK
<1>2. /\ w.idle = regs.idle
      /\ w.done = 1 => regs.done = 1
      /\ w.err = 1 => regs.err = 1
  BY WriteKeepsStatus DEF TypeOK
<1>3. int' = Level(r)
  BY DEF ConfigWrite, UpdateInterrupts
<1>4. ~(w.done = 1 /\ w.err = 1)
  BY <1>2 DEF ControlInv, StatusConsistent
<1>5. CASE r.soft_reset = 1
  <2>1. regs' = ResetRegisters /\ ended' = FALSE
    BY <1>5 DEF ConfigWrite, ResetCore
  <2> QED
    BY <2>1, ResetAgrees
<1>6. CASE r.soft_reset # 1 /\ w.start = 1
  <2>1. regs' = StartRegs(w) /\ ended' = FALSE
    BY <1>6 DEF ConfigWrite
  <2>2. w.soft_reset = 0
    BY <1>1, <1>6 DEF StartRegs, Registers, Bit
  <2> QED
    BY <1>1, <1>3, <1>4, <1>6, <2>1, <2>2, StartAgrees
<1>7. CASE r.soft_reset # 1 /\ w.start # 1
  <2>1. regs' = w /\ ended' = ended /\ int' = Level(w)
    BY <1>3, <1>7 DEF ConfigWrite
  <2>2. w.start = 0 /\ w.soft_reset = 0
    BY <1>1, <1>7 DEF Registers, Bit
  <2>3. w.idle = 1 /\ ~ended => w.done = 0 /\ w.err = 0
    BY <1>1, <1>2 DEF ControlInv, StatusConsistent, Registers, Bit
  <2>4. ended => w.idle = 1
    BY <1>2 DEF ControlInv, StatusConsistent
  <2> QED
    BY <1>4, <2>1, <2>2, <2>3, <2>4 DEF Agree
<1> QED
  BY <1>5, <1>6, <1>7

LEMMA HostNextControl == TypeOK /\ ControlInv /\ HostNext => ControlInv'
<1> SUFFICES ASSUME TypeOK, ControlInv, HostNext PROVE Agree(regs', ended', int')
  BY DEF ControlInv, CommandSelfClears, StatusConsistent,
         InterruptsFollowRegs, Agree
<1>1. regs \in Registers /\ Agree(regs, ended, int)
  BY ControlInvAgrees DEF TypeOK
<1>2. CASE Start
  <2>1. regs' = StartRegs(regs) /\ ended' = FALSE /\ int' = Level(StartRegs(regs))
    BY <1>2 DEF Start, UpdateInterrupts
  <2> QED
    BY <1>1, <2>1, StartAgrees DEF Agree
<1>3. CASE Reset
  BY <1>3, ResetAgrees DEF Reset, ResetCore
<1>4. CASE \E a \in ConfigAddr, d \in WriteData : ConfigWrite(a, d)
  BY <1>4, ConfigWriteControl
<1>5. CASE \E c \in Contexts : CmdStart(c)
  <2>1. /\ regs' = StartRegs(ResetRegisters) /\ ended' = FALSE
        /\ int' = Level(StartRegs(ResetRegisters))
    BY <1>5 DEF CmdStart, UpdateInterrupts
  <2>2. /\ ResetRegisters.soft_reset = 0
        /\ ~(ResetRegisters.done = 1 /\ ResetRegisters.err = 1)
    BY DEF ResetRegisters
  <2> QED
    BY <2>1, <2>2, ResetRegistersType, StartAgrees
<1>6. CASE UNCHANGED <<regs, ended, int>>
  BY <1>1, <1>6
<1> QED
  BY <1>2, <1>3, <1>4, <1>5, <1>6
  DEF HostNext, StoreInstr, SetStartPc, SetPc, SetChangeReporting,
      ConsumeChange, Step, cpuVars

LEMMA ExecuteControl ==
  TypeOK /\ ControlInv /\ ExecuteNextInstruction => ControlInv'
<1> SUFFICES ASSUME TypeOK, ControlInv, ExecuteNextInstruction PROVE ControlInv'
  OBVIOUS
<1>1. regs \in Registers /\ Agree(regs, ended, int)
  BY ControlInvAgrees DEF TypeOK
<1>2. \A b \in Bit : Agree(FinishRegs(regs, b), TRUE, Level(FinishRegs(regs, b)))
  BY <1>1, FinishAgrees DEF Agree
<1>3. CASE ExecInvalid
  <2>1. Agree(regs', ended', int')
    BY <1>2, <1>3 DEF ExecInvalid, UpdateInterrupts, Bit
  <2> QED
    BY <2>1 DEF ControlInv, CommandSelfClears, StatusConsistent,
                InterruptsFollowRegs, Agree
<1>4. CASE ExecEnd
  <2>1. FinishRegs(regs, 0) \in Registers
    BY <1>1, FinishRegsType DEF Bit
  <2>2. Agree(FinishRegs(regs, 0), TRUE, Level(FinishRegs(regs, 0)))
    BY <1>2 DEF Bit
  <2> QED
    BY <1>4, <2>1, <2>2, CountInstrAgrees DEF ExecEnd
<1>5. CASE Continue
  BY <1>1, <1>5, CountInstrAgrees DEF Continue, TypeOK
<1> QED
  BY <1>3, <1>4, <1>5
  DEF ExecuteNextInstruction, ExecData, ExecJmp, ExecBranch, ExecCall, ExecRet

\* Registers, interrupt outputs and end_executed_ agree in every reachable
\* state.  The three parts of ControlInv are proved together: that a write of the
\* host keeps the results exclusive, for one, rests on the command bits being
\* clear before it.
THEOREM ControlCorrect == Spec => []ControlInv
<1>1. Init => ControlInv
  <2> SUFFICES ASSUME Init PROVE Agree(regs, ended, int)
    BY ControlInvAgrees
  <2> QED
    BY ResetAgrees DEF Init
<1>2. TypeOK /\ ControlInv /\ [Next]_vars => ControlInv'
  <2> SUFFICES ASSUME TypeOK, ControlInv, [Next]_vars PROVE ControlInv'
    OBVIOUS
  <2>1. CASE UNCHANGED vars
    BY <2>1 DEF vars, cpuVars, ControlInv, CommandSelfClears,
                StatusConsistent, InterruptsFollowRegs
  <2> QED
    BY <2>1, HostNextControl, ExecuteControl DEF Next
<1> QED
  BY <1>1, <1>2, TypeCorrect, PTL DEF Spec

\* The three parts one by one: the bits of COMMAND are consumed, STATUS agrees with
\* end_executed_, and the outputs follow the registers.
COROLLARY CommandSelfClearing == Spec => []CommandSelfClears
  BY ControlCorrect, PTL DEF ControlInv

COROLLARY StatusConsistency == Spec => []StatusConsistent
  BY ControlCorrect, PTL DEF ControlInv

COROLLARY InterruptConsistency == Spec => []InterruptsFollowRegs
  BY ControlCorrect, PTL DEF ControlInv

--------------------------------------------------------------------------------
(* What a step does to the result *)

\* The registers after one instruction: as they were, or finished.
LEMMA ExecuteRegs ==
  ASSUME TypeOK, ExecuteNextInstruction
  PROVE  \/ UNCHANGED <<regs, ended>>
         \/ /\ ended' /\ stepsLeft' = 0
            /\ regs'.idle = 1
            /\ \/ regs'.done = 1 /\ regs'.err = 0
               \/ regs'.done = 0 /\ regs'.err = 1
<1> DEFINE Finished(r) == /\ r.idle = 1
                          /\ \/ r.done = 1 /\ r.err = 0
                             \/ r.done = 0 /\ r.err = 1
<1>1. \A r \in Registers, b \in Bit : Finished(FinishRegs(r, b))
  BY DEF FinishRegs, Registers, Bit
<1>2. regs \in Registers
  BY DEF TypeOK
<1>3. CASE ExecInvalid
  BY <1>1, <1>2, <1>3 DEF ExecInvalid, StepLoop, Bit
<1>4. CASE ExecEnd
  <2>1. FinishRegs(regs, 0) \in Registers
    BY <1>2, FinishRegsType DEF Bit
  <2>2. /\ regs' \in {FinishRegs(regs, 0), FinishRegs(FinishRegs(regs, 0), 1)}
        /\ ended' = TRUE /\ stepsLeft' = 0
    BY <1>4 DEF ExecEnd, CountInstr, StepLoop
  <2>3. 1 \in Bit /\ 0 \in Bit
    BY DEF Bit
  <2>4. Finished(regs')
    BY <1>1, <1>2, <2>1, <2>2, <2>3
  <2> QED
    BY <2>2, <2>4
<1>5. CASE Continue
  <2>1. CASE instrCnt + 1 = MaxInstrCnt
    <3>1. regs' = FinishRegs(regs, 1) /\ ended' = TRUE /\ stepsLeft' = 0
      BY <1>5, <2>1 DEF Continue, CountInstr, StepLoop
    <3> QED
      BY <1>1, <1>2, <3>1 DEF Bit
  <2>2. CASE instrCnt + 1 # MaxInstrCnt
    BY <1>5, <2>2 DEF Continue, CountInstr, TypeOK
  <2> QED
    BY <2>1, <2>2
<1> QED
  BY <1>3, <1>4, <1>5
  DEF ExecuteNextInstruction, ExecData, ExecJmp, ExecBranch, ExecCall, ExecRet

\* The registers after a call of the host: as they were, started, reset, reset
\* and started, or with fewer results than before.
LEMMA HostRegs ==
  ASSUME TypeOK, ControlInv, HostNext
  PROVE  \/ UNCHANGED <<regs, ended>>
         \/ /\ ~ended' /\ regs'.idle = 0
            /\ \/ regs'.done = regs.done /\ regs'.err = regs.err
               \/ regs'.done = 0 /\ regs'.err = 0
         \/ ~ended' /\ regs' = ResetRegisters
         \/ /\ UNCHANGED ended /\ regs'.idle = regs.idle
            /\ regs'.done = 1 => regs.done = 1
            /\ regs'.err = 1 => regs.err = 1
<1>1. regs \in Registers
  BY DEF TypeOK
<1>2. \A r \in Registers : /\ StartRegs(r).idle = 0
                           /\ StartRegs(r).done = r.done
                           /\ StartRegs(r).err = r.err
  BY DEF StartRegs, Registers
<1>3. CASE Start
  BY <1>1, <1>2, <1>3 DEF Start
<1>4. CASE Reset
  BY <1>4 DEF Reset, ResetCore
<1>5. CASE \E c \in Contexts : CmdStart(c)
  BY <1>2, <1>5, ResetRegistersType DEF CmdStart, ResetRegisters
<1>6. CASE \E a \in ConfigAddr, d \in WriteData : ConfigWrite(a, d)
  <2>1. PICK a \in ConfigAddr, d \in WriteData : ConfigWrite(a, d)
    BY <1>6
  <2> DEFINE w == WriteRegister(regs, a, d)
             r == IF w.start = 1 THEN StartRegs(w) ELSE w
  <2>2. w \in Registers
    BY <1>1, WriteRegisterType
  <2>3. CASE r.soft_reset = 1
    BY <2>1, <2>3 DEF ConfigWrite, ResetCore
  <2>4. CASE r.soft_reset # 1 /\ w.start = 1
    <3>1. a = "COMMAND"
      BY <1>1, <2>4
      DEF WriteRegister, WriteStatus, WriteIntEna, ControlInv,
          CommandSelfClears, Registers
    <3>2. w.done = regs.done /\ w.err = regs.err
      BY <1>1, <3>1 DEF WriteRegister, WriteCommand, Registers
    <3>3. regs' = StartRegs(w) /\ ~ended'
      BY <2>1, <2>4 DEF ConfigWrite
    <3> QED
      BY <1>2, <2>2, <3>2, <3>3
  <2>5. CASE r.soft_reset # 1 /\ w.start # 1
    <3>1. regs' = w /\ UNCHANGED ended
      BY <2>1, <2>5 DEF ConfigWrite
    <3> QED
      BY <1>1, <3>1, WriteKeepsStatus
  <2> QED
    BY <2>3, <2>4, <2>5
<1>7. CASE UNCHANGED <<regs, ended>>
  BY <1>7
<1> QED
  BY <1>3, <1>4, <1>5, <1>6, <1>7
  DEF HostNext, StoreInstr, SetStartPc, SetPc, SetChangeReporting,
      ConsumeChange, Step, cpuVars

\* A result appears in STATUS only as the last act of a Step call that ends the
\* program: no write of the host and no start sets DONE or ERR.
THEOREM ResultsComeFromExecution == Spec => ResultOnlyByExecution
<1>1. TypeOK /\ ControlInv /\ [Next]_vars =>
        [regs'.done > regs.done \/ regs'.err > regs.err
           => stepsLeft # 0 /\ stepsLeft' = 0 /\ ended' /\ regs'.idle = 1]_vars
  <2> SUFFICES ASSUME TypeOK, ControlInv, Next,
                      regs'.done > regs.done \/ regs'.err > regs.err
               PROVE  stepsLeft # 0 /\ stepsLeft' = 0 /\ ended' /\ regs'.idle = 1
    OBVIOUS
  <2>1. regs.done \in Bit /\ regs.err \in Bit
    BY DEF TypeOK, Registers
  <2>2. ASSUME HostNext PROVE FALSE
    <3>1. ResetRegisters.done = 0 /\ ResetRegisters.err = 0
      BY DEF ResetRegisters
    <3>2. /\ regs'.done = 1 => regs.done = 1
          /\ regs'.err = 1 => regs.err = 1
      BY <2>2, <3>1, HostRegs
    <3>3. regs'.done \in Bit /\ regs'.err \in Bit
      BY <2>2, HostNextType DEF TypeOK, Registers
    <3> QED
      BY <2>1, <3>2, <3>3 DEF Bit
  <2> QED
    BY <2>1, <2>2, ExecuteRegs DEF Next, ExecuteNextInstruction, Bit
<1> QED
  BY <1>1, TypeCorrect, ControlCorrect, PTL DEF Spec, ResultOnlyByExecution

--------------------------------------------------------------------------------
(* The invocation protocol *)

LEMMA InitInvocation == Init => Invocation!InvocationInit
  BY DEF Init, ResetRegisters, Phase, Result, Invocation!InvocationInit

LEMMA NextInvocation ==
  TypeOK /\ ControlInv /\ TypeOK' /\ ControlInv' /\ [Next]_vars =>
    [Invocation!InvocationNext]_Invocation!invocationVars
<1> USE DEF Invocation!InvocationNext, Invocation!Launch, Invocation!FreshLaunch,
            Invocation!SoftReset, Invocation!Conclude, Invocation!Acknowledge,
            Invocation!invocationVars
<1> SUFFICES ASSUME TypeOK, ControlInv, TypeOK', ControlInv', [Next]_vars
             PROVE  [Invocation!InvocationNext]_Invocation!invocationVars
  OBVIOUS
<1>1. /\ regs.done \in Bit /\ regs.err \in Bit /\ regs.idle \in Bit
      /\ regs'.done \in Bit /\ regs'.err \in Bit /\ regs'.idle \in Bit
      /\ ended \in BOOLEAN /\ ended' \in BOOLEAN
  BY DEF TypeOK, Registers
<1>2. ~(regs.done = 1 /\ regs.err = 1) /\ ~(regs'.done = 1 /\ regs'.err = 1)
  BY DEF ControlInv, StatusConsistent
<1>3. CASE UNCHANGED <<regs, ended>>
  BY <1>3 DEF Phase, Result
<1>4. CASE ExecuteNextInstruction
  <2>1. CASE UNCHANGED <<regs, ended>>
    BY <1>3, <2>1
  <2>2. CASE /\ ended' /\ regs'.idle = 1
             /\ \/ regs'.done = 1 /\ regs'.err = 0
                \/ regs'.done = 0 /\ regs'.err = 1
    <3>1. Phase' = "finished" /\ Result' \in {"done", "err"}
      BY <2>2 DEF Phase, Result
    <3> QED
      BY <3>1
  <2> QED
    BY <1>4, <2>1, <2>2, ExecuteRegs
<1>5. CASE HostNext
  <2>1. CASE ~ended' /\ regs' = ResetRegisters
    <3>1. Phase' = "reset" /\ Result' = "none"
      BY <2>1 DEF Phase, Result, ResetRegisters
    <3> QED
      BY <3>1
  <2>2. CASE /\ ~ended' /\ regs'.idle = 0
             /\ regs'.done = regs.done /\ regs'.err = regs.err
    <3>1. Phase' = "running" /\ Result' = Result
      BY <2>2 DEF Phase, Result
    <3> QED
      BY <3>1
  <2>3. CASE ~ended' /\ regs'.idle = 0 /\ regs'.done = 0 /\ regs'.err = 0
    <3>1. Phase' = "running" /\ Result' = "none"
      BY <2>3 DEF Phase, Result
    <3> QED
      BY <3>1
  <2>4. CASE /\ UNCHANGED ended /\ regs'.idle = regs.idle
             /\ regs'.done = 1 => regs.done = 1
             /\ regs'.err = 1 => regs.err = 1
    <3>1. Phase' = Phase
      BY <2>4 DEF Phase
    <3>2. Result' = "none" \/ Result' = Result
      BY <1>1, <1>2, <2>4 DEF Result, Bit
    <3> QED
      BY <3>1, <3>2
  <2> QED
    BY <1>3, <1>5, <2>1, <2>2, <2>3, <2>4, HostRegs
<1> QED
  BY <1>3, <1>4, <1>5 DEF Next, vars, cpuVars

\* Every behaviour of the model is a behaviour of the invocation protocol: no
\* program finishes without a result, and a result stays until it is
\* acknowledged, reset away or replaced by another execution.
THEOREM InvocationRefinement == Spec => ImplementsInvocation
  BY InitInvocation, NextInvocation, TypeCorrect, ControlCorrect, PTL
  DEF Spec, ImplementsInvocation, Invocation!InvocationSpec

--------------------------------------------------------------------------------
(* The changes a testbench reads *)

\* What ChangesChain says of one output l, of a queue q and of the value v the
\* output has now.
LineChain(l, q, v) ==
  \A i \in DOMAIN q :
    q[i].line = l =>
      /\ q[i].old # q[i].new
      /\ \/ \E j \in DOMAIN q :
              /\ j > i /\ q[j].line = l
              /\ q[j].old = q[i].new
              /\ \A k \in i + 1 .. j - 1 : q[k].line # l
         \/ /\ q[i].new = v
            /\ \A k \in DOMAIN q : k > i => q[k].line # l

LEMMA ChangesChainLines ==
  ChangesChain <=> \A l \in Lines : LineChain(l, changes, int[l])
  BY DEF ChangesChain, LineChain

\* Reading the oldest entry leaves a chain.
LEMMA TailKeepsChain ==
  ASSUME NEW l, NEW v, NEW q \in Seq(Change), q # <<>>, LineChain(l, q, v)
  PROVE  LineChain(l, Tail(q), v)
<1> DEFINE t == Tail(q)
<1>1. /\ Len(q) \in Nat /\ Len(q) > 0 /\ DOMAIN q = 1 .. Len(q)
      /\ t \in Seq(Change) /\ Len(t) = Len(q) - 1 /\ DOMAIN t = 1 .. Len(t)
      /\ \A i \in DOMAIN t : t[i] = q[i + 1]
  OBVIOUS
<1> HIDE DEF t
<1>2. ASSUME NEW i \in DOMAIN t, t[i].line = l
      PROVE  /\ t[i].old # t[i].new
             /\ \/ \E j \in DOMAIN t :
                     /\ j > i /\ t[j].line = l
                     /\ t[j].old = t[i].new
                     /\ \A k \in i + 1 .. j - 1 : t[k].line # l
                \/ /\ t[i].new = v
                   /\ \A k \in DOMAIN t : k > i => t[k].line # l
  <2>1. i + 1 \in DOMAIN q /\ t[i] = q[i + 1]
    BY <1>1
  <2>2. CASE /\ q[i + 1].new = v
             /\ \A k \in DOMAIN q : k > i + 1 => q[k].line # l
    <3>1. ASSUME NEW k \in DOMAIN t, k > i PROVE t[k].line # l
      <4>1. k + 1 \in DOMAIN q /\ k + 1 > i + 1 /\ t[k] = q[k + 1]
        BY <1>1, <3>1
      <4> QED
        BY <2>2, <4>1
    <3> QED
      BY <1>2, <2>1, <2>2, <3>1 DEF LineChain
  <2>3. ASSUME NEW j \in DOMAIN q,
               j > i + 1, q[j].line = l, q[j].old = q[i + 1].new,
               \A k \in (i + 1) + 1 .. j - 1 : q[k].line # l
        PROVE  \E jj \in DOMAIN t :
                 /\ jj > i /\ t[jj].line = l
                 /\ t[jj].old = t[i].new
                 /\ \A k \in i + 1 .. jj - 1 : t[k].line # l
    <3>1. j - 1 \in DOMAIN t /\ j - 1 > i /\ t[j - 1] = q[j]
      BY SMTT(30), <1>1, <2>3
    <3>2. ASSUME NEW k \in i + 1 .. (j - 1) - 1 PROVE t[k].line # l
      <4>1. i \in Nat /\ i >= 1 /\ j \in Nat /\ j <= Len(t) + 1 /\ Len(t) \in Nat
        BY <1>1
      <4>2. k \in Nat /\ k >= i + 1 /\ k <= j - 2
        BY <3>2, <4>1
      <4>3. k \in 1 .. Len(t) /\ k + 1 \in (i + 1) + 1 .. j - 1
        BY <4>1, <4>2
      <4>4. t[k] = q[k + 1]
        BY <1>1, <4>3
      <4> QED
        BY <2>3, <4>3, <4>4
    <3> QED
      BY <2>1, <2>3, <3>1, <3>2
  <2> QED
    BY <1>2, <2>1, <2>2, <2>3 DEF LineChain
<1>3. LineChain(l, t, v)
  BY <1>2 DEF LineChain
<1> QED
  BY <1>3 DEF t

\* An entry of another output does not disturb the chain of l, and one of l
\* continues it if it starts from the value l had.
LEMMA AppendKeepsChain ==
  ASSUME NEW l, NEW v, NEW w, NEW q \in Seq(Change), NEW c \in Change,
         LineChain(l, q, v),
         IF c.line = l THEN c.old = v /\ c.new = w /\ v # w ELSE w = v
  PROVE  LineChain(l, q \o <<c>>, w)
<1> DEFINE t == q \o <<c>>
<1>1. /\ Len(q) \in Nat /\ DOMAIN q = 1 .. Len(q)
      /\ Len(t) = Len(q) + 1 /\ DOMAIN t = 1 .. Len(q) + 1
      /\ \A i \in DOMAIN q : t[i] = q[i]
      /\ t[Len(q) + 1] = c
  OBVIOUS
<1> HIDE DEF t
<1>2. ASSUME NEW i \in DOMAIN t, t[i].line = l
      PROVE  /\ t[i].old # t[i].new
             /\ \/ \E j \in DOMAIN t :
                     /\ j > i /\ t[j].line = l
                     /\ t[j].old = t[i].new
                     /\ \A k \in i + 1 .. j - 1 : t[k].line # l
                \/ /\ t[i].new = w
                   /\ \A k \in DOMAIN t : k > i => t[k].line # l
  <2>1. CASE i = Len(q) + 1
    BY <1>1, <1>2, <2>1
  <2>2. CASE i \in DOMAIN q
    <3>1. t[i] = q[i] /\ q[i].line = l
      BY <1>1, <1>2, <2>2
    <3>2. ASSUME NEW j \in DOMAIN q,
                 j > i, q[j].line = l, q[j].old = q[i].new,
                 \A k \in i + 1 .. j - 1 : q[k].line # l
          PROVE  \E jj \in DOMAIN t :
                   /\ jj > i /\ t[jj].line = l
                   /\ t[jj].old = t[i].new
                   /\ \A k \in i + 1 .. jj - 1 : t[k].line # l
      <4>1. j \in DOMAIN t /\ t[j] = q[j]
        BY <1>1
      <4>2. \A k \in i + 1 .. j - 1 : k \in DOMAIN q /\ t[k] = q[k]
        BY <1>1, <2>2
      <4> QED
        BY <3>1, <3>2, <4>1, <4>2
    <3>3. CASE /\ q[i].new = v
               /\ \A k \in DOMAIN q : k > i => q[k].line # l
      <4>1. CASE c.line = l
        <5>1. Len(q) + 1 \in DOMAIN t /\ Len(q) + 1 > i
          BY <1>1, <2>2
        <5>2. \A k \in i + 1 .. (Len(q) + 1) - 1 : t[k].line # l
          BY <1>1, <2>2, <3>3
        <5> QED
          BY <1>1, <3>1, <3>3, <4>1, <5>1, <5>2 DEF LineChain
      <4>2. CASE c.line # l
        <5>1. \A k \in DOMAIN t : k > i => t[k].line # l
          BY <1>1, <2>2, <3>3, <4>2
        <5> QED
          BY <2>2, <3>1, <3>3, <4>2, <5>1 DEF LineChain
      <4> QED
        BY <4>1, <4>2
    <3> QED
      BY <2>2, <3>1, <3>2, <3>3 DEF LineChain
  <2> QED
    BY <1>1, <2>1, <2>2
<1>3. LineChain(l, t, w)
  BY <1>2 DEF LineChain
<1> QED
  BY <1>3 DEF t

\* One UpdateInterrupts that reports leads every chain to the new outputs.
LEMMA IntChangesKeepChain ==
  ASSUME NEW old \in [Lines -> Bit], NEW new \in [Lines -> Bit],
         NEW q \in Seq(Change), NEW l \in Lines, LineChain(l, q, old[l])
  PROVE  LineChain(l, q \o IntChanges(old, new), new[l])
<1> DEFINE d == LineChange("INT_DONE", old, new)
           e == LineChange("INT_ERR", old, new)
           entry(m) == [line |-> m, old |-> old[m], new |-> new[m]]
<1>1. Lines = {"INT_DONE", "INT_ERR"}
  BY DEF Lines
<1>2. \A m \in Lines : entry(m) \in Change
  BY DEF Change
<1>3. ASSUME NEW m \in Lines, NEW s \in Seq(Change), NEW v,
             v = (IF m = l THEN old[l] ELSE v), LineChain(l, s, v)
      PROVE  /\ s \o LineChange(m, old, new) \in Seq(Change)
             /\ LineChain(l, s \o LineChange(m, old, new),
                          IF m = l THEN new[l] ELSE v)
  <2>1. CASE old[m] = new[m]
    <3>1. s \o LineChange(m, old, new) = s
      BY <2>1 DEF LineChange
    <3> QED
      BY <1>3, <2>1, <3>1
  <2>2. CASE old[m] # new[m]
    <3>1. LineChange(m, old, new) = <<entry(m)>>
      BY <2>2 DEF LineChange
    <3>2. /\ entry(m).line = m /\ entry(m).old = old[m] /\ entry(m).new = new[m]
      OBVIOUS
    <3>3. entry(m) \in Change
      BY <1>2
    <3> HIDE DEF entry
    <3>4. s \o <<entry(m)>> \in Seq(Change)
      BY <3>3
    <3>5. LineChain(l, s \o <<entry(m)>>, IF m = l THEN new[l] ELSE v)
      BY <1>3, <2>2, <3>2, <3>3, AppendKeepsChain
    <3> QED
      BY <3>1, <3>4, <3>5
  <2> QED
    BY <2>1, <2>2
<1>4. "INT_DONE" \in Lines /\ "INT_ERR" \in Lines /\ "INT_DONE" # "INT_ERR"
  BY <1>1
<1>5. d \in Seq(Change) /\ e \in Seq(Change)
  BY <1>2, <1>4 DEF LineChange
<1>6. q \o IntChanges(old, new) = (q \o d) \o e
  BY <1>5 DEF IntChanges
<1>7. CASE l = "INT_DONE"
  <2>1. q \o d \in Seq(Change) /\ LineChain(l, q \o d, new[l])
    BY <1>3, <1>4, <1>7
  <2> QED
    BY <1>3, <1>4, <1>6, <1>7, <2>1
<1>8. CASE l = "INT_ERR"
  <2>1. q \o d \in Seq(Change) /\ LineChain(l, q \o d, old[l])
    BY <1>3, <1>4, <1>8
  <2> QED
    BY <1>3, <1>4, <1>6, <1>8, <2>1
<1> QED
  BY <1>1, <1>7, <1>8

LEMMA UpdateInterruptsChain ==
  ASSUME TypeOK, reporting, ChangesChain, NEW r \in Registers, UpdateInterrupts(r)
  PROVE  ChangesChain'
<1>1. Level(r) \in [Lines -> Bit]
  BY LevelType
<1>2. changes' = changes \o IntChanges(int, Level(r)) /\ int' = Level(r)
  BY DEF UpdateInterrupts, ReportChange
<1>3. ASSUME NEW l \in Lines
      PROVE  LineChain(l, changes \o IntChanges(int, Level(r)), Level(r)[l])
  BY <1>1, ChangesChainLines, IntChangesKeepChain DEF TypeOK
<1>4. \A l \in Lines : LineChain(l, changes', int'[l])
  BY <1>2, <1>3
<1> QED
  BY <1>4 DEF ChangesChain, LineChain

\* The instruction and the limit it may reach report one after the other.
LEMMA CountInstrChain ==
  ASSUME TypeOK, reporting, ChangesChain, NEW r \in Registers,
         NEW lines \in [Lines -> Bit], NEW finished, CountInstr(r, lines, finished)
  PROVE  ChangesChain'
<1>1. PICK lines2 \in [Lines -> Bit] :
        /\ int' = lines2
        /\ changes' = changes \o (IntChanges(int, lines) \o IntChanges(lines, lines2))
  <2>1. CASE instrCnt + 1 = MaxInstrCnt
    <3>1. Level(FinishRegs(r, 1)) \in [Lines -> Bit]
      BY FinishRegsType, LevelType DEF Bit
    <3> QED
      BY <2>1, <3>1 DEF CountInstr, ReportChange
  <2>2. CASE instrCnt + 1 # MaxInstrCnt
    BY <2>2 DEF CountInstr, ReportChange
  <2> QED
    BY <2>1, <2>2
<1>2. /\ changes \in Seq(Change) /\ int \in [Lines -> Bit]
      /\ IntChanges(int, lines) \in Seq(Change)
      /\ IntChanges(lines, lines2) \in Seq(Change)
  BY IntChangesType DEF TypeOK
<1>3. changes' = (changes \o IntChanges(int, lines)) \o IntChanges(lines, lines2)
  BY <1>1, <1>2
<1>4. ASSUME NEW l \in Lines PROVE LineChain(l, changes', int'[l])
  <2>1. LineChain(l, changes \o IntChanges(int, lines), lines[l])
    BY <1>2, ChangesChainLines, IntChangesKeepChain
  <2>2. changes \o IntChanges(int, lines) \in Seq(Change)
    BY <1>2
  <2> QED
    BY <1>1, <1>3, <2>1, <2>2, IntChangesKeepChain
<1> QED
  BY <1>4 DEF ChangesChain, LineChain

LEMMA ChangesChainStep ==
  TypeOK /\ reporting /\ ChangesChain /\ [Next]_vars => ChangesChain'
<1> SUFFICES ASSUME TypeOK, reporting, ChangesChain, [Next]_vars
             PROVE  ChangesChain'
  OBVIOUS
<1>1. regs \in Registers /\ int \in [Lines -> Bit] /\ changes \in Seq(Change)
  BY DEF TypeOK
<1>2. CASE Start
  BY <1>1, <1>2, StartRegsType, UpdateInterruptsChain DEF Start
<1>3. CASE \E a \in ConfigAddr, d \in WriteData : ConfigWrite(a, d)
  <2>1. PICK a \in ConfigAddr, d \in WriteData : ConfigWrite(a, d)
    BY <1>3
  <2>2. WriteRegister(regs, a, d) \in Registers
    BY <1>1, WriteRegisterType
  <2>3. PICK r \in Registers : UpdateInterrupts(r)
    BY <2>1, <2>2, StartRegsType DEF ConfigWrite
  <2> QED
    BY <2>3, UpdateInterruptsChain
<1>4. CASE \E c \in Contexts : CmdStart(c)
  <2>1. UpdateInterrupts(StartRegs(ResetRegisters))
    BY <1>4 DEF CmdStart
  <2> QED
    BY <2>1, ResetRegistersType, StartRegsType, UpdateInterruptsChain
<1>5. CASE ConsumeChange
  <2>1. changes # <<>> /\ changes' = Tail(changes) /\ int' = int
    BY <1>5 DEF ConsumeChange, cpuVars
  <2>2. \A l \in Lines : LineChain(l, changes', int'[l])
    BY <1>1, <2>1, ChangesChainLines, TailKeepsChain
  <2> QED
    BY <2>2 DEF ChangesChain, LineChain
<1>6. CASE UNCHANGED <<int, changes>>
  BY <1>6 DEF ChangesChain
<1>7. CASE ExecInvalid
  BY <1>1, <1>7, FinishRegsType, UpdateInterruptsChain DEF ExecInvalid, Bit
<1>8. CASE ExecEnd
  <2>1. /\ FinishRegs(regs, 0) \in Registers
        /\ Level(FinishRegs(regs, 0)) \in [Lines -> Bit]
    BY <1>1, FinishRegsType, LevelType DEF Bit
  <2> QED
    BY <1>8, <2>1, CountInstrChain DEF ExecEnd
<1>9. CASE Continue
  BY <1>1, <1>9, CountInstrChain DEF Continue
<1>10. CASE HostNext
  BY <1>2, <1>3, <1>4, <1>5, <1>6, <1>10
  DEF HostNext, Reset, StoreInstr, SetStartPc, SetPc, SetChangeReporting, Step,
      cpuVars
<1>11. CASE ExecuteNextInstruction
  BY <1>7, <1>8, <1>9, <1>11
  DEF ExecuteNextInstruction, ExecData, ExecJmp, ExecBranch, ExecCall, ExecRet
<1> QED
  BY <1>6, <1>10, <1>11 DEF Next, vars, cpuVars

\* As long as the host leaves change reporting on, the unread changes of each
\* interrupt output continue each other and end at the value it has: whoever
\* replays the queue, however late, arrives at the outputs the model drives.
\* Reset, which erases the registers but reports nothing, is covered because it
\* does not touch the outputs either.
THEOREM ChangesReplay == Spec => ReportedChangesChain
<1>1. Init => ChangesChain
  BY DEF Init, ChangesChain
<1> QED
  BY <1>1, ChangesChainStep, TypeCorrect, PTL DEF Spec, ReportedChangesChain

--------------------------------------------------------------------------------
(* Calls and returns: for a RAR stack of any depth and programs of any shape, calls    *)
(* that stay within it return to where they came from.                                *)

\* What the history variables and the RAR stack share; the bound on the open
\* calls is what makes it inductive.
FramesInv ==
  /\ intact \in BOOLEAN
  /\ frames \in Seq(Pc)
  /\ Len(frames) <= RarDepth
  /\ RarHoldsOpenCalls

--------------------------------------------------------------------------------

LEMMA CallNextImplementsNext == [CallNext]_allVars => [Next]_vars
<1>1. CallNext => Next
  BY DEF CallNext, Clears, Launches, OtherHostCall, LoadFrames, PushFrame,
         PopFrame, OtherInstr, Executes, Next, HostNext, ExecuteNextInstruction,
         ConfigAddr
<1> QED
  BY <1>1 DEF allVars

LEMMA CallImplementsCpu == CallSpec => Spec
<1>1. CallInit => Init
  BY DEF CallInit
<1> QED
  BY <1>1, CallNextImplementsNext, PTL DEF CallSpec, Spec

LEMMA PredecessorOfSp == \A s \in Sp \ {0} : (s + SpSpace - 1) % SpSpace = s - 1
<1> SUFFICES ASSUME NEW s \in Sp \ {0}
             PROVE  (s + SpSpace - 1) % SpSpace = s - 1
  OBVIOUS
<1>1. \A k \in Nat, n \in Nat \ {0} : k < n => (k + n) % n = k
  OBVIOUS
<1>2. s - 1 \in Nat /\ s - 1 < SpSpace /\ SpSpace \in Nat \ {0}
  BY GeometryAssumption DEF Sp
<1>3. s + SpSpace - 1 = (s - 1) + SpSpace
  BY GeometryAssumption DEF Sp
<1> QED
  BY <1>1, <1>2, <1>3

\* Only COMMAND[SOFT_RESET] makes a register write erase the RAR stack.
LEMMA ConfigWriteKeepsRar ==
  ASSUME TypeOK, ControlInv, NEW a \in ConfigAddr, NEW d \in WriteData,
         a = "COMMAND" => d[1] = 0, ConfigWrite(a, d)
  PROVE  UNCHANGED <<rar, rarSp>>
<1> DEFINE w == WriteRegister(regs, a, d)
           r == IF w.start = 1 THEN StartRegs(w) ELSE w
<1>1. w \in Registers
  BY WriteRegisterType DEF TypeOK
<1>2. w.soft_reset = 0
  <2>1. regs \in Registers /\ regs.soft_reset = 0
    BY DEF TypeOK, ControlInv, CommandSelfClears
  <2>2. WriteStatus(regs, d).soft_reset = 0 /\ WriteIntEna(regs, d).soft_reset = 0
    BY <2>1 DEF WriteStatus, WriteIntEna, Registers
  <2>3. a = "COMMAND" => WriteCommand(regs, d).soft_reset = 0
    BY <2>1 DEF WriteCommand, FieldWrite, Registers
  <2> QED
    BY <2>1, <2>2, <2>3 DEF WriteRegister
<1>3. r.soft_reset # 1
  BY <1>1, <1>2 DEF StartRegs, Registers
<1> QED
  BY <1>3 DEF ConfigWrite

\* CALL and RET on a stack within its bounds.
LEMMA PushFrameInv ==
  ASSUME TypeOK, FramesInv, PushFrame
  PROVE  FramesInv'
<1>1. NextPc \in Pc
  BY NextPcType DEF TypeOK
<1>2. intact' = (intact /\ Len(frames) < RarDepth)
  BY DEF PushFrame
<1>3. CASE ~intact'
  <2>1. frames' = <<>> /\ intact' \in BOOLEAN
    BY <1>2, <1>3 DEF PushFrame, FramesInv
  <2> QED
    BY <1>3, <2>1, GeometryAssumption DEF FramesInv, RarHoldsOpenCalls
<1>4. CASE intact'
  <2>1. intact /\ Len(frames) < RarDepth /\ rarSp = Len(frames)
    BY <1>2, <1>4 DEF FramesInv, RarHoldsOpenCalls
  <2>2. frames' = Append(frames, NextPc)
    BY <1>4 DEF PushFrame
  <2>3. rarSp \in RarIndex
    BY <2>1, GeometryAssumption DEF RarIndex, FramesInv
  <2>4. rar' = [rar EXCEPT ![rarSp] = NextPc] /\ rarSp' = rarSp + 1
    BY <2>3 DEF PushFrame, ExecCall
  <2>5. frames' \in Seq(Pc) /\ Len(frames') = Len(frames) + 1
    BY <1>1, <2>2 DEF FramesInv
  <2>6. ASSUME NEW i \in 1 .. Len(frames') PROVE rar'[i - 1] = frames'[i]
    <3>1. CASE i = Len(frames')
      BY <2>1, <2>2, <2>3, <2>4, <2>5, <3>1 DEF FramesInv, TypeOK
    <3>2. CASE i # Len(frames')
      <4>1. i \in 1 .. Len(frames) /\ i - 1 # rarSp /\ i - 1 \in RarIndex
        BY <2>1, <2>5, <3>2, GeometryAssumption DEF FramesInv, RarIndex
      <4>2. rar'[i - 1] = rar[i - 1]
        BY <2>4, <4>1 DEF TypeOK
      <4> QED
        BY <1>1, <2>1, <2>2, <4>1, <4>2 DEF FramesInv, RarHoldsOpenCalls
    <3> QED
      BY <3>1, <3>2
  <2> QED
    BY <1>4, <2>1, <2>4, <2>5, <2>6, GeometryAssumption
    DEF FramesInv, RarHoldsOpenCalls
<1> QED
  BY <1>3, <1>4

\* A RET that takes the last open call continues at its return address.
LEMMA PopFrameReturns ==
  ASSUME TypeOK, FramesInv, PopFrame, intact'
  PROVE  /\ intact /\ frames # <<>> /\ rarSp' = Len(frames) - 1
         /\ pc' = frames[Len(frames)]
<1>1. intact /\ frames # <<>> /\ rarSp = Len(frames)
  BY DEF PopFrame, FramesInv, RarHoldsOpenCalls
<1>2. rarSp \in Sp \ {0} /\ Len(frames) \in 1 .. RarDepth
  BY <1>1, GeometryAssumption DEF TypeOK, FramesInv, Sp
<1>3. rarSp' = rarSp - 1
  BY <1>2, PredecessorOfSp DEF PopFrame, ExecRet
<1>4. rarSp - 1 \in RarIndex
  BY <1>1, <1>2, GeometryAssumption DEF RarIndex
<1>5. pc' = rar[rarSp - 1]
  BY <1>2, <1>3, <1>4, PredecessorOfSp DEF PopFrame, ExecRet
<1> QED
  BY <1>1, <1>2, <1>3, <1>5 DEF FramesInv, RarHoldsOpenCalls

\* All but the last element of a sequence.
LEMMA FrontOfSeq ==
  ASSUME NEW S, NEW s \in Seq(S), NEW k \in Nat, Len(s) = k + 1
  PROVE  /\ SubSeq(s, 1, k) \in Seq(S)
         /\ Len(SubSeq(s, 1, k)) = k
         /\ \A i \in 1 .. k : SubSeq(s, 1, k)[i] = s[i]
<1>1. \A i \in 1 .. k : s[i] \in S
  OBVIOUS
<1>2. /\ SubSeq(s, 1, k) \in Seq(S)
      /\ Len(SubSeq(s, 1, k)) = IF 1 <= k THEN k - 1 + 1 ELSE 0
      /\ \A i \in 1 .. k - 1 + 1 : SubSeq(s, 1, k)[i] = s[1 + i - 1]
  BY <1>1, SubSeqProperties
<1>3. Len(SubSeq(s, 1, k)) = k
  BY <1>2
<1>4. ASSUME NEW i \in 1 .. k PROVE SubSeq(s, 1, k)[i] = s[i]
  <2>1. i \in 1 .. k - 1 + 1 /\ 1 + i - 1 = i
    OBVIOUS
  <2> QED
    BY <1>2, <2>1
<1> QED
  BY <1>2, <1>3, <1>4

LEMMA PopFrameInv ==
  ASSUME TypeOK, FramesInv, PopFrame
  PROVE  FramesInv'
<1>1. intact' = (intact /\ frames # <<>>)
  BY DEF PopFrame
<1>2. CASE ~intact'
  <2>1. frames' = <<>> /\ intact' \in BOOLEAN
    BY <1>1, <1>2 DEF PopFrame, FramesInv
  <2> QED
    BY <1>2, <2>1, GeometryAssumption DEF FramesInv, RarHoldsOpenCalls
<1>3. CASE intact'
  <2>1. intact /\ frames # <<>> /\ rarSp' = Len(frames) - 1 /\ UNCHANGED rar
    BY <1>3, PopFrameReturns DEF PopFrame, ExecRet
  <2>2. frames' = SubSeq(frames, 1, Len(frames) - 1)
    BY <1>3 DEF PopFrame
  <2>3. /\ frames' \in Seq(Pc) /\ Len(frames') = Len(frames) - 1
        /\ \A i \in 1 .. Len(frames) - 1 : frames'[i] = frames[i]
    <3>1. frames \in Seq(Pc) /\ Len(frames) \in Nat \ {0}
      BY <2>1 DEF FramesInv
    <3>2. PICK k \in Nat : Len(frames) = k + 1
      BY <3>1
    <3>3. frames' = SubSeq(frames, 1, k) /\ Len(frames) - 1 = k
      BY <2>2, <3>2
    <3> QED
      BY <3>1, <3>2, <3>3, FrontOfSeq
  <2> QED
    BY <1>3, <2>1, <2>3, GeometryAssumption DEF FramesInv, RarHoldsOpenCalls
<1> QED
  BY <1>2, <1>3

\* A context loaded with a stack pointer within the stack brings its frames.
LEMMA LoadFramesInv ==
  ASSUME NEW c \in Context, LoadFrames(c)
  PROVE  FramesInv'
<1>1. c.sp \in Nat /\ c.rar \in [RarIndex -> Pc]
  BY GeometryAssumption DEF Context, Sp
<1>2. intact' = (c.sp <= RarDepth) /\ rar' = c.rar /\ rarSp' = c.sp
  BY DEF LoadFrames, CmdStart
<1>3. CASE ~intact'
  <2>1. frames' = <<>>
    BY <1>3 DEF LoadFrames
  <2> QED
    BY <1>2, <1>3, <2>1, GeometryAssumption DEF FramesInv, RarHoldsOpenCalls
<1>4. CASE intact'
  <2>1. frames' = [i \in 1 .. c.sp |-> c.rar[i - 1]] /\ c.sp <= RarDepth
    BY <1>2, <1>4 DEF LoadFrames
  <2>2. \A i \in 1 .. c.sp : c.rar[i - 1] \in Pc
    BY <1>1, <2>1, GeometryAssumption DEF RarIndex
  <2>3. frames' \in Seq(Pc) /\ Len(frames') = c.sp
    BY <1>1, <2>1, <2>2
  <2> QED
    BY <1>1, <1>2, <1>4, <2>1, <2>3 DEF FramesInv, RarHoldsOpenCalls
<1> QED
  BY <1>3, <1>4

LEMMA FramesInvStep ==
  TypeOK /\ ControlInv /\ FramesInv /\ [CallNext]_allVars => FramesInv'
<1> SUFFICES ASSUME TypeOK, ControlInv, FramesInv, [CallNext]_allVars
             PROVE  FramesInv'
  OBVIOUS
<1>1. ASSUME UNCHANGED <<rar, rarSp, frames, intact>> PROVE FramesInv'
  BY <1>1 DEF FramesInv, RarHoldsOpenCalls
<1>2. CASE Clears /\ frames' = <<>> /\ intact' = TRUE
  <2>1. rarSp' = 0
    <3>1. CASE Reset
      BY <3>1 DEF Reset, ResetCore
    <3>2. CASE \E d \in WriteData : d[1] = 1 /\ ConfigWrite("COMMAND", d)
      <4>1. PICK d \in WriteData : d[1] = 1 /\ ConfigWrite("COMMAND", d)
        BY <3>2
      <4> DEFINE w == WriteCommand(regs, d)
                 r == IF w.start = 1 THEN StartRegs(w) ELSE w
      <4>2. w = WriteRegister(regs, "COMMAND", d)
        BY DEF WriteRegister
      <4>3. r.soft_reset = 1
        BY <4>1 DEF TypeOK, WriteCommand, FieldWrite, StartRegs, Registers
      <4> QED
        BY <4>1, <4>2, <4>3 DEF ConfigWrite, ResetCore
    <3> QED
      BY <1>2, <3>1, <3>2 DEF Clears
  <2> QED
    BY <1>2, <2>1, GeometryAssumption DEF FramesInv, RarHoldsOpenCalls
<1>3. CASE Launches /\ UNCHANGED <<frames, intact>>
  <2>1. UNCHANGED <<rar, rarSp>>
    <3>1. CASE Start
      BY <3>1 DEF Start
    <3>2. CASE \E d \in WriteData :
                 d[0] = 1 /\ d[1] = 0 /\ ConfigWrite("COMMAND", d)
      BY <3>2, ConfigWriteKeepsRar DEF ConfigAddr
    <3> QED
      BY <1>3, <3>1, <3>2 DEF Launches
  <2> QED
    BY <1>1, <1>3, <2>1
<1>4. CASE \E c \in Contexts : LoadFrames(c)
  BY <1>4, HostAssumption, LoadFramesInv
<1>5. CASE OtherHostCall /\ UNCHANGED callVars
  <2>1. CASE \E a \in ConfigAddr, d \in WriteData :
               /\ a = "COMMAND" => d[0] = 0 /\ d[1] = 0
               /\ ConfigWrite(a, d)
    <3>1. UNCHANGED <<rar, rarSp>>
      BY <2>1, ConfigWriteKeepsRar
    <3> QED
      BY <1>1, <1>5, <3>1 DEF callVars
  <2>2. CASE UNCHANGED <<rar, rarSp>>
    BY <1>1, <1>5, <2>2 DEF callVars
  <2> QED
    BY <1>5, <2>1, <2>2
    DEF OtherHostCall, StoreInstr, SetStartPc, SetPc, SetChangeReporting,
        ConsumeChange, Step, cpuVars
<1>6. CASE PushFrame
  BY <1>6, PushFrameInv
<1>7. CASE PopFrame
  BY <1>7, PopFrameInv
<1>8. CASE OtherInstr /\ UNCHANGED callVars
  <2>1. UNCHANGED <<rar, rarSp>>
    BY <1>8
    DEF OtherInstr, Executes, ExecuteNextInstruction, ExecInvalid, ExecData,
        ExecJmp, ExecBranch, ExecCall, ExecRet, ExecEnd
  <2> QED
    BY <1>1, <1>8, <2>1 DEF callVars
<1>9. CASE UNCHANGED allVars
  BY <1>1, <1>9 DEF allVars, vars, cpuVars, callVars
<1> QED
  BY <1>2, <1>3, <1>4, <1>5, <1>6, <1>7, <1>8, <1>9 DEF CallNext

LEMMA FramesInvariant == CallSpec => []FramesInv
<1>1. CallInit => FramesInv
  BY GeometryAssumption DEF CallInit, Init, FramesInv, RarHoldsOpenCalls
<1> QED
  BY <1>1, FramesInvStep, CallImplementsCpu, TypeCorrect, ControlCorrect, PTL
  DEF CallSpec

\* Whatever a host interleaves with it, a program whose calls nest no deeper
\* than the RAR stack finds its return addresses there.
THEOREM OpenCallsAreStacked == CallSpec => []RarHoldsOpenCalls
  BY FramesInvariant, PTL DEF FramesInv

\* So every RET of such a program continues behind its CALL.
THEOREM CallsReturn == CallSpec => ReturnsToCaller
<1>1. TypeOK /\ FramesInv /\ [CallNext]_allVars =>
        [PopFrame /\ intact' => pc' = frames[Len(frames)]]_allVars
  BY PopFrameReturns
<1> QED
  BY <1>1, FramesInvariant, CallImplementsCpu, TypeCorrect, PTL
  DEF CallSpec, ReturnsToCaller
================================================================================
