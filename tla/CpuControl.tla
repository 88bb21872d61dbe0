------------------------------ MODULE CpuControl -------------------------------
(*****************************************************************************)
(* The control side of the SPECT instruction set simulator, class CpuModel:  *)
(* how a program is started, stepped, finished and reset, the configuration  *)
(* registers and interrupt outputs the host sees meanwhile, the program      *)
(* counter, the return address (RAR) stack and the flags that steer it, and  *)
(* the queue through which a co-simulation learns of interrupt changes.      *)
(*                                                                           *)
(* The model is one sequential object.  The host (debugger, batch runner or  *)
(* RTL testbench) calls it; while a call of Step is running no other call    *)
(* can start, so every host action waits for stepsLeft = 0.                  *)
(*                                                                           *)
(* Abstracted: an instruction that only computes is "DATA" and leaves the    *)
(* flags arbitrary; addresses count 32-bit words; of the change queue only   *)
(* the entries of kind DPI_CHANGE_INT are kept.                              *)
(*****************************************************************************)
EXTENDS SpectRegs, Sequences

CONSTANTS
  PcSpace,      \* number of words the 16 bit program counter addresses
  InstrBase,    \* first word of the instruction memory
  InstrSize,    \* words of the instruction memory
  RarDepth,     \* entries of the return address stack
  SpSpace,      \* values of the 16 bit RAR stack pointer
  MaxInstrCnt,  \* max_instr_cnt_; 0 is never reached
  Flags,        \* the flags that instructions of the programs test
  Programs,     \* instruction memory contents a host loads before it starts
  Patches,      \* instructions a host stores later
  HostPcs,      \* addresses a host jumps to or selects as start address
  Contexts,     \* model contexts CmdStart may load
  StepCounts,   \* numbers of instructions a host asks Step for
  MaxChanges    \* bound on the queue of unread interrupt changes

Pc        == 0 .. PcSpace - 1
InstrAddr == InstrBase .. InstrBase + InstrSize - 1
RarIndex  == 0 .. RarDepth - 1
Sp        == 0 .. SpSpace - 1

\* A decoded word.  flag and val are used by BR, tgt by JMP, CALL and BR.
Instr ==
  [op : {"INVALID", "DATA", "JMP", "BR", "CALL", "RET", "END"},
   flag : Flags, val : BOOLEAN, tgt : Pc]

\* A word that DisAssemble rejects, such as the 0 read outside the memory.
NoInstr ==
  [op |-> "INVALID", flag |-> CHOOSE f \in Flags : TRUE, val |-> FALSE, tgt |-> 0]

Context == [rar : [RarIndex -> Pc], sp : Sp, flags : [Flags -> BOOLEAN]]

Change == [line : Lines, old : Bit, new : Bit]

ASSUME GeometryAssumption ==
  /\ PcSpace \in Nat \ {0} /\ RarDepth \in Nat \ {0}
  /\ InstrBase \in Pc \ {0} /\ InstrSize \in Nat /\ InstrAddr \subseteq Pc
  /\ SpSpace \in Nat /\ SpSpace > RarDepth
  /\ Flags \subseteq {"Z", "C", "E"} /\ Flags # {}

ASSUME HostAssumption ==
  /\ MaxInstrCnt \in Nat /\ MaxChanges \in Nat
  /\ Programs \subseteq [InstrAddr -> Instr] /\ Patches \subseteq Instr
  /\ HostPcs \subseteq Pc /\ Contexts \subseteq Context /\ StepCounts \subseteq Nat

VARIABLES
  regs,       \* regs_: the register block
  int,        \* int_done_, int_err_
  ended,      \* end_executed_
  pc,         \* pc_
  startPc,    \* start_pc_
  rar,        \* rar_stack_
  rarSp,      \* rar_sp_
  flags,      \* flags_
  instrCnt,   \* instr_cnt_, saturated just above MaxInstrCnt
  imem,       \* memory_, instruction memory part
  reporting,  \* change_reporting_
  changes,    \* change_q_, entries of kind INT
  stepsLeft   \* instructions the running Step call may still execute

cpuVars == <<regs, int, ended, pc, startPc, rar, rarSp, flags, instrCnt, imem>>
vars == <<cpuVars, reporting, changes, stepsLeft>>

\* Step(0): run until the program ends.
RunToEnd == 0 - 1

TypeOK ==
  /\ regs \in Registers
  /\ int \in [Lines -> Bit]
  /\ ended \in BOOLEAN
  /\ pc \in Pc /\ startPc \in Pc
  /\ rar \in [RarIndex -> Pc] /\ rarSp \in Sp
  /\ flags \in [Flags -> BOOLEAN]
  /\ instrCnt \in 0 .. MaxInstrCnt + 1
  /\ imem \in [InstrAddr -> Instr]
  /\ reporting \in BOOLEAN
  /\ changes \in Seq(Change)
  /\ stepsLeft \in Nat \cup {RunToEnd}

Init ==
  /\ regs = ResetRegisters
  /\ int = [l \in Lines |-> 0]
  /\ ended = FALSE
  /\ pc = 0 /\ startPc = InstrBase
  /\ rar = [i \in RarIndex |-> 0] /\ rarSp = 0
  /\ flags = [f \in Flags |-> FALSE]
  /\ instrCnt = 0
  /\ imem \in Programs
  /\ reporting \in BOOLEAN   \* a host may switch it on before anything else
  /\ changes = <<>>
  /\ stepsLeft = 0

--------------------------------------------------------------------------------
(* Pieces of several handlers *)

HostCalls == stepsLeft = 0

\* One call of the host queues at most four interrupt changes: two when END
\* finishes the program, two when that instruction also reaches the limit.
QueueHasRoom == Len(changes) + 4 <= MaxChanges

StartRegs(r) == [r EXCEPT !.start = 0, !.idle = 0]

FinishRegs(r, status_err) ==
  [r EXCEPT !.idle = 1, !.done = IF status_err = 0 THEN 1 ELSE 0,
            !.err = status_err]

\* The changes UpdateInterrupts reports, INT_DONE first.
LineChange(l, old, new) ==
  IF old[l] = new[l] THEN <<>>
  ELSE << [line |-> l, old |-> old[l], new |-> new[l]] >>

IntChanges(old, new) ==
  LineChange("INT_DONE", old, new) \o LineChange("INT_ERR", old, new)

ReportChange(entries) ==
  changes' = IF reporting THEN changes \o entries ELSE changes

UpdateInterrupts(r) ==
  /\ int' = Level(r)
  /\ ReportChange(IntChanges(int, Level(r)))

--------------------------------------------------------------------------------
(* Calls of the host *)

\* Model::Start.  STATUS[DONE], STATUS[ERR] and the RAR stack keep their values.
Start ==
  /\ HostCalls /\ QueueHasRoom
  /\ pc' = startPc
  /\ regs' = StartRegs(regs)
  /\ UpdateInterrupts(StartRegs(regs))
  /\ ended' = FALSE
  /\ instrCnt' = 0
  /\ UNCHANGED <<startPc, rar, rarSp, flags, imem, reporting, stepsLeft>>

\* Mutant: the RAR stack is erased but its pointer is not.
ResetCoreKeepsSp ==
  /\ regs' = ResetRegisters
  /\ ended' = FALSE
  /\ pc' = 0
  /\ rar' = [i \in RarIndex |-> 0] /\ rarSp' = rarSp
  /\ flags' = [f \in Flags |-> FALSE]

\* Everything Reset assigns; the interrupt outputs are not among it.
ResetCore ==
  /\ regs' = ResetRegisters
  /\ ended' = FALSE
  /\ pc' = 0
  /\ rar' = [i \in RarIndex |-> 0] /\ rarSp' = 0
  /\ flags' = [f \in Flags |-> FALSE]

Reset ==
  /\ HostCalls
  /\ ResetCore
  /\ UNCHANGED <<int, startPc, instrCnt, imem, reporting, changes, stepsLeft>>

\* A write to the register block, over AHB or by SetMemory: the register takes
\* the data, the interrupts follow, then START and SOFT_RESET take effect, in
\* this order.  Start's own UpdateInterrupts sees the same enable and status
\* bits again and changes nothing.
ConfigWrite(a, d) ==
  LET written == WriteRegister(regs, a, d)
      starts  == written.start = 1
      r       == IF starts THEN StartRegs(written) ELSE written
  IN /\ HostCalls /\ QueueHasRoom
     /\ UpdateInterrupts(r)
     /\ instrCnt' = IF starts THEN 0 ELSE instrCnt
     /\ \/ /\ r.soft_reset = 1
           /\ ResetCore
        \/ /\ r.soft_reset # 1
           /\ regs' = r
           /\ pc' = IF starts THEN startPc ELSE pc
           /\ ended' = IF starts THEN FALSE ELSE ended
           /\ UNCHANGED <<rar, rarSp, flags>>
     /\ UNCHANGED <<startPc, imem, reporting, stepsLeft>>

\* SetMemory, or an AHB write where the build allows it, to instruction memory.
StoreInstr(a, w) ==
  /\ HostCalls
  /\ imem' = [imem EXCEPT ![a] = w]
  /\ UNCHANGED <<regs, int, ended, pc, startPc, rar, rarSp, flags, instrCnt,
                 reporting, changes, stepsLeft>>

SetStartPc(a) ==
  /\ HostCalls
  /\ startPc' = a
  /\ UNCHANGED <<regs, int, ended, pc, rar, rarSp, flags, instrCnt, imem,
                 reporting, changes, stepsLeft>>

SetPc(a) ==
  /\ HostCalls
  /\ pc' = a
  /\ UNCHANGED <<regs, int, ended, startPc, rar, rarSp, flags, instrCnt, imem,
                 reporting, changes, stepsLeft>>

\* The debugger's start command: Reset, LoadContext, Start.
CmdStart(c) ==
  /\ HostCalls /\ QueueHasRoom
  /\ rar' = c.rar /\ rarSp' = c.sp /\ flags' = c.flags
  /\ regs' = StartRegs(ResetRegisters)
  /\ UpdateInterrupts(StartRegs(ResetRegisters))
  /\ ended' = FALSE
  /\ pc' = startPc
  /\ instrCnt' = 0
  /\ UNCHANGED <<startPc, imem, reporting, stepsLeft>>

SetChangeReporting(enable) ==
  /\ HostCalls
  /\ reporting' = enable
  /\ UNCHANGED <<cpuVars, changes, stepsLeft>>

ConsumeChange ==
  /\ HostCalls
  /\ changes # <<>>
  /\ changes' = Tail(changes)
  /\ UNCHANGED <<cpuVars, reporting, stepsLeft>>

\* Step(n) is entered; Step(0) runs to the end of the program.
Step(n) ==
  /\ HostCalls /\ QueueHasRoom
  /\ stepsLeft' = IF n = 0 THEN RunToEnd ELSE n
  /\ UNCHANGED <<cpuVars, reporting, changes>>

--------------------------------------------------------------------------------
(* One iteration of Step's loop: ExecuteNextInstruction *)

ReadMemoryCoreFetch == IF pc \in InstrAddr THEN imem[pc] ELSE NoInstr

NextPc == (pc + 1) % PcSpace

\* Mutant: Step(0) counts down like any other number of instructions.
StepLoopCountsZero(finished) ==
  stepsLeft' = IF finished THEN 0 ELSE stepsLeft - 1

\* The loop condition, tested on the value end_executed_ has after the step.
StepLoop(finished) ==
  stepsLeft' = IF finished \/ stepsLeft = RunToEnd
               THEN IF finished THEN 0 ELSE RunToEnd
               ELSE stepsLeft - 1

ExecInvalid ==
  /\ ReadMemoryCoreFetch.op = "INVALID"
  /\ regs' = FinishRegs(regs, 1)
  /\ UpdateInterrupts(FinishRegs(regs, 1))
  /\ ended' = TRUE
  /\ StepLoop(TRUE)
  /\ UNCHANGED <<pc, startPc, rar, rarSp, flags, instrCnt, imem, reporting>>

\* Mutant: max_instr_cnt_ is never looked at.
CountInstrUnlimited(r, lines, finished) ==
  /\ instrCnt' = IF instrCnt > MaxInstrCnt THEN instrCnt ELSE instrCnt + 1
  /\ regs' = r /\ int' = lines /\ ended' = finished
  /\ ReportChange(IntChanges(int, lines))
  /\ StepLoop(finished)
  /\ UNCHANGED <<startPc, imem, reporting>>

\* Mutant: at the limit STATUS is set without UpdateInterrupts.
CountInstrSilentLimit(r, lines, finished) ==
  LET limit == instrCnt + 1 = MaxInstrCnt
  IN /\ instrCnt' = IF instrCnt > MaxInstrCnt THEN instrCnt ELSE instrCnt + 1
     /\ regs' = IF limit THEN FinishRegs(r, 1) ELSE r
     /\ int' = lines /\ ended' = (finished \/ limit)
     /\ ReportChange(IntChanges(int, lines))
     /\ StepLoop(finished \/ limit)
     /\ UNCHANGED <<startPc, imem, reporting>>

\* Mutant: at the limit STATUS is set without end_executed_.
CountInstrLimitGoesOn(r, lines, finished) ==
  LET limit == instrCnt + 1 = MaxInstrCnt
      r2    == IF limit THEN FinishRegs(r, 1) ELSE r
  IN /\ instrCnt' = IF instrCnt > MaxInstrCnt THEN instrCnt ELSE instrCnt + 1
     /\ regs' = r2 /\ int' = Level(r2) /\ ended' = finished
     /\ ReportChange(IntChanges(int, Level(r2)))
     /\ StepLoop(finished)
     /\ UNCHANGED <<startPc, imem, reporting>>

\* Mutant: what the limit changes is reported from the outputs before the instruction.
CountInstrStaleOld(r, lines, finished) ==
  LET limit  == instrCnt + 1 = MaxInstrCnt
      r2     == IF limit THEN FinishRegs(r, 1) ELSE r
      lines2 == IF limit THEN Level(r2) ELSE lines
  IN /\ instrCnt' = IF instrCnt > MaxInstrCnt THEN instrCnt ELSE instrCnt + 1
     /\ regs' = r2 /\ int' = lines2 /\ ended' = (finished \/ limit)
     /\ ReportChange(IntChanges(int, lines) \o IntChanges(int, lines2))
     /\ StepLoop(finished \/ limit)
     /\ UNCHANGED <<startPc, imem, reporting>>

\* What follows Execute: the instruction is counted, and reaching the limit
\* ends the program with an error.  r, lines and finished are the registers,
\* the interrupt outputs and end_executed_ as Execute left them.
CountInstr(r, lines, finished) ==
  LET limit  == instrCnt + 1 = MaxInstrCnt
      r2     == IF limit THEN FinishRegs(r, 1) ELSE r
      lines2 == IF limit THEN Level(r2) ELSE lines
  IN /\ instrCnt' = IF instrCnt > MaxInstrCnt THEN instrCnt ELSE instrCnt + 1
     /\ regs' = r2
     /\ int' = lines2
     /\ ended' = (finished \/ limit)
     /\ ReportChange(IntChanges(int, lines) \o IntChanges(lines, lines2))
     /\ StepLoop(finished \/ limit)
     /\ UNCHANGED <<startPc, imem, reporting>>

Continue == CountInstr(regs, int, ended)

ExecData ==
  /\ ReadMemoryCoreFetch.op = "DATA"
  /\ flags' \in [Flags -> BOOLEAN]
  /\ pc' = NextPc
  /\ Continue
  /\ UNCHANGED <<rar, rarSp>>

ExecJmp ==
  /\ ReadMemoryCoreFetch.op = "JMP"
  /\ pc' = ReadMemoryCoreFetch.tgt
  /\ Continue
  /\ UNCHANGED <<rar, rarSp, flags>>

\* BRZ, BRNZ, BRC, BRNC, BRE and BRNE.
ExecBranch ==
  LET i == ReadMemoryCoreFetch
  IN /\ i.op = "BR"
     /\ pc' = IF flags[i.flag] = i.val THEN i.tgt ELSE NextPc
     /\ Continue
     /\ UNCHANGED <<rar, rarSp, flags>>

\* Mutant: CALL pushes its own address.
ExecCallPushesPc ==
  /\ ReadMemoryCoreFetch.op = "CALL"
  /\ pc' = ReadMemoryCoreFetch.tgt
  /\ rarSp \in RarIndex
  /\ rar' = [rar EXCEPT ![rarSp] = pc]
  /\ rarSp' = rarSp + 1
  /\ Continue
  /\ UNCHANGED flags

\* RarPush does not check for room.  A push beyond the last entry writes what
\* lies behind the array, rar_sp_ first, so the pointer is arbitrary after it.
\* What later pushes at that pointer may overwrite besides is not modelled.
ExecCall ==
  /\ ReadMemoryCoreFetch.op = "CALL"
  /\ pc' = ReadMemoryCoreFetch.tgt
  /\ \/ /\ rarSp \in RarIndex
        /\ rar' = [rar EXCEPT ![rarSp] = NextPc]
        /\ rarSp' = rarSp + 1
     \/ /\ rarSp \notin RarIndex
        /\ rar' = rar
        /\ rarSp' \in Sp
  /\ Continue
  /\ UNCHANGED flags

\* RarPop does not check for an empty stack: the pointer wraps, and an entry
\* outside the array is whatever the memory there holds.
ExecRet ==
  LET sp == (rarSp + SpSpace - 1) % SpSpace
  IN /\ ReadMemoryCoreFetch.op = "RET"
     /\ rarSp' = sp
     /\ \/ sp \in RarIndex /\ pc' = rar[sp]
        \/ sp \notin RarIndex /\ pc' \in Pc
     /\ Continue
     /\ UNCHANGED <<rar, flags>>

\* Execute of END: Finish(0) and UpdateInterrupts; the PC stays on the END.
ExecEnd ==
  /\ ReadMemoryCoreFetch.op = "END"
  /\ CountInstr(FinishRegs(regs, 0), Level(FinishRegs(regs, 0)), TRUE)
  /\ UNCHANGED <<pc, rar, rarSp, flags>>

ExecuteNextInstruction ==
  /\ stepsLeft # 0
  /\ \/ ExecInvalid \/ ExecData \/ ExecJmp \/ ExecBranch
     \/ ExecCall \/ ExecRet \/ ExecEnd

--------------------------------------------------------------------------------

HostNext ==
  \/ Start
  \/ Reset
  \/ \E a \in ConfigAddr, d \in WriteData : ConfigWrite(a, d)
  \/ \E a \in InstrAddr, w \in Patches : StoreInstr(a, w)
  \/ \E a \in HostPcs : SetStartPc(a) \/ SetPc(a)
  \/ \E c \in Contexts : CmdStart(c)
  \/ \E enable \in BOOLEAN : SetChangeReporting(enable)
  \/ ConsumeChange
  \/ \E n \in StepCounts : Step(n)

Next == HostNext \/ ExecuteNextInstruction

Spec == Init /\ [][Next]_vars

\* Step is a plain loop of the calling thread: once entered it keeps executing.
FairSpec == Spec /\ WF_vars(ExecuteNextInstruction)

--------------------------------------------------------------------------------
(* Safety *)

\* COMMAND[START] and COMMAND[SOFT_RESET] have cleared themselves whenever the
\* host gets control back.  A bit left behind would make the next write to any
\* register of the block, and even an ignored one, restart or reset the CPU.
CommandSelfClears == regs.start = 0 /\ regs.soft_reset = 0

\* STATUS never shows success and error together; a finished program left the
\* CPU idle; and an idle CPU whose program has not finished was reset and not
\* started since, so that it shows neither result.
StatusConsistent ==
  /\ ~(regs.done = 1 /\ regs.err = 1)
  /\ ended => regs.idle = 1
  /\ regs.idle = 1 /\ ~ended => regs.done = 0 /\ regs.err = 0

\* The interrupt outputs are the enabled STATUS bits, in every state but the one
\* Reset leaves, in which nobody has driven them anew.
InterruptsFollowRegs == regs # ResetRegisters => int = Level(regs)

\* Command bits, STATUS with end_executed_ and the interrupt outputs agree in every
\* state between calls and inside a Step call, whatever order of register writes,
\* starts, finishes and resets led to it.  Each part needs the others.
ControlInv == CommandSelfClears /\ StatusConsistent /\ InterruptsFollowRegs

\* A result appears in STATUS only as the last act of a Step call that ends the
\* program; no write of the host can set DONE or ERR, and no start does.
ResultOnlyByExecution ==
  [][regs'.done > regs.done \/ regs'.err > regs.err
       => stepsLeft # 0 /\ stepsLeft' = 0 /\ ended' /\ regs'.idle = 1]_vars

\* The unread changes of one interrupt output continue each other and end at
\* the value the output has now.
ChangesChain ==
  \A l \in Lines :
    /\ \A i \in DOMAIN changes :
         changes[i].line = l =>
           /\ changes[i].old # changes[i].new
           /\ \/ \E j \in DOMAIN changes :
                   /\ j > i /\ changes[j].line = l
                   /\ changes[j].old = changes[i].new
                   /\ \A k \in i + 1 .. j - 1 : changes[k].line # l
              \/ /\ changes[i].new = int[l]
                 /\ \A k \in DOMAIN changes : k > i => changes[k].line # l

\* With reporting on from the beginning, a testbench that replays the queue
\* always arrives at the interrupt outputs the model drives.
ReportedChangesChain == []reporting => []ChangesChain

--------------------------------------------------------------------------------
(* Refinement *)

Phase ==
  CASE ended                   -> "finished"
    [] ~ended /\ regs.idle = 1 -> "reset"
    [] OTHER                   -> "running"

Result ==
  CASE regs.done = 1                 -> "done"
    [] regs.done = 0 /\ regs.err = 1 -> "err"
    [] OTHER                         -> "none"

Invocation == INSTANCE SpectInvocation WITH phase <- Phase, result <- Result

\* Registers, counters and fetched words together behave as the invocation
\* protocol: a program never finishes without a result, DONE never turns into
\* ERR or back while the CPU runs, and no write of the host ends a program or
\* invents a result.
ImplementsInvocation == Invocation!InvocationSpec

--------------------------------------------------------------------------------
(* Liveness *)

\* A call of Step returns if it was given a number of instructions, if the
\* program has already finished, or if the limit is still ahead.
StepReturns ==
  stepsLeft # 0 /\ (stepsLeft > 0 \/ ended \/ instrCnt < MaxInstrCnt)
    ~> stepsLeft = 0

--------------------------------------------------------------------------------
(* What documents and comments of the repository say *)

\* programmer_guide, "Interrupts": an interrupt is generated when INT_ENA
\* enables it.
InterruptOnlyIfEnabled ==
  /\ int["INT_DONE"] = 1 => regs.done_en = 1
  /\ int["INT_ERR"] = 1 => regs.err_en = 1

\* CpuModel.h, max_instr_cnt_: "Maximal number of instructions to execute", so
\* every call of Step comes back.
StepAlwaysReturns == stepsLeft # 0 ~> stepsLeft = 0

\* spect_iss_dpi.h, spect_dpi_start: "Update STATUS[DONE] and STATUS[IDLE] and
\* according interrupts", so no running program shows an earlier result.
RunningShowsNoResult == regs.idle = 0 => regs.done = 0
================================================================================
