# A verification model of the SPECT simulator

SPECT is a small processor for elliptic-curve arithmetic on 256-bit values. The
repository holds an assembler for it, an instruction set simulator (ISS) with a
debugger, and a wrapper through which an RTL simulation runs the same model in
lock step (DPI). This directory models the simulator's state machines in TLA+,
and the assembler, the file formats and the arithmetic around them, checks them with
TLC on small instances, and proves the results that matter most with TLAPS for every
value of the constants.

`PROJECT.json` lists the runs, the source lines each definition stands for, the
mutants that show each property can fail, the hazards and the theorems.

## The system

Paths are relative to `src/src/` of the repository snapshot.

| Component | State | Operations | Meets |
|---|---|---|---|
| Configuration registers (`spect_lib/ordt_pio.*`) | COMMAND, STATUS, INT_ENA | word writes with a mode per field: plain, write-1-to-clear, read-only | CPU control, host |
| CPU control (`spect_lib/CpuModel.cpp`) | `pc_`, `start_pc_`, `end_executed_`, `instr_cnt_`, `int_done_`, `int_err_`, flags | Start, Reset, Finish, Step, StepSingle, AHB writes, SetPc, SetStartPc | registers, change queue, everything that executes |
| RAR stack (`CpuModel.cpp`) | `rar_stack_`, `rar_sp_` | RarPush, RarPop (CALL, RET), Reset, context load | CPU control |
| Change queue (`CpuModel.cpp`, `cosim/spect_iss_dpi_types.h`) | `change_q_`, `change_reporting_` | ReportChange, ConsumeChange, switching reporting | every instruction; the testbench reads |
| Key memory (`spect_lib/KeyMemory.cpp`) | words and status per slot, one RAM buffer, a dump file | Read, Write, Program, Erase, VerifyErase, Flush; Set, Dump, Load | key-bus instructions, debugger, library |
| Key bus (`InstructionDefsV2.cpp`: LDK, STK, KBO; queues in `CpuModel.cpp`) | `ldk_q_`, `kbus_error_q_`, E flag, registers | the three instructions; pushes by a testbench | key memory or testbench |
| Data path (`InstructionDefsV2.cpp`, `InstructionDefsV1.cpp`) | 32 registers, flags, data memories, GRV queue, hash contexts | arithmetic, logic, shifts, modular, moves, loads and stores, HASH, TMAC, GRV, SCB | memories, change queue |
| Context dump and load (`CpuModel.cpp`) | a text file | DumpContext, LoadContext | debugger, DPI |
| Debugger (`spect_lib/CpuSimulator.cpp`) | `program_running_`, breakpoints | start, run, step, break, delete, jump, set, get, load, dump | model, key memory, symbols |
| DPI layer, ISS library (`cosim/`) | none of their own | one call each to the model, assembler or key memory | RTL testbench, C++ users |
| Cycle check (`CpuModel.cpp`, `InstructionFactory.cpp`) | `cycles_` per mnemonic | StepSingle(cycles) | testbench |
| Assembler (`Compiler.cpp`, `SymbolTable.cpp`, `CpuProgram.cpp`) | symbols, conditional definitions and their stack, address counter, program | CompileInit, Compile, CompileFinish, Assemble | files, instruction encoding |
| Encoding (`Instruction*.cpp`) | a table of mnemonics | Assemble, DisAssemble, parity | assembler, fetch |
| Hex files, command line tools | none | text in and out | memories |

The simulator runs on one thread. What makes it hard is not threads but
protocols: the host (a debugger, a batch program or a testbench) may call
anything in any order between two instructions, and the processor does not
refuse. A start can come on a running program, a step on a finished one, a reset
between the push and the use of a queue entry. In a co-simulation the RTL is
ahead of the model, and everything the model cannot compute reaches it through
queues whose entries carry no names. The hard behaviours are therefore:

- stale results: STATUS, outputs, stack frames, queue entries and key slots that
  outlive the program or the reset they belong to;
- order: what one register write or one END does in which order, and whether the
  change queue tells it completely;
- stopping: the only way out of `Step(0)` is the end of the program or a counter
  compared with `==`;
- partial failure: a series of eight bus transactions that stops in the middle;
- limits: the stack pointer, the 16-bit program counter, the instruction count.

What makes each component correct:

- registers and control: command bits are consumed, STATUS tells what the machine
  is doing, outputs follow it, results come from execution only;
- stack: RET continues behind its CALL as long as the nesting fits;
- queues: each entry is used by the instruction it was made for;
- key memory: a full slot is not overwritten, a failing instruction says so and
  changes nothing, an erased slot holds nothing;
- data path: results and flags equal their arithmetic definition, and the change
  queue replays to the state;
- assembler: every use of a symbol gets its final value, a skipped region leaves
  no trace, what is placed fits.

## Modules

| Module | What it is |
|---|---|
| `SpectRegs` | operators for the register block: fields, reset values, what a write stores, interrupt levels |
| `SpectInvocation` | abstract: life cycle of an invocation (reset, running, finished) and the result shown |
| `CpuControl` | class CpuModel without its data: host calls and instructions |
| `CallStack` | CpuControl with the stack of open calls as history variables |
| `KeyWords` | the shape of a 256-bit value: a number of words |
| `KeyStore` | abstract: what a program and a host may rely on when they keep keys |
| `KeyMemory` | class KeyMemory, one operator per operation, with the error flag it returns |
| `KbusQueues` | LDK, STK, KBO and the two queues, with what the instruction pushes itself as a parameter |
| `SimKbus` | KbusQueues fed by KeyMemory: the simulator; refines `KeyStore` |
| `CosimKbus` | KbusQueues fed by a testbench that follows an RTL: the co-simulation |
| `WordArith` | what each instruction computes, as the masks, shifts and products of the code |
| `IsaArith` | the promises of the instruction set about those results |
| `CoreState` | the data of CpuModel, its memory map and its change queue |
| `IsaV2`, `IsaV1` | the two instruction sets over that data |
| `WideInt` | the wide integers under everything, limb by limb |
| `Sha512`, `Digest` | the buffering of the hash, and abstract: the digest of a message |
| `Debugger` | class CpuSimulator: breakpoints, run, step, jump |
| `Numerals`, `DebuggerAccess` | readers and printers of numbers; the debugger's get and set, and the constants of a source |
| `Assembler` | class Compiler with symbols, conditions, includes, placement, relocation |
| `InstructionWord`, `InstructionText` | instructions as words with parity, and as lines of text |
| `ContextFile`, `HexFile` | what is dumped to files and loaded from them |
| `Stepping` | what a step tells a testbench: operands of the last instruction, changed durations |
| `Programs`, `DpiCalls`, `IssSession` | sessions: the calls of the DPI library, the main of `spect_iss` and the library beside it |
| `CpuControlProofs`, `KbusProofs`, `AssemblerProofs`, `DebuggerProofs`, `SessionsProofs`, `IsaProofs`, `ArithmeticProofs`, `FormatsProofs` | theorems |
| `MCCpuControl`, `MCCallStack`, `MCAssembler`, `MCDebugger` | values for TLC |
| `MCIsa`, `MCFormats`, `MCSessions`, `MCArithmetic` | several modules of one kind in one run, see below |

The four last ones put modules side by side that ask the same question of different
code. A variable (`part` or `subject`) is chosen in the initial state and never
changes; the modules are instances with constants of their own, and their actions
and invariants apply to their subject. Nothing interacts there: the run is the union
of the state spaces.

### How the state corresponds to the code

`CpuControl`: `regs`, `int`, `ended`, `pc`, `startPc`, `rar`, `rarSp`, `flags`,
`instrCnt`, `imem`, `reporting` and `changes` are the members of CpuModel of these
names. `stepsLeft` is the only addition: the loop variable of a running `Step`
call (-1 for `Step(0)`, which runs to the end). A host call is one action and
waits for `stepsLeft = 0`, since the calling thread is inside `Step` until then;
one iteration of the loop, fetch to counter update, is one action. An action holds
everything its handler does, so a register write that starts and resets at once
does both, in the code's order, and END at the instruction limit finishes twice.

Abstractions: addresses count words (the code moves the PC by 4); an instruction
without control effect is `DATA` and sets the flags to anything; `instrCnt`
saturates one above the limit, where nothing tells its values apart; of the change
queue the interrupt entries are kept. A push beyond the RAR stack writes the
member behind the array, which is the pointer itself: undefined behaviour, modelled
as a pointer with any value; what further pushes overwrite is not modelled.

`SimKbus`: `keyMem`, `slotStatus`, `ramBuffer` are the members of KeyMemory;
`file` is a file that `Dump` has written, in this process or an earlier one, so
initially any; `gpr`, `errorFlag`, `ldkQ`, `kbusErrorQ` belong to CpuModel. A slot
stands for a pair of key type and slot number, `Parts` for the eight words of a
value, `KeysPerSlot` for the 32 values of a slot. The slot an instruction
addresses, which the code takes from a register and the immediate, is a parameter.
Three uninitialised values are nondeterministic: the RAM buffer of a new object,
the word an LDK pushes for an EMPTY slot, and the error flag of an undefined KBO.
`ExecOther` stands for all instructions off the bus. `stale` is a history
variable: the slots that a `Load` has set EMPTY without erasing their words.

`CosimKbus`: `pending` are the instructions the RTL has executed and the model has
not. The RTL and the testbench are external. What is assumed of them is what the
queues require and nothing checks: the RTL stops a series at the first failing
transaction, and the testbench pushes one flag per transaction, and for LDK one
word, the failing one included. `synced` is a history variable: it is lost when a
reset cuts off pending instructions, whose entries the model keeps, and regained
when the queues have run empty.

`WordArith` takes the widths as parameters: in the code a register has eight words of
32 bits, and ADD, SUB and CMP work on the lowest. A definition keeps the code's order
of masks, shifts and products (MUL25519 in twice the width, the carry of a shift from
the operand before the shift); modulus zero, which the arithmetic library leaves
undefined, is a precondition of `IsaArith`.

`CoreState`: `gpr`, `flags`, `memory`, `grvQ`, `sha512`, `keccak`, `changes` and
`changeReporting` are members of CpuModel. One operator per accessor, with its report:
core and AHB reads and writes, the loads of the host, Reset. `silent` is a history
variable: the step was one of the calls that by their nature do not report. The hash
function and the sponge permutation are parameters. `IsaV2` and `IsaV1` have one
action per macro group of the `InstructionDefs*.cpp` files; control instructions are
those of `CpuControl`, and key-bus instructions here have every outcome.

`Debugger`: `pc`, `ended`, `breakpoints`, `programRunning` are what the code calls so;
`command` is the command in progress, with the iteration of its loop, so that an
instruction is a state. A text the user types is a number, a name, or a number with a
prefix; a name of hexadecimal digits passes for a number, as in the code. `started` is
a history variable.

`Assembler`: `symbols`, `condDefs`, `condStack`, `currAddr`, `firstAddr` are members of
Compiler; `code` stands for the program, `files` for the recursion of `Compile`, one
entry per file that is being read. A file has no fixed text: any line may come next
(`ReadLine`, `EndFile`), so that a run covers every program of a few lines. An error
leaves everything as it is, as the exception does, and a later `CompileInit` starts
from it. `here` in a program entry and `base`, `depth`, `balanced` in a file entry are
history.

`InstructionWord`: a word is the set of its one bits; the tables of the two factories
are data. `InstructionText`: a line is a sequence of pieces between commas.
`Numerals`: a text is a sequence of digits and marks; stoi, stoul and the parser of
the wide integers are the readers. These three model conversions by what they do,
since their properties are about nothing else.

`ContextFile`: `core` is what DumpContext writes, `file` the lines, `saved` what they
were to say, `fresh` whether the program has just started. `HexFile`: `memory`, `file`
and the queue; `origin` says for each word of the file where it came from. A call of
either is an action; the loops inside are functions.

`Stepping`: `goldCycles` are the cycles of the factory, which is static, so they
outlive a model. `DpiCalls` and `IssSession`: `handle` tells no model, a model, and a
deleted one behind a pointer that is not null; `flow`, `ordered` and `given` are
history: whether the calls so far are those of the header's or of main's order. Of an
instruction they keep the parity of its bits.

## What the runs check

Ten runs pass:

| Run | Question | Properties |
|---|---|---|
| `CpuControl` | do registers, outputs and `end_executed_` agree in every state, is the machine the life cycle it promises, does the queue of interrupt changes replay, does every Step return that can? | invariants `TypeOK`, `ControlInv` (`CommandSelfClears`, `StatusConsistent`, `InterruptsFollowRegs`); action properties `ResultOnlyByExecution`, `ReportedChangesChain`; refinement `ImplementsInvocation`; liveness `StepReturns` |
| `CallStack` | does RET continue behind its CALL, across stops, restarts, resets and context loads? | `RarHoldsOpenCalls`, `ReturnsToCaller` |
| `SimKbus` | is the simulator's key bus a store of keys, and does each instruction do and report what it stands for? | `TypeOK`, `QueuesDrained`, `EmptySlotsErased`, refinement `ImplementsKeyStore`, action property `InstructionsKeepPromises` |
| `CosimKbus` | does a model that follows an RTL give each instruction its own results? | `QueuesMatchPending`, `ModelFollowsRtl` |
| `Isa` | is a mirror that replays the change queue right after every instruction and every call that reports? | `PartTypeOK`, `PartChangesTold` |
| `Debugger` | do breakpoints stop a run, and does nothing execute before a start? | `TypeOK`, `DeletedIsGone`, `ExecutesStartedProgram`, `NoBreakpointPassed` |
| `Assembler` | do addresses, labels, conditions and symbols stay in step over every program of four lines, with errors and a second compilation? | `TypeOK`, `PlacedInMemory`, `JumpsLand`, `IncludeKeepsConditions`, `ValuesAreFinal` |
| `Formats` | is what is written read back as it was? | `ContextRestored`, `HexFilesLand`, `WordsUnderParity`, `LinesReadAsMeant`, `NumbersReadAlike` |
| `Sessions` | do calls in any order still lead to the program that was meant? | `ProgramsReachStart`, `CallsMakeSession`, `StepsTellInstruction`, `StepsTellDurations` |
| `Arithmetic` | do masks, limbs and blocks compute the numbers and digests they stand for? | `BitsAsTold`, `CongruentResults`, `LimbsAreNumbers`, `DivisionsExact`; refinement `DigestOfMessage` of `Digest` |

Two runs are expected to fail; each shows that the program differs from a sentence of
its documentation:

| Run | Sentence | What the code does |
|---|---|---|
| `CpuControl_limit` | "Maximal number of instructions to execute" (`CpuModel.h`) | the comparison is `==` and Reset keeps the counter, so a limit once passed is no limit |
| `Assembler_start` | "This function fails if the S file does not define '_start' symbol" (`spect_iss_dpi.h`) | a `_start` that an earlier compilation of the session defined is taken for it |

What the passing properties except, they except for a difference of this kind:
`StepReturns` asks for a limit still ahead, `InterruptsFollowRegs` leaves out the state
Reset leaves, `ContextRestored` the external memory. `DeletedIsGone` is about the address
the session takes a text for, which for a number with a prefix or a name of hexadecimal
digits is 0 and not the one it says. Of files written by hand `HexFilesLand` says only
where words without addresses land and that a bad line ends the load, and of addressed
files in Verilog's notation no more. `LinesReadAsMeant` leaves out dumps of instructions that
have fields but no first one, and jumps in the dump of a program; `NumbersReadAlike` binary
numerals, decimal ones with a leading zero, and a get up to the end of the address space.

The type invariants of the modules that `CosimKbus`, `Formats`, `Sessions` and
`Arithmetic` are made of are stated in those modules to document their variables and are in no run.

### Other differences between code and documentation

Each is a definition next to the model it is about, with a comment; TLC finds a
counterexample when it is put into a configuration of the module. None of them is part
of a run.

| Definition | Sentence | What the code does |
|---|---|---|
| `InterruptOnlyIfEnabled` (CpuControl) | the Done interrupt is "Enabled when INT_ENA[INT_DONE_EN] = 1" (programmer guide, line 352) | Reset clears INT_ENA and leaves an asserted output asserted until the next start or register write |
| `RunningShowsNoResult` (CpuControl) | start does "Update STATUS[DONE]" (`spect_iss_dpi.h`:66) | a restarted program runs with DONE of the previous one |
| `RarSpCountsCalls` (CallStack) | the pointer counts calls "since start of program" (`spect_iss_dpi.h`:186) | start keeps the frames of the previous program |
| `MemoryEntriesHaveValues` (CoreState) | old and new value of a memory change (`spect_iss_dpi_types.h`:264) | reads of EMEM_IN report neither, writes of EMEM_OUT no old one |
| `FirstTimeIsSilent` (Stepping) | no duration is reported for a mnemonic "executed first time since model initialization" (`CpuModel.h`:84) | it is compared with the table's, or with one measured in an earlier model |
| `ResetErasesDurations` (Stepping) | reset does "Erase cycle counter for each instruction mnemonic" (`spect_iss_dpi.h`:61) | it does not touch the factory |
| `UnusedAreFilled` (Stepping) | "Model fills 0xFF to all attributes ... not used" (`spect_iss_dpi.h`:315) | MOVI reports the value of R0 as its second operand |
| `BreakAtAddress` (Debugger) | "Put breakpoint at absolute address" (`CpuSimulator.cpp`:475) | an address with a prefix is read as 0 |
| `DeletesAtAddress` (Debugger) | "Delete breakpoint at \<label\>", "at address" (`CpuSimulator.cpp`:487, `spect_iss_lib.h`:223) | an address with a prefix, or a label of hexadecimal digits, is read as 0 |
| `BreakBehind` (Debugger) | "+- n instructions from current PC" (`CpuSimulator.cpp`:476) | minus adds, too |
| `DeleteAllDeletes` (Debugger) | "Delete all breakpoints." (`CpuSimulator.cpp`:481) | delete without an argument removes nothing |
| `RunTillFirstBreakpoint` (Debugger) | "run it till first breakpoint" (`CpuSimulator.cpp`:61) | run steps before it looks: one on the first instruction is passed |
| `SetTakesValue` (DebuggerAccess) | "Set GPR register X to <value>" (`CpuSimulator.cpp`:511) | a binary value sets all ones |
| `NextAddressesShown`, `GetEnds` (DebuggerAccess) | "value at memory address + X next addresses" (`CpuSimulator.cpp`:503) | X words, the first included; at the last word of the address space the loop does not end |
| `ConstantDenotes` (DebuggerAccess) | constants may be "decimal, hexadecimal or binary" (programmer guide, line 451) | a binary constant is 0 |
| `FirstInMemory` (Assembler) | "Place first instruction between" base and last word (`Compiler.cpp`:48) | an unaligned address in the last word and the first one behind the memory are accepted |
| `LabelsOfInstructions` (Assembler) | the label of an instruction, or null (`Instruction.h`:164) | the first instruction of a file without a label gets an uninitialised pointer |
| `KbusObjectReadable` (InstructionWord) | bits 31:17 are the offset (`spect_iss_dpi_types.h`:268) | the mask has five bits: word 7 prints as offset 28 |
| `DumpAsWritten` (InstructionText) | "Instruction as it would be written in .S file" (`spect_iss_dpi.h`:181) | an instruction without a first operand prints a comma in front |
| `ProgramDumpIsSource` (InstructionText) | the dump is a ".s file with addresses" (`spect_compiler.cpp`:56) | targets of jumps come out in hexadecimal without prefix |
| `MemoryFromContext` (ContextFile) | a context holds the memory content (`spect_iss.cpp`:76, `CpuModel.h`:307) | not the external memory |
| `AddressesAbsolute` (HexFile) | "Absolute address in the HEX file" (`HexHandler.cpp`:50) | the address indexes a pointer that earlier lines have moved |
| `InvalidRejected` (HexFile) | an invalid file is refused (`HexHandler.h`:42) | a line that is no random number pushes 0 |
| `FailureReturned` (HexFile) | non-zero for a failed load (`spect_iss_dpi.h`:278) | the exception of the loader is not caught, and lines are loaded by then |
| `VerilogAddresses` (HexFile) | "+0x1 for each address" (`spect.h`:130) | bytes of the offset and words of the index are added |
| `AssertedCallsHaveModel` (DpiCalls) | "Model not initalized" is asserted in every call (`spect_iss_dpi.cpp`:28) | exit deletes the objects and leaves the pointers |
| `CompileFailureReturned` (DpiCalls) | "non-zero - Compilation failed." (`spect_iss_dpi.h`:242) | a file that cannot be opened leaves the call with an exception |
| `TopPartDocumented` (DpiCalls) | part 8 is bits 255:224 (`spect_iss_dpi.h`:140) | part 7 is |
| `DumpReturned` (DpiCalls) | an instruction is returned as text (`spect_iss_dpi.h`:179) | the text goes to a buffer the caller does not see |
| `ParityEquivalent`, `StartPcEquivalent`, `ProgramEquivalent` (IssSession) | each library call is "Equivalent to" an option (`spect_iss_lib.h`:65, 76, 158) | parity set after init, a start address set before the program, and a program without `_start` behave otherwise |
| `CmdFileExecuted`, `LimitAsDocumented` (IssSession) | "Execute file with simulator shell commands", "default = 10^8" (`spect_iss.cpp`:65, 74) | not without `--shell`; 10^9 |

### Bounds

- `CpuControl`: instruction memory of three words in a space of five, so a program
  can run off both ends and wrap; four programs that end, branch both ways, loop,
  and are undecodable, three more with calls; a stack of one entry, so that a nested
  call overflows it; a limit of two instructions, so that END can be the last one
  allowed and the counter can pass it; a queue of the four changes that one call may
  add. Every register is written with every combination of the three bits that carry
  fields.
- `CallStack`: a stack of two entries and a pointer of three values: full, overflow,
  underflow and wrap all occur. No limit (`MaxInstrCnt = 0` is never reached, since
  the code increments before it compares).
- `SimKbus`: two slots, so that operations on one are seen not to touch the other,
  with one value of two words: the least in which a series of transactions can stop
  early and a value be loaded in part.
- `CosimKbus`: three pending instructions and queues of five: three failing ones in
  a row, or two complete series and a KBO in a queue. A series that fails after the
  first transaction occurs here only: the simulator's key memory reports errors for
  whole slots.
- `Isa`: registers of two words of one bit, the least in which the low word differs from
  the register and a carry leaves it; three registers for the arithmetic, so that all
  ways to coincide occur; for loads and stores ten addresses of a two-byte word
  with regions that touch, the last one shorter than its word. A change queue that is
  emptied before the next instruction or silent call (`MaxChanges`): the property is about what one
  step adds to it, and reporting may be switched in between.
- `Debugger`: three instructions of two bytes in a space of eight, three breakpoints;
  a label and an address of the same place, a symbol that is no label, a name made of
  hexadecimal digits, a number between two instructions.
- `Assembler`: four lines over two compilations of up to two files at a time, two
  symbols, one condition besides the ISA version, a memory of two instructions with first addresses in
  it, unaligned, at and behind its end. Four lines hold a condition around a label
  and an end, or a use, an include and a definition. `MaxLines`, `MaxDepth` and
  `MaxSessions` are guards of the model only.
- `Formats`: two elements of each part of a context, two changes between dump and load,
  two processes; four words of memory and four file operations; all instructions of
  both versions with all single wrong bits, over operands and addresses that set every
  bit of a field at least once; lines of four pieces, one more than the most fields;
  texts of four characters, enough for a prefix and a number that overflows its width.
- `Sessions`: files that compile, lack `_start`, do not compile, do not exist; an
  instruction memory of three words; two sessions of a process. Stepping has two
  registers, one of them R31, two instructions, and separately four instructions over
  two models with durations to 3. `MaxSteps`, how many instructions of a model are looked
  at, is one more than the limit of instructions, which can be passed.
- `Arithmetic`: all operands of registers of four bits, of three limbs of two bits and of
  three of three bits (the rare cases of the long division, where the estimate is two
  too large or the divisor is added back, are common there); four limbs of two for the
  product of two registers of two; messages to 27 bytes in blocks of 8 with a length
  field of 3, cut in every way.

Where a configuration says `CHECK_DEADLOCK FALSE`, the number of operations is bounded
or an error ends the session.

### Fairness

One assumption, weak fairness of `ExecuteNextInstruction` in `CpuControl`: `Step`
is a loop of the calling thread that nothing suspends, so while it runs the next
instruction is executed. Nothing is assumed of the host. (`DebuggerAccess` states the
same of the loop of a get, for the definition `GetEnds` in the table above.)

## What is proved

`tlapm` checks the eight proof modules to the last leaf. They use the assumptions named
in the modules (`GeometryAssumption`, `HostAssumption`, `WordsAssumption`,
`KeyMemoryAssumption`, `AssemblerAssumption`, `DebuggerAssumption`, `ProgramsAssumption`,
`DpiAssumption`, `SteppingAssumption`, `SessionsAssumption`, `PartAssumption` with
`CoreAssumption`, `ArithmeticAssumption` with `WidthAssumption` and `PowersAssumption`,
`Sha512Assumption`, `WordAssumption` and `FieldPowersAssumption`, and `FormatsAssumption`
with `ContextAssumption`, `HexAssumption` and `TextAssumption`), which say that sizes are positive, that the instruction memory does not begin at 0, that the stack
pointer can count the stack, that the stand-ins for an absent slot or label are nothing
else, that a source file with a `_start` has it before one of its instructions, that
the numbers the user or the program gives are naturals, that there are two registers, each
no longer than the address space, and that a word belongs to one memory at most, also
where a region ends inside it, as the regions of `spect_defs.h` begin at words; that a
register has at least two words and half of its bytes is a number; what powers of two are
(`2^0 = 1`, and twice as much for the next exponent), which the provers do not know; that
the operands of instructions are naturals; that a
length field leaves room for the bit that ends a message, that every number in a context
file, and every line of bytes, has at most `Width` decimal digits, and that files and
programs are sequences of lines and words.

- **`CpuControlProofs`**. `TypeCorrect` by cases over all actions. `ControlInv`, the
  conjunction of `CommandSelfClears`, `StatusConsistent` and `InterruptsFollowRegs`,
  is inductive relative to the types: the three need each other, because a write
  whose effects run in sequence ends in the right outputs only if no stale command
  bit adds another effect, and Finish and Start touch STATUS through the same
  pieces. The proof goes through a predicate `Agree` on registers, end flag and
  outputs, so that each piece of a handler is shown to establish it once. From the
  invariant follow `ResultsComeFromExecution` (action property) and
  `InvocationRefinement` (every step is a step of `SpectInvocation` or a stutter).
- **`CpuControlProofs`, calls**. `RarHoldsOpenCalls` is not inductive: a push is in range only
  if the open calls are at most the depth. `FramesInv` adds that and the types of
  the history variables; `OpenCallsAreStacked` and `CallsReturn` follow for any
  depth, pointer width and program.
- **`KbusProofs`, the simulator**. With empty queues, an instruction that feeds itself is shown
  equal to one without queues (`LdkStep`, `StkStep`, `KboStep`; the core is that
  `LastTransaction` of equal flags is the first or the last transaction, and that
  as many entries are taken as were put). `SimInv`, types, drained queues and erased
  empty slots, is then inductive; `PromisesKept` and `StoreRefinement` follow for
  any number of slots, values, words and registers.
- **`KbusProofs`, the co-simulation**. `QueuesMatchPending` compares the queues with the flattening of
  the results of all pending instructions. The flattening is a recursive function, so it
  is replaced by `Concatenates`, a sequence of prefixes in which each is the previous one
  and the next result; that a prefix sequence exists for any number of instructions is
  an induction over a set of naturals (`NatInSet`). An instruction of the model takes
  the first result off the prefixes, the RTL adds one behind the last. `CosimTypeCorrect`,
  `QueuesHoldPending` and `ModelFollowsTheRtl` follow, the last one as an action property.
- **`AssemblerProofs`**, for any symbols, first address, memory, nesting and number of
  lines. `IInv` is the conjunction of the types with the ranges `TypeOK` leaves out
  and three parts. `ProgramInv`: the address counter is the first address plus what
  has been placed, and a resolved label stands where the instruction that carries it
  will be. `ConditionsInv`: what an included file found on the condition stack is
  still below what it pushed (`Under`, `Rests`), as long as files are balanced.
  `WordsInv`: a relocated word holds the final value of its symbol. From them follow
  `ProgramIsPlaced`, `LabelsReached`, `ConditionsKept` and, as an action property,
  `SymbolsFinal`.
- **`DebuggerProofs`**, for any program, names and breakpoints. `NoBreakpointPassed` and
  `DeletedIsGone` need that the list of breakpoints has no duplicate (`Distinct`): a
  deletion removes one entry, and the address is gone only if it was the only one. It is
  the address the session takes the text for (`TakenFor`), for every text.
  `RunInv` says that a run that has moved on stands at none, `StartedInv` that
  `program_running_` implies a start. `TypeCorrect`, `DeletionComplete`,
  `OnlyStartedExecute` and `BreakpointsStop` follow.
- **`SessionsProofs`**, about the union of subjects in `MCSessions` with its constants left
  open. An invariant of a subject speaks of the states in which it was chosen.
  `LastInstructionTold` needs nothing but one step. `DurationsTold` rests on
  `FactoryRemembers`: what the property remembers of a mnemonic is what the factory does,
  unless the step was not measured. `ProgramsStart` rests on `DpiInv`, one condition for
  each stage of the flow (a compiled program has its `_start` in the memory, a loaded
  memory holds it, the start address told is that of the program loaded), and on
  `LibraryInv`, by which a library session that follows the order of `main` is what
  `main` makes of the options given so far. `CallsEquivalent` is the end of that chain.
- **`IsaProofs`**, for any registers, word sizes, memory map, hash, sponge and contents of
  the queues, over lemmas about sequences of entries. `PartChangesTold`
  says of every register, flag and memory word that the entries of the step about it
  *replay*: the first has the old value, each begins where the one before ended, the last
  has the new value, and without entries nothing has changed. The sequences of two pieces
  of an instruction replay when the piece in the middle meets (`ReplaysConcat`); those of a
  load or a store are a flattening of one piece per word, which is again replaced by its
  prefixes. Each word of a stored register tells its own memory word, because the words of
  a register that is no longer than the address space are apart even when the access wraps
  (`WordsApart`, by division), and an entry of the external memory, whose old value the
  core does not read, is about no other memory, which is what `CoreAssumption` says of
  regions. The invariant, `PartShape`, is only that registers, flags and memory are
  functions over their names and the change queue is a sequence. The instructions of
  a group are shown one by one and joined by the disjuncts of `Next`, so that
  `ChangesMirrorTheCore` covers both versions, and for version 1 that a register is
  reported once.
- **`ArithmeticProofs`, the hash**, for blocks, length fields and messages of any size. A byte of the
  model is the place it was sent at, so what has been received is right exactly if chain
  and buffer are together the numbers from 1. `HashInv` says so of the chain (`Chain`, the
  first blocks of the places) and of the bytes of the buffer that count, whatever an
  earlier message has left behind them. An update is short, or it fills the buffer, goes on
  with whole blocks and keeps a rest; both lead from `Places(t)` to `Places(t + n)`. What
  the chain flattens to is again shown by prefixes. The padding is compared with that of
  `Digest` entry by entry, with and without another block. `HashBuffer` and
  `DigestRefinement`, the implementation of `Digest` step by step, follow.
- **`ArithmeticProofs`, the instructions**, for words and bytes of any number of bits and
  registers of any number of words but one. A number has the bit `c` at place `i` exactly if
  it is `r + 2^i * (c + 2 * q)` with `r` below `2^i` (`HasBit`), and numbers of `n` bits with
  the same bits are the same (`BitsDetermine`). From that form it is shown which bits each
  piece of the code gives: a bitwise operation (`BitwiseBits`, by induction over its loop),
  the complement, shifts, the mask of low bits, and the halves of the loop of SWE, after `k`
  turns of which the upper `k` bytes are in place (`SwapBytesBits`). `InstructionBits` says
  what these bits are for whole instructions. `ResultsCongruent` is arithmetic: differences
  of reduced numbers, and for SCB that a mask below `2^W` times a modulus below `2^W`, plus
  a scalar, is below `2^(2*W)`, so that nothing is cut (`BlindIs`). The invariant is that
  the operands are registers.
- **`FormatsProofs`**, about the union of subjects in `MCFormats` with its constants left
  open, for four of its five questions. `HexFilesComeBack`: `HexInv` says of the file
  which words it has and for where (`WordsFor`); the reader is a recursive function over
  the lines, and by induction over its stages (`NatInSet`) the pointer, the places written
  and the memory are those of the words read so far, for each format and every offset; by
  another (`LoadsGoodLines`) what has changed is what the lines before the first bad one say.
  `ArgumentsReadAsMeant`: `LineInv` relates the two counters of the parser, the index of
  the argument and the fields skipped, to the places of the fields (`Consumed`, `Place`);
  the pieces taken and those still in the line are then the line, and an argument goes into
  a field exactly if it is the one at the field's place. `ContextsAreRestored`: a number
  that fits is what its digits are read as, in any base, and bytes are what the line packed
  of them unpacks to (`NumberOfDigits`, `DigitsOfNumber`); the lines of each section stand
  where the reader, which only counts, looks for them (`SectionsAre`); so a load of a dump
  restores each part (`DumpIsLoaded`). `CtxInv` says that a process with a context has the
  dump of the core that was saved. `WordsKeepParity`: a fold of exclusive ors turns one
  wrong bit, wherever it is, into a wrong bit 0 (`FoldedFlips`, by runs of bits that double),
  so a parity is right for a word exactly if it is wrong for the word with that bit; the 46
  and 60 rows of the two tables differ in type, opcode or func and so in the encoding
  (`TablesAre`, `EncodingsDiffer`); the fields of a type are apart (`FieldsAre`), so what is
  read from a field is the bits of what was put there (`BodyHas`, `FieldNumber`).
  `WordInv` says that the word is the assembled one, up to one bit once it is flipped.

Only model-checked:

- `StepReturns`, which is liveness.
- `LimbsAreNumbers` and `DivisionsExact`, whose instances have fixed widths: the run goes
  through all their operands.
- `PartTypeOK` of `Isa` and `NumbersReadAlike`: they speak of values of a register and of a
  text, for every instruction and every reader.

Nothing is proved about RTL or testbench.

## Not modelled

- The compression function of SHA-512 and the permutation of TMAC (a chain of blocks
  and a free permutation stand for them), so no digest has a value here.
- Option parser and the text of commands; log and error messages.
- Square root, random, floating point and signed variants of the vendored integers,
  which nothing here calls.
- Coverage collection and the SystemVerilog wrappers, which pass calls on, and the
  testbench itself.
- Getters of the DPI layer that change nothing are no actions. Key types above 15,
  which only the debugger's `set` and `get` could name, are left out.
- The RAR stack beyond its end: a push there writes the pointer, which is then any
  value; what further pushes overwrite is not followed.

Two hazards of the list have no property, for the reasons in `PROJECT.json`: a reset
that keeps the queues of random words and key-bus results, where nothing says which
entries a testbench means for the next program, and the label of a first instruction,
which `LabelsOfInstructions` above shows.

## Plan

Done: everything listed above. What would come next: a composition of `Debugger` with the
whole of `CpuControl` instead of its program counter; `TextReadsBack` and `ReadersAgree` of
`DebuggerAccess` with the lemmas about digits that the context files needed, once widths
are given as the largest number instead of as a number of bits.
