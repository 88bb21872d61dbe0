--------------------------------- MODULE DpiCalls ---------------------------------
(*****************************************************************************)
(* A session of the SystemVerilog testbench with the model: what the calls   *)
(* of the DPI library do to the model, the compiler and the hex file between *)
(* them, from the program to the first instruction it fetches.  What a       *)
(* running program does is the business of the other modules.                *)
(*                                                                           *)
(* The two objects are created and deleted together.  The words of memory    *)
(* outside the instruction memory are not kept.                              *)
(*****************************************************************************)
EXTENDS Programs

CONSTANTS Files,            \* [exists, valid, start, ones]: source files
          FirstAddrs, ParityTypes, DumpAddrs,
          MemTypes, MemBase, \* memories; their bases, in words
          PartBits, Parts   \* 32 bits, 8 parts of a register

ASSUME DpiAssumption ==
  /\ MemBase \in [MemTypes -> Nat] /\ "INSTR" \in MemTypes /\ MemBase["INSTR"] = Base
  /\ ParityTypes \subseteq Parities /\ DumpAddrs \subseteq Words
  /\ PartBits \in Nat \ {0} /\ Parts \in Nat \ {0}
  /\ \A f \in Files : SourceFile(f)

VARIABLES
  handle,     \* the two pointers: "null", "live", "dangling"; or "aborted", "undefined"
  parity, mem, startPc, pc, gpr,   \* the model
  symbol,     \* the compiler's _start, or None
  hexFile,    \* what was written last, or None
  told,       \* what spect_dpi_get_compiled_program_start_address returned, or None
  compiled,   \* history: the last compilation: [file, first, parity, err]
  stage,      \* history: how far the flow of the header has come with it
  buffer      \* history: the caller's buffer and the instruction asked for

model == <<parity, mem, startPc, pc, gpr>>
flow  == <<compiled, stage>>
vars  == <<handle, model, symbol, hexFile, told, flow, buffer>>

HexTypes == {"ISS_WORD", "VERILOG_RAW_WORD", "VERILOG_ADDR_WORD"}
PartValues == 0 .. 2^PartBits - 1
\* compiled, loaded, told, set, started: a step counts if those before it are done.
Reach(n) == stage' = IF stage = n - 1 THEN n ELSE stage
Redo(n)  == stage' = IF stage >= n THEN n - 1 ELSE stage

Untouched == [asked |-> None, got |-> None]

NoProgram == [a \in Words |-> Erased]

Init ==
  /\ handle = "null" /\ parity = "NONE" /\ mem = NoProgram /\ startPc = Base /\ pc = 0 /\ gpr = 0
  /\ symbol = None /\ hexFile = None /\ told = None
  /\ compiled = None /\ stage = 0 /\ buffer = Untouched

--------------------------------------------------------------------------------
(* The life of the objects *)

Live == handle = "live"

\* A model and a compiler of their own, whatever was there before.
SpectDpiInit ==
  /\ handle \in {"null", "live", "dangling"}
  /\ handle' = "live" /\ symbol' = None
  /\ parity' = "NONE" /\ mem' = NoProgram /\ startPc' = Base /\ pc' = 0 /\ gpr' = 0
  /\ told' = None /\ compiled' = None /\ stage' = 0 /\ buffer' = Untouched
  /\ UNCHANGED hexFile

\* A null pointer may be deleted; deleting twice is not looked at.
SpectDpiExit ==
  /\ handle \in {"null", "live"}
  /\ handle' = IF handle = "live" THEN "dangling" ELSE "null"
  /\ UNCHANGED <<model, symbol, hexFile, told, flow, buffer>>

\* Any call but these two asserts that the pointer is not null.
CallWithoutModel ==
  /\ handle \in {"null", "dangling"}
  /\ handle' = IF handle = "null" THEN "aborted" ELSE "undefined"
  /\ UNCHANGED <<model, symbol, hexFile, told, flow, buffer>>

--------------------------------------------------------------------------------
(* Programs *)

\* The symbol a compilation leaves; one that fails may have come to _start or not.
SymbolAfter(first, f) == IF symbol = None /\ f.start # None THEN first + f.start ELSE symbol

CompileFinish(first, f) == IF SymbolAfter(first, f) = None THEN 1 ELSE 0

Written(first, f, type) == [i \in DOMAIN f.ones |->
  [ones |-> f.ones[i], bit |-> ComputeParity(type, f.ones[i])]]

Compiling(f, type, first, err) ==
  /\ Live /\ UNCHANGED <<model, told, buffer>>
  /\ compiled' = [file |-> f, first |-> first, parity |-> type, err |-> err]

\* An error of a type that the call does not catch.
CompileMissing(f, type, first) ==
  /\ first \in Base .. Base + Size /\ ~f.exists /\ Compiling(f, type, first, None)
  /\ handle' = "aborted" /\ UNCHANGED <<symbol, hexFile, stage>>

\* An error of the compiler, which the call turns into its number.
CompileFails(f, type, first) ==
  /\ (first \notin Base .. Base + Size) \/ (f.exists /\ ~Compiles(first, f, symbol))
  /\ Compiling(f, type, first, 2)
  /\ symbol' \in {symbol} \cup {SymbolAfter(a, f) : a \in {first} \cap (Base .. Base + Size)}
  /\ stage' = 0 /\ UNCHANGED <<handle, hexFile>>

CompileEnds(f, hexType, type, first) ==
  LET err == CompileFinish(first, f)
  IN /\ f.exists /\ Compiles(first, f, symbol) /\ Compiling(f, type, first, err)
     /\ symbol' = SymbolAfter(first, f)
     /\ stage' = 1 - err
     /\ hexFile' = IF err = 0 THEN [type |-> hexType, first |-> first, words |-> Written(first, f, type)]
                   ELSE hexFile
     /\ UNCHANGED handle

CompileProgram(f, hexType, type, first) ==
  CompileMissing(f, type, first) \/ CompileFails(f, type, first) \/ CompileEnds(f, hexType, type, first)

InPlace(offset) ==
  hexFile.type = "ISS_WORD" \/ (hexFile.type = "VERILOG_RAW_WORD" /\ offset = hexFile.first)

\* Addresses of a Verilog file are relative to the instruction memory, below which they
\* fall; a file without addresses goes to the offset.
LoadHexFile(offset) ==
  /\ Live /\ hexFile # None
  /\ mem' = CASE hexFile.type = "ISS_WORD" -> WithHexFile(mem, hexFile)
              [] hexFile.type = "VERILOG_RAW_WORD" -> WithHexFile(mem, [hexFile EXCEPT !.first = offset])
              [] OTHER -> mem
  /\ IF InPlace(offset) THEN Reach(2) ELSE Redo(2)
  /\ UNCHANGED <<handle, parity, startPc, pc, gpr, symbol, hexFile, told, compiled, buffer>>

\* Mutant: the first instruction is the start.
StartAddressFirst == IF compiled = None THEN 0 ELSE compiled.first

StartAddress == IF symbol = None THEN 0 ELSE symbol

GetCompiledProgramStartAddress ==
  /\ Live /\ told' = StartAddress
  /\ Reach(3)
  /\ UNCHANGED <<handle, model, symbol, hexFile, compiled, buffer>>

SetModelStartPc(value) ==
  /\ Live /\ startPc' = value
  /\ IF value = told THEN Reach(4) ELSE Redo(4)
  /\ UNCHANGED <<handle, parity, mem, pc, gpr, symbol, hexFile, told, compiled, buffer>>

\* Reset keeps the memory, the parity and the start; start begins at it.
Reset ==
  /\ Live /\ pc' = 0 /\ gpr' = 0 /\ Redo(5)
  /\ UNCHANGED <<handle, parity, mem, startPc, symbol, hexFile, told, compiled, buffer>>

Start ==
  /\ Live /\ pc' = startPc
  /\ Reach(5)
  /\ UNCHANGED <<handle, parity, mem, startPc, gpr, symbol, hexFile, told, compiled, buffer>>

SetParityType(type) ==
  /\ Live /\ parity' = type
  /\ UNCHANGED <<handle, mem, startPc, pc, gpr, symbol, hexFile, told, flow, buffer>>

--------------------------------------------------------------------------------
(* Looking at the model *)

\* A shift by the width or more leaves nothing.
GetGprPart(part) == IF part < Parts THEN (gpr \div 2^(part * PartBits)) % 2^PartBits ELSE 0

SetGprPart(part, data) ==
  /\ Live
  /\ gpr' = IF part < Parts THEN gpr + (data - GetGprPart(part)) * 2^(part * PartBits) ELSE gpr
  /\ UNCHANGED <<handle, parity, mem, startPc, pc, symbol, hexFile, told, flow, buffer>>

\* The address is made a number of words, which GetMemory takes for bytes; what is there
\* may be no instruction, and a null pointer.  The text goes to a buffer nobody sees.
DumpInstruction(a) ==
  /\ Live /\ handle' \in {handle, "undefined"} /\ buffer' = [buffer EXCEPT !.asked = a]
  /\ UNCHANGED <<model, symbol, hexFile, told, flow>>

Next ==
  \/ SpectDpiInit \/ SpectDpiExit \/ CallWithoutModel
  \/ \E f \in Files, h \in HexTypes, t \in ParityTypes, first \in FirstAddrs : CompileProgram(f, h, t, first)
  \/ \E m \in MemTypes : LoadHexFile(MemBase[m])
  \/ GetCompiledProgramStartAddress
  \/ \E v \in {Base, told} \ {None} : SetModelStartPc(v)
  \/ Reset \/ Start
  \/ \E t \in ParityTypes : SetParityType(t)
  \/ \E part \in 0 .. Parts, d \in PartValues : SetGprPart(part, d)
  \/ \E a \in DumpAddrs : DumpInstruction(a)

Spec == Init /\ [][Next]_vars

--------------------------------------------------------------------------------
(* Properties *)

\* The pointers, the model and what the compiler left are of their types; registers keep
\* their width.
TypeOK ==
  /\ handle \in {"null", "live", "dangling", "aborted", "undefined"}
  /\ parity \in Parities /\ mem \in [Words -> [ones : {0, 1}, bit : {0, 1}]]
  /\ gpr \in 0 .. 2^(Parts * PartBits) - 1 /\ symbol \in Nat \cup {None}

\* The flow in the header: a program that compiles, is loaded and started at the address
\* asked for is fetched at its _start, and a model that checks no parity, or the one
\* compiled with, accepts it; also after other programs, failures, resets and sessions.
FlowReachesStart ==
  LET c == compiled
  IN /\ handle = "live" /\ stage = 5 /\ c.file.start # None =>
          /\ pc = c.first + c.file.start
          /\ mem[pc].ones = c.file.ones[c.file.start + 1]
          /\ parity \in {"NONE", c.parity} => CheckParity(parity, mem[pc])

\* The assertion in every call: a model that is not initialized does not get past it.
AssertedCallsHaveModel == handle # "undefined" \/ buffer.asked # None

\* spect_dpi_compile_program: "non-zero - Compilation failed."
CompileFailureReturned == compiled # None => compiled.err # None

\* spect_dpi_get_gpr_part and spect_dpi_set_gpr_part: part 8 is bits 255:224.
TopPartDocumented == GetGprPart(Parts) = gpr \div 2^((Parts - 1) * PartBits)

\* spect_dpi_dump_instruction returns the instruction at the address.
DumpReturned == handle = "live" /\ buffer.asked # None => buffer.got = mem[buffer.asked]
===================================================================================
