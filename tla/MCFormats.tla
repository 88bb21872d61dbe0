--------------------------------- MODULE MCFormats ---------------------------------
(*****************************************************************************)
(* What one part of the programs writes and another reads back.  The subject *)
(* is chosen at the beginning; the variables of the others are unused.       *)
(*   context   context files of spect_iss (ContextFile)                      *)
(*   hex       hex files of memories, programs and random words (HexFile)    *)
(*   word      instruction words and their parity (InstructionWord)          *)
(*   line      instructions as text (InstructionText)                        *)
(*   number    numbers typed into the debugger and sources (DebuggerAccess)  *)
(*****************************************************************************)
EXTENDS InstructionWord

\* See the modules; the constants of InstructionWord come with it.
CONSTANTS
  NumRegs, HashWords, StateLines, BytesPerLine, RarDepth, RamIn, RamOut,
  Gprs, HashVals, Bytes, Rates, Indices, Pcs, Words, Widest, Width, MaxWork, MaxProcesses,
  MemWords, InstrBase, Vals, Codes, UserFiles, MaxLoads,
  Registers, Numbers, MaxPieces,
  RegisterBits, WordBits, IntMax, AddrBits, Typed, MaxText

VARIABLES
  subject,          \* the variables of InstructionWord come with it, too
  file,                                                            \* context, hex
  core, withContext, running, work, processes, saved, fresh,       \* context
  memory, origin, grvQ, loaded, steps,                             \* hex
  text,                                                            \* line, number
  shape, given, printer, line_buf, arg_index, skipped_args, fields, outcome,  \* line
  gpr, mem, const, showing, shown, asked                           \* number

contextVars == <<core, withContext, running, work, processes, saved, fresh>>
hexVars     == <<memory, origin, grvQ, loaded, steps>>
lineVars    == <<shape, given, printer, line_buf, arg_index, skipped_args, fields, outcome>>
numberVars  == <<gpr, mem, const, showing, shown, asked>>
subjectVars == <<subject, file, contextVars, hexVars, vars, text, lineVars, numberVars>>

Context == INSTANCE ContextFile
Hex     == INSTANCE HexFile
Line    == INSTANCE InstructionText
Number  == INSTANCE DebuggerAccess

ASSUME FormatsAssumption ==
  Context!ContextAssumption /\ Hex!HexAssumption /\ Line!TextAssumption

--------------------------------------------------------------------------------
(* The instances *)

MCCodes == {<<7>>, <<8, 9>>}

\* Every kind of line of HexFile; words and addresses mixed.
Blank    == [kind |-> "blank"]
Bad      == [kind |-> "bad"]
Raw(v)   == [kind |-> "raw", val |-> v]
At(a, v) == [kind |-> "at", addr |-> a, val |-> v]

MCUserFiles ==
  {<<Blank, Raw(5), Blank, Raw(6)>>, <<At(4, 5), At(0, 6)>>, <<Raw(5), At(0, 6)>>,
   <<At(4, 5), Raw(6)>>, <<Raw(5), Bad, Raw(6)>>, <<Bad>>, <<At(8, 5), Bad, At(0, 6)>>}

\* The digits 0, 1, 7, 8, 11 (the letter b), 15, then x, minus, tick and another character.
MCTyped == {0, 1, 7, 8, 11, 15, 16, 18, 19, 20}

--------------------------------------------------------------------------------

Unused == 0
NoContext == /\ core = Unused /\ withContext = Unused /\ running = Unused /\ work = Unused
             /\ processes = Unused /\ saved = Unused /\ fresh = Unused
NoHex     == /\ memory = Unused /\ origin = Unused /\ grvQ = Unused /\ loaded = Unused
             /\ steps = Unused
NoWord    == /\ isa = Unused /\ instr = Unused /\ parity = Unused /\ word = Unused
             /\ flipped = Unused /\ decoded = Unused /\ sent = Unused /\ told = Unused
NoLine    == /\ shape = Unused /\ given = Unused /\ printer = Unused /\ line_buf = Unused
             /\ arg_index = Unused /\ skipped_args = Unused /\ fields = Unused /\ outcome = Unused
NoNumber  == /\ gpr = Unused /\ mem = Unused /\ const = Unused /\ showing = Unused
             /\ shown = Unused /\ asked = Unused

SubjectInit ==
  \/ subject = "context" /\ Context!Init /\ NoHex /\ NoWord /\ text = Unused /\ NoLine /\ NoNumber
  \/ subject = "hex" /\ Hex!Init /\ NoContext /\ NoWord /\ text = Unused /\ NoLine /\ NoNumber
  \/ subject = "word" /\ Init /\ file = Unused /\ NoContext /\ NoHex /\ text = Unused /\ NoLine
       /\ NoNumber
  \/ subject = "line" /\ Line!Init /\ file = Unused /\ NoContext /\ NoHex /\ NoWord /\ NoNumber
  \/ subject = "number" /\ Number!Init /\ file = Unused /\ NoContext /\ NoHex /\ NoWord /\ NoLine

SubjectNext ==
  /\ UNCHANGED subject
  /\ \/ /\ subject = "context" /\ Context!Next
        /\ UNCHANGED <<hexVars, vars, text, lineVars, numberVars>>
     \/ /\ subject = "hex" /\ Hex!Next
        /\ UNCHANGED <<contextVars, vars, text, lineVars, numberVars>>
     \/ /\ subject = "word" /\ Next
        /\ UNCHANGED <<file, contextVars, hexVars, text, lineVars, numberVars>>
     \/ /\ subject = "line" /\ Line!Next
        /\ UNCHANGED <<file, contextVars, hexVars, vars, numberVars>>
     \/ /\ subject = "number" /\ Number!Next
        /\ UNCHANGED <<file, contextVars, hexVars, vars, lineVars>>

SubjectSpec == SubjectInit /\ [][SubjectNext]_subjectVars

--------------------------------------------------------------------------------
(* What is read is what was written *)

\* Wherever a session starts its program from a context, whatever it ran, loaded or
\* started before, every part of the core that the file has is what it was when the
\* context was dumped (LoadContext, DumpContext).
ContextRestored == subject = "context" => Context!StartsFromContext

\* A dump or a program comes back to where it was written for, whatever offset it is
\* loaded with, and nothing else changes; of a file with a bad line the words before it are
\* loaded and none behind it; a file of random words pushes all of its words in order, or
\* nothing if it is rejected (LoadHexFile, DumpHexFile).
HexFilesLand ==
  subject = "hex" => Hex!FileLands /\ Hex!BadLineEndsLoad /\ Hex!QueueAllOrNothing

\* No two instructions of a version share an encoding and no field overlaps another: what
\* is decoded from an intact word is what was assembled, and one wrong bit, or the opposite
\* parity, makes it invalid (Instruction::DisAssemble, CheckParity).
WordsUnderParity == subject = "word" => DecodesBack /\ WrongParityRejected

\* A line is accepted exactly if it has one fitting argument for every field the
\* instruction has, and each argument is then in its field; what is dumped of an instruction
\* with a first field, or without any, is read as itself, in the dump of a program unless
\* that field is a number (ParseInstruction, Dump).
LinesReadAsMeant == subject = "line" => Line!ArgumentsLand /\ Line!DumpsReadBack

\* A number is the same whoever reads it: what is printed of a register is the same
\* register for the next set or load, a numeral without a leading 0 is one number to the
\* debugger's register, to its memory and to the assembler, and a get shows the words it
\* was asked for, in order and no more (CmdSet, CmdGet, ParseValue).
NumbersReadAlike ==
  subject = "number" => Number!TextReadsBack /\ Number!ReadersAgree /\ Number!GetShowsAsked
================================================================================
