-------------------------------- MODULE Assembler --------------------------------
(*****************************************************************************)
(* Class Compiler: one pass over a source file and the files it includes,    *)
(* conditional compilation, labels and constants, placement of instructions, *)
(* and the relocation that puts the values of symbols into the words.        *)
(*                                                                           *)
(* A file is read line by line, and any line may come next: the runs cover   *)
(* every program of a few lines.  A line is what is left of it after the     *)
(* comment: a directive of conditional compilation, or a label followed by   *)
(* nothing, a constant, an include or an instruction.  An error throws; what *)
(* it leaves behind is what the next compilation of the session starts from. *)
(*****************************************************************************)
EXTENDS Naturals, SequencesExt, FiniteSetsExt

CONSTANTS
  Idents, Start,        \* names of symbols, among them _start
  None, Garbage,        \* a null pointer and an uninitialised one
  CondIdents,           \* names that ifdef tests; the version of the ISA is defined
  IsaVersion,
  Constants,            \* right hand sides of .eq
  InstrBase, InstrSize, InstrBytes,
  FirstAddrs, MaxLines, MaxDepth, MaxSessions

InstrEnd == InstrBase + InstrSize

ASSUME AssemblerAssumption ==
  /\ Start \in Idents /\ IsaVersion \in CondIdents
  /\ {None, Garbage} \cap Idents = {} /\ None # Garbage
  /\ Constants \subseteq {"decimal", "leading zero"} \X Nat \cup {"name"} \X Idents
  /\ {InstrBase, InstrSize, InstrBytes, MaxLines, MaxDepth, MaxSessions} \subseteq Nat
  /\ InstrBytes > 0 /\ MaxDepth > 0 /\ FirstAddrs \subseteq Nat

VARIABLES
  phase,       \* "idle", "begun", "ready" after a file, "reading", "failed" after an error
  firstAddr, currAddr,
  code,        \* program_: label and argument of each instruction
  symbols,     \* symbol_map_
  condDefs, condStack,
  numInstr,
  files,       \* the files being read, outermost first
  words,       \* what Assemble wrote
  outcome,     \* what the host was told
  linesRead, sessions,   \* bounds
  pending,     \* history: labels read since the last instruction
  defined      \* history: symbols defined in this compilation

tables == <<symbols, condDefs, condStack>>
output == <<code, currAddr, numInstr>>
bounds == <<linesRead, sessions>>
vars == <<phase, firstAddr, output, tables, files, words, outcome, bounds, pending, defined>>

Unseen == [type |-> "unseen", val |-> 0, resolved |-> FALSE]
Unknown == [type |-> "UNKNOWN", val |-> 0, resolved |-> FALSE]

Init ==
  /\ phase = "idle" /\ firstAddr = InstrBase /\ currAddr = InstrBase /\ code = <<>>
  /\ symbols = [s \in Idents |-> Unseen]
  /\ condDefs = {IsaVersion} /\ condStack = <<>> /\ numInstr = 0
  /\ files = <<>> /\ words = <<>> /\ outcome = "none"
  /\ linesRead = 0 /\ sessions = 0 /\ pending = {} /\ defined = {}

--------------------------------------------------------------------------------
(* Errors and files *)

\* An exception unwinds the files; tables and program stay as they are.
Fail ==
  /\ phase' = "failed" /\ files' = <<>> /\ outcome' = "failed"
  /\ UNCHANGED <<firstAddr, words, pending, defined>>

\* last_label is not initialised.  base and depth are history: the conditions at the
\* start of the file, and how many its own ifdefs have added, if never less than none.
NewFile == [lastLabel |-> Garbage, base |-> condStack, depth |-> 0, balanced |-> TRUE]

Top == files[Len(files)]
SetTop(f) == files' = [files EXCEPT ![Len(files)] = f]

\* The program is replaced; symbols, conditions and the count of instructions are not.
CompileInitProgram(a) == code' = <<>>

CompileInit(a) ==
  /\ phase \in {"idle", "failed"} /\ sessions < MaxSessions /\ sessions' = sessions + 1
  /\ IF a < InstrBase \/ a > InstrEnd
     THEN Fail /\ UNCHANGED <<output, tables>>
     ELSE /\ phase' = "begun" /\ firstAddr' = a /\ currAddr' = a /\ CompileInitProgram(a)
          /\ pending' = {} /\ defined' = {} /\ outcome' = "none" /\ words' = <<>>
          /\ UNCHANGED <<numInstr, tables, files>>
  /\ UNCHANGED linesRead

\* The tool compiles any number of files into one program.
Compile ==
  /\ phase \in {"begun", "ready"} /\ phase' = "reading" /\ files' = <<NewFile>>
  /\ UNCHANGED <<firstAddr, output, tables, words, outcome, bounds, pending, defined>>

\* A file that includes an unbalanced one is not balanced either.
EndOfFile ==
  /\ phase = "reading"
  /\ files' = [k \in 1 .. Len(files) - 1 |->
                [files[k] EXCEPT !.balanced = @ /\ Top.balanced /\ Top.depth = 0]]
  /\ phase' = IF Len(files) = 1 THEN "ready" ELSE "reading"
  /\ UNCHANGED <<firstAddr, output, tables, words, outcome, bounds, pending, defined>>

--------------------------------------------------------------------------------
(* Conditional compilation; TRUE on the stack means that the condition is not met *)

ShouldParse == condDefs = {} \/ \A k \in DOMAIN condStack : ~condStack[k]

\* What a directive does to the stack, whose top is the first element.
Flipped == <<~Head(condStack)>> \o Tail(condStack)

\* Mutant: endif closes the outermost condition.
ClosedOuter == Front(condStack)

Closed == Tail(condStack)

Nest(n) == IF n < 0 THEN [Top EXCEPT !.balanced = FALSE] ELSE [Top EXCEPT !.depth = n]

Directive ==
  /\ phase = "reading" /\ linesRead < MaxLines /\ linesRead' = linesRead + 1
  /\ UNCHANGED <<firstAddr, output, symbols, words, sessions, pending, defined>>

Define(c) ==
  /\ Directive /\ ShouldParse
  /\ condDefs' = condDefs \cup {c} /\ UNCHANGED <<phase, files, condStack, outcome>>

Ifdef(c) ==
  /\ Directive
  /\ condStack' = <<c \notin condDefs>> \o condStack /\ SetTop(Nest(Top.depth + 1))
  /\ UNCHANGED <<phase, condDefs, outcome>>

Else ==
  /\ Directive /\ condStack # <<>>
  /\ condStack' = Flipped /\ SetTop(IF Top.depth = 0 THEN Nest(0 - 1) ELSE Top)
  /\ UNCHANGED <<phase, condDefs, outcome>>

Endif ==
  /\ Directive /\ condStack # <<>>
  /\ condStack' = Closed /\ SetTop(Nest(Top.depth - 1))
  /\ UNCHANGED <<phase, condDefs, outcome>>

\* else or endif without an ifdef.
DirectiveError ==
  /\ Directive /\ condStack = <<>>
  /\ phase' = "failed" /\ files' = <<>> /\ outcome' = "failed"
  /\ UNCHANGED <<condDefs, condStack>>

\* Every other line is skipped where a condition is not met.
SkipLine ==
  /\ phase = "reading" /\ ~ShouldParse /\ linesRead < MaxLines /\ linesRead' = linesRead + 1
  /\ UNCHANGED <<phase, firstAddr, output, tables, files, words, outcome, sessions, pending, defined>>

--------------------------------------------------------------------------------
(* Symbols *)

\* Mutant: a symbol that is only used has the value 0.
UsedResolves(syms, s) ==
  IF s # None /\ syms[s] = Unseen THEN [syms EXCEPT ![s] = [Unknown EXCEPT !.resolved = TRUE]] ELSE syms

Used(syms, s) ==
  IF s # None /\ syms[s] = Unseen THEN [syms EXCEPT ![s] = Unknown] ELSE syms

Resolve(syms, s, type, val) ==
  [syms EXCEPT ![s] = [type |-> type, val |-> val, resolved |-> TRUE]]

\* A decimal with a leading zero reads as 0, and so does a name.
ConstantValue(c) == IF c[1] = "decimal" THEN c[2] ELSE 0

\* Mutant: a symbol that is only used counts as defined.
RedefinedNever(s) == FALSE

Redefined(s) == s # None /\ symbols[s].resolved

\* The symbols after the label of a line, and after its body.
Labelled(label) == IF label = None THEN symbols ELSE Resolve(symbols, label, "LABEL", currAddr)

Bound(syms, s, c) ==
  Resolve(IF c[1] = "name" /\ c[2] # s THEN Used(syms, c[2]) ELSE syms, s, "CONSTANT", ConstantValue(c))

LastLabel(label) == IF label = None THEN Top.lastLabel ELSE label
Labels(label) == IF label = None THEN pending ELSE pending \cup {label}
Named(label) == IF label = None THEN defined ELSE defined \cup {label}

--------------------------------------------------------------------------------
(* Lines *)

\* Mutant: the instruction behind the last one still fits.
FullOffByOne == currAddr > InstrEnd

Full == currAddr >= InstrEnd

Line ==
  /\ phase = "reading" /\ ShouldParse
  /\ linesRead < MaxLines /\ linesRead' = linesRead + 1
  /\ UNCHANGED <<sessions, condDefs, condStack>>

\* A label that is defined already, or a line that is none of the others; an
\* argument of it may have entered the table.
LabelError(label) == Line /\ Redefined(label) /\ Fail /\ UNCHANGED <<output, symbols>>

SyntaxError(label, arg) ==
  /\ Line /\ ~Redefined(label) /\ Fail
  /\ symbols' = Used(Labelled(label), arg) /\ UNCHANGED output

EmptyLine(label) ==
  /\ Line /\ ~Redefined(label)
  /\ symbols' = Labelled(label) /\ SetTop([Top EXCEPT !.lastLabel = LastLabel(label)])
  /\ pending' = Labels(label) /\ defined' = Named(label)
  /\ UNCHANGED <<phase, firstAddr, output, words, outcome>>

ParseConstant(label, s, c) ==
  /\ Line /\ ~Redefined(label)
  /\ IF Redefined(s) \/ s = label
     THEN symbols' = Labelled(label) /\ Fail
     ELSE /\ symbols' = Bound(Labelled(label), s, c)
          /\ SetTop([Top EXCEPT !.lastLabel = LastLabel(label)])
          /\ pending' = Labels(label) /\ defined' = Named(label) \cup {s}
          /\ UNCHANGED <<phase, firstAddr, words, outcome>>
  /\ UNCHANGED output

ParseIncludeFile(label) ==
  /\ Line /\ ~Redefined(label) /\ Len(files) < MaxDepth
  /\ symbols' = Labelled(label)
  /\ files' = Append([files EXCEPT ![Len(files)].lastLabel = LastLabel(label)], NewFile)
  /\ pending' = Labels(label) /\ defined' = Named(label)
  /\ UNCHANGED <<phase, firstAddr, output, words, outcome>>

\* The count goes up before the instruction is found not to fit.
ParseInstruction(label, arg) ==
  /\ Line /\ ~Redefined(label)
  /\ symbols' = Used(Labelled(label), arg)
  /\ numInstr' = numInstr + 1
  /\ IF Full
     THEN Fail /\ UNCHANGED <<code, currAddr>>
     ELSE /\ code' = Append(code, [label |-> LastLabel(label), arg |-> arg, val |-> 0,
                                   here |-> Labels(label)])
          /\ currAddr' = currAddr + InstrBytes
          /\ SetTop([Top EXCEPT !.lastLabel = None])
          /\ pending' = {} /\ defined' = Named(label)
          /\ UNCHANGED <<phase, firstAddr, words, outcome>>

--------------------------------------------------------------------------------
(* The end of a compilation *)

Unresolved(i) == i.arg # None /\ ~symbols[i.arg].resolved

\* Mutant: the value the parser returned, not that of the symbol.
RelocateEarly(i) == i.val

Relocate(i) == IF i.arg = None THEN i.val ELSE symbols[i.arg].val

\* Words are written until one needs a symbol that nothing defines.
Written ==
  LET bad == {k \in DOMAIN code : Unresolved(code[k])}
      n == IF bad = {} THEN Len(code) ELSE Min(bad) - 1
  IN [k \in 1 .. n |-> Relocate(code[k])]

FinishWarns == numInstr = 0 \/ symbols[Start] = Unseen

\* spect_dpi_compile_program assembles only without a warning; the tool and the
\* library assemble anyway.
Assemble(host) ==
  /\ phase = "ready" /\ phase' = "idle"
  /\ IF host = "dpi" /\ FinishWarns
     THEN outcome' = "failed" /\ UNCHANGED words
     ELSE /\ words' = Written
          /\ outcome' = IF Len(Written) = Len(code) THEN host ELSE "failed"
  /\ UNCHANGED <<firstAddr, output, tables, files, bounds, pending, defined>>

ReadLine ==
  \/ \E c \in CondIdents : Define(c) \/ Ifdef(c)
  \/ Else \/ Endif \/ DirectiveError \/ SkipLine
  \/ \E label \in Idents \cup {None} :
       \/ EmptyLine(label) \/ ParseIncludeFile(label) \/ LabelError(label)
       \/ \E s \in Idents, c \in Constants : ParseConstant(label, s, c)
       \/ \E arg \in Idents \cup {None} : ParseInstruction(label, arg) \/ SyntaxError(label, arg)

Next ==
  \/ \E a \in FirstAddrs : CompileInit(a)
  \/ Compile \/ ReadLine \/ EndOfFile
  \/ \E host \in {"dpi", "tool", "library"} : Assemble(host)

Spec == Init /\ [][Next]_vars

--------------------------------------------------------------------------------

\* Tables, program and files are of their types.
TypeOK ==
  /\ \A s \in Idents : symbols[s].resolved <=> symbols[s].type \in {"LABEL", "CONSTANT"}
  /\ condDefs \subseteq CondIdents /\ condStack \in Seq(BOOLEAN)
  /\ \A i \in Range(code) : i.arg \in Idents \cup {None} /\ i.here \subseteq Idents
  /\ Len(files) <= MaxDepth /\ (files # <<>> <=> phase = "reading")

Place(k) == firstAddr + InstrBytes * (k - 1)

\* Addresses and instructions stay in step over files, includes, errors and sessions, and
\* every instruction begins inside the instruction memory.
PlacedInMemory ==
  /\ currAddr = Place(Len(code) + 1)
  /\ \A k \in DOMAIN code : Place(k) >= InstrBase /\ Place(k) < InstrEnd

\* A symbol that has a value keeps it, whatever later lines, files and sessions define.
ValuesAreFinal ==
  [][\A s \in Idents : symbols[s].resolved => symbols'[s] = symbols[s]]_vars

\* An instruction that names a label of its program, before or behind it, in this file
\* or another, is assembled with the address of the instruction that follows the label.
JumpsLand ==
  outcome \in {"dpi", "tool", "library"} =>
    \A k \in DOMAIN code, j \in DOMAIN code :
      (code[k].arg \in code[j].here) => words[k] = Place(j)

\* A file whose own conditions are balanced leaves the conditions of the files that
\* include it as they were.
IncludeKeepsConditions ==
  \A k \in DOMAIN files :
    LET f == files[k]
        n == Len(condStack) - Len(f.base)
    IN (k = Len(files) /\ f.balanced) =>
         n = f.depth /\ SubSeq(condStack, n + 1, Len(condStack)) = f.base

\* "Place first instruction between" the ends of the instruction memory.
FirstInMemory == phase \in {"begun", "reading", "ready"} => firstAddr <= InstrEnd - InstrBytes

\* "This function fails if the S file does not define '_start' symbol."
FailsWithoutStart == outcome = "dpi" => Start \in defined

\* s_label_: "Symbol with instruction label from .s file".
LabelsOfInstructions ==
  \A i \in Range(code) : i.label = None \/ i.label \in i.here
================================================================================
