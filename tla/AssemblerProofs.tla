----------------------------- MODULE AssemblerProofs -----------------------------
(*****************************************************************************)
(* Proofs about Assembler, for any symbols, files, lines and sessions: a     *)
(* symbol keeps its value, instructions are placed in the memory, labels     *)
(* reach the instructions that use them, and files whose conditions are      *)
(* balanced leave those of the others alone.                                 *)
(*****************************************************************************)
EXTENDS Assembler, Integers, WellFoundedInduction, SequenceTheorems, TLAPS

Label == Idents \cup {None, Garbage}
SymbolEntry ==
  [type : {"unseen", "UNKNOWN", "LABEL", "CONSTANT"}, val : Nat, resolved : BOOLEAN]
Table == [Idents -> SymbolEntry]
CodeEntry == [label : Label, arg : Idents \cup {None}, val : Nat, here : SUBSET Idents]
File == [lastLabel : Label, base : Seq(BOOLEAN), depth : Nat, balanced : BOOLEAN]

\* The type invariant with the ranges of all fields, which TypeOK leaves out.
Types ==
  /\ firstAddr \in Nat /\ currAddr \in Nat
  /\ code \in Seq(CodeEntry)
  /\ symbols \in Table
  /\ \A s \in Idents : symbols[s].resolved <=> symbols[s].type \in {"LABEL", "CONSTANT"}
  /\ condDefs \subseteq CondIdents /\ condStack \in Seq(BOOLEAN)
  /\ files \in Seq(File) /\ Len(files) <= MaxDepth /\ (files # <<>> <=> phase = "reading")
  /\ pending \subseteq Idents

--------------------------------------------------------------------------------
(* The symbol table *)

Typed(syms) ==
  /\ syms \in Table
  /\ \A s \in Idents : syms[s].resolved <=> syms[s].type \in {"LABEL", "CONSTANT"}

\* A later table has every value an earlier one has.
Keeps(old, new) == \A s \in Idents : old[s].resolved => new[s] = old[s]

\* Entering a symbol that is used changes no value.
LEMMA UsedKeeps ==
  ASSUME NEW syms, Typed(syms), NEW s \in Idents \cup {None}
  PROVE  Typed(Used(syms, s)) /\ Keeps(syms, Used(syms, s))
<1>1. Unknown \in SymbolEntry /\ Unknown.resolved = FALSE /\ Unknown.type \notin {"LABEL", "CONSTANT"}
  BY DEF Unknown, SymbolEntry
<1>2. Unseen.resolved = FALSE
  BY DEF Unseen
<1>3. CASE s # None /\ syms[s] = Unseen
  BY <1>1, <1>2, <1>3 DEF Used, Typed, Keeps, Table
<1>4. CASE ~(s # None /\ syms[s] = Unseen)
  BY <1>4 DEF Used, Typed, Keeps
<1> QED
  BY <1>3, <1>4

\* A symbol without a value gets one; the others stay as they are.
LEMMA ResolveKeeps ==
  ASSUME NEW syms, Typed(syms), NEW s \in Idents, ~syms[s].resolved,
         NEW type \in {"LABEL", "CONSTANT"}, NEW val \in Nat
  PROVE  /\ Typed(Resolve(syms, s, type, val)) /\ Keeps(syms, Resolve(syms, s, type, val))
         /\ Resolve(syms, s, type, val)[s].resolved /\ Resolve(syms, s, type, val)[s].val = val
<1> DEFINE e == [type |-> type, val |-> val, resolved |-> TRUE]
<1>1. e \in SymbolEntry /\ e.resolved /\ e.type \in {"LABEL", "CONSTANT"} /\ e.val = val
  BY DEF SymbolEntry
<1>2. Resolve(syms, s, type, val) = [syms EXCEPT ![s] = e]
  BY DEF Resolve
<1> HIDE DEF e
<1> QED
  BY <1>1, <1>2 DEF Typed, Keeps, Table

\* The label of a line gets the current address and disturbs no other symbol.
LEMMA LabelledKeeps ==
  ASSUME Types, NEW label \in Idents \cup {None}, ~Redefined(label)
  PROVE  /\ Typed(Labelled(label)) /\ Keeps(symbols, Labelled(label))
         /\ label # None => Labelled(label)[label].resolved /\ Labelled(label)[label].val = currAddr
<1>1. Typed(symbols) /\ currAddr \in Nat
  BY DEF Types, Typed
<1>2. CASE label = None
  BY <1>1, <1>2 DEF Labelled, Keeps
<1>3. CASE label # None
  <2>1. label \in Idents /\ ~symbols[label].resolved
    BY <1>3 DEF Redefined
  <2> QED
    BY <1>1, <1>3, <2>1, ResolveKeeps DEF Labelled
<1> QED
  BY <1>2, <1>3

\* Nothing but the label of a line gets a value with it.
LEMMA LabelledOnly ==
  ASSUME Types, NEW label \in Idents \cup {None}, NEW s \in Idents, s # label
  PROVE  Labelled(label)[s] = symbols[s]
  BY DEF Labelled, Resolve, Types, Table

\* A constant gets its value; the name it may be defined by is only entered.
LEMMA BoundKeeps ==
  ASSUME NEW syms, Typed(syms), NEW s \in Idents, ~syms[s].resolved, NEW c \in Constants
  PROVE  Typed(Bound(syms, s, c)) /\ Keeps(syms, Bound(syms, s, c))
<1>1. ConstantValue(c) \in Nat
  BY AssemblerAssumption DEF ConstantValue
<1> DEFINE used == IF c[1] = "name" /\ c[2] # s THEN Used(syms, c[2]) ELSE syms
<1>2. Typed(used) /\ Keeps(syms, used) /\ used[s] = syms[s]
  <2>1. CASE c[1] = "name" /\ c[2] # s
    <3>1. c[2] \in Idents
      BY <2>1, AssemblerAssumption
    <3>2. Typed(Used(syms, c[2])) /\ Keeps(syms, Used(syms, c[2]))
      BY <3>1, UsedKeeps
    <3>3. Used(syms, c[2])[s] = syms[s]
      BY <2>1, <3>1 DEF Used, Typed, Table
    <3> QED
      BY <2>1, <3>2, <3>3
  <2>2. CASE ~(c[1] = "name" /\ c[2] # s)
    BY <2>2 DEF Keeps
  <2> QED
    BY <2>1, <2>2
<1>3. Bound(syms, s, c) = Resolve(used, s, "CONSTANT", ConstantValue(c))
  BY DEF Bound
<1> HIDE DEF used
<1>4. Typed(Bound(syms, s, c)) /\ Keeps(used, Bound(syms, s, c))
  BY <1>1, <1>2, <1>3, ResolveKeeps
<1> QED
  BY <1>2, <1>4 DEF Keeps

--------------------------------------------------------------------------------
(* Steps *)

\* Actions that leave the table of symbols, the program and the labels alone.
Aside ==
  \/ Compile \/ EndOfFile \/ Else \/ Endif \/ DirectiveError \/ SkipLine
  \/ \E c \in CondIdents : Define(c) \/ Ifdef(c)
  \/ \E host \in {"dpi", "tool", "library"} : Assemble(host)

LineOf(label) ==
  \/ EmptyLine(label) \/ ParseIncludeFile(label) \/ LabelError(label)
  \/ \E s \in Idents, c \in Constants : ParseConstant(label, s, c)
  \/ \E arg \in Idents \cup {None} : ParseInstruction(label, arg) \/ SyntaxError(label, arg)

\* Every step begins a program, reads a line that may have a label, or leaves both aside.
LEMMA StepCases ==
  ASSUME [Next]_vars
  PROVE  \/ \E a \in FirstAddrs : CompileInit(a)
         \/ Aside
         \/ \E label \in Idents \cup {None} : LineOf(label)
         \/ UNCHANGED vars
  BY DEF Next, ReadLine, Aside, LineOf

\* Directives, ends of files and the end of a compilation change no symbol and no code.
LEMMA AsideKeeps ==
  ASSUME Aside
  PROVE  UNCHANGED <<firstAddr, code, currAddr, symbols, pending>>
<1>1. CASE Compile \/ EndOfFile \/ SkipLine
  BY <1>1 DEF Compile, EndOfFile, SkipLine, output, tables
<1>2. CASE Else \/ Endif \/ DirectiveError
  BY <1>2 DEF Else, Endif, DirectiveError, Directive, output
<1>3. CASE \E c \in CondIdents : Define(c) \/ Ifdef(c)
  BY <1>3 DEF Define, Ifdef, Directive, output
<1>4. CASE \E host \in {"dpi", "tool", "library"} : Assemble(host)
  BY <1>4 DEF Assemble, output, tables
<1> QED
  BY <1>1, <1>2, <1>3, <1>4 DEF Aside

\* What a line does to the table: its label, its body.
LEMMA LineSymbols ==
  ASSUME Types, NEW label \in Idents \cup {None}, LineOf(label)
  PROVE  /\ Typed(symbols') /\ Keeps(symbols, symbols')
         /\ ~Redefined(label) /\ label # None =>
               symbols'[label].resolved /\ symbols'[label].val = currAddr
<1>1. Typed(symbols)
  BY DEF Types, Typed
<1> DEFINE l == Labelled(label)
<1>2. ~Redefined(label) =>
        Typed(l) /\ Keeps(symbols, l) /\ (label # None => l[label].resolved /\ l[label].val = currAddr)
  BY LabelledKeeps
<1>3. ~Redefined(label) /\ Typed(symbols') /\ Keeps(l, symbols') => 
         /\ Typed(symbols') /\ Keeps(symbols, symbols')
         /\ label # None => symbols'[label].resolved /\ symbols'[label].val = currAddr
  BY <1>2 DEF Keeps
<1>4. CASE EmptyLine(label) \/ ParseIncludeFile(label)
  <2>1. ~Redefined(label) /\ symbols' = l
    BY <1>4 DEF EmptyLine, ParseIncludeFile
  <2> QED
    BY <1>2, <2>1
<1>5. CASE LabelError(label)
  BY <1>1, <1>5 DEF LabelError, Keeps
<1>6. CASE \E s \in Idents, c \in Constants : ParseConstant(label, s, c)
  <2>1. PICK s \in Idents, c \in Constants : ParseConstant(label, s, c)
    BY <1>6
  <2>2. ~Redefined(label)
    BY <2>1 DEF ParseConstant
  <2>3. CASE Redefined(s) \/ s = label
    BY <1>2, <2>1, <2>2, <2>3 DEF ParseConstant
  <2>4. CASE ~(Redefined(s) \/ s = label)
    <3>1. symbols' = Bound(l, s, c)
      BY <2>1, <2>4 DEF ParseConstant
    <3>2. ~l[s].resolved
      BY <2>4, LabelledOnly, AssemblerAssumption DEF Redefined
    <3> HIDE DEF l
    <3>3. Typed(symbols') /\ Keeps(l, symbols')
      BY <1>2, <2>2, <3>1, <3>2, BoundKeeps
    <3> QED
      BY <1>3, <2>2, <3>3
  <2> QED
    BY <2>3, <2>4
<1>7. CASE \E arg \in Idents \cup {None} : ParseInstruction(label, arg) \/ SyntaxError(label, arg)
  <2>1. PICK arg \in Idents \cup {None} : ParseInstruction(label, arg) \/ SyntaxError(label, arg)
    BY <1>7
  <2>2. ~Redefined(label) /\ symbols' = Used(l, arg)
    BY <2>1 DEF ParseInstruction, SyntaxError
  <2> HIDE DEF l
  <2>3. Typed(symbols') /\ Keeps(l, symbols')
    BY <1>2, <2>2, UsedKeeps
  <2> QED
    BY <1>3, <2>2, <2>3
<1> QED
  BY <1>4, <1>5, <1>6, <1>7 DEF LineOf

\* What a line does to the program.
LEMMA LineProgram ==
  ASSUME NEW label \in Idents \cup {None}, LineOf(label)
  PROVE  /\ UNCHANGED firstAddr /\ phase = "reading"
         /\ \/ /\ UNCHANGED <<code, currAddr>>
               /\ pending' = pending \/ (pending' = Labels(label) /\ ~Redefined(label))
            \/ /\ ~Full /\ ~Redefined(label) /\ pending' = {}
               /\ currAddr' = currAddr + InstrBytes
               /\ \E arg \in Idents \cup {None} :
                    code' = Append(code, [label |-> LastLabel(label), arg |-> arg, val |-> 0,
                                          here |-> Labels(label)])
<1>1. CASE EmptyLine(label) \/ ParseIncludeFile(label) \/ LabelError(label)
  BY <1>1 DEF EmptyLine, ParseIncludeFile, LabelError, Line, Fail, output
<1>2. CASE \E s \in Idents, c \in Constants : ParseConstant(label, s, c)
  BY <1>2 DEF ParseConstant, Line, Fail, output
<1>3. CASE \E arg \in Idents \cup {None} : ParseInstruction(label, arg)
  BY <1>3 DEF ParseInstruction, Line, Fail
<1>4. CASE \E arg \in Idents \cup {None} : SyntaxError(label, arg)
  BY <1>4 DEF SyntaxError, Line, Fail, output
<1> QED
  BY <1>1, <1>2, <1>3, <1>4 DEF LineOf

\* No step changes a value that a symbol has.
LEMMA SymbolsStep ==
  ASSUME Types, [Next]_vars
  PROVE  Typed(symbols') /\ Keeps(symbols, symbols')
<1>1. Typed(symbols)
  BY DEF Types, Typed
<1>2. CASE symbols' = symbols
  BY <1>1, <1>2 DEF Keeps
<1>3. CASE \E a \in FirstAddrs : CompileInit(a)
  BY <1>2, <1>3 DEF CompileInit, tables
<1>4. CASE \E label \in Idents \cup {None} : LineOf(label)
  BY <1>4, LineSymbols
<1>5. CASE Aside \/ UNCHANGED vars
  BY <1>2, <1>5, AsideKeeps DEF vars, tables
<1> QED
  BY <1>3, <1>4, <1>5, StepCases

--------------------------------------------------------------------------------
(* Files and conditions *)

\* Below the conditions a file has opened lie those it began with.
Rests(stack, f) ==
  /\ Len(stack) = f.depth + Len(f.base)
  /\ \A i \in 1 .. Len(f.base) : stack[f.depth + i] = f.base[i]

\* The conditions file k has made, as the next file or the reader finds them.
Under(k) == IF k = Len(files) THEN condStack ELSE files[k + 1].base

ConditionsInv == \A k \in DOMAIN files : files[k].balanced => Rests(Under(k), files[k])

FilesTyped ==
  /\ condDefs \subseteq CondIdents /\ condStack \in Seq(BOOLEAN)
  /\ files \in Seq(File) /\ Len(files) <= MaxDepth /\ (files # <<>> <=> phase = "reading")

\* The constants are numbers.
LEMMA Sizes ==
  /\ InstrBase \in Nat /\ InstrSize \in Nat /\ InstrEnd \in Nat
  /\ InstrBytes \in Nat \ {0} /\ MaxDepth \in Nat \ {0}
<1>1. {InstrBase, InstrSize, InstrBytes, MaxLines, MaxDepth, MaxSessions} \subseteq Nat
  BY AssemblerAssumption
<1>2. InstrBase \in Nat /\ InstrSize \in Nat /\ InstrBytes \in Nat /\ MaxDepth \in Nat
  BY <1>1
<1>3. InstrBytes > 0 /\ MaxDepth > 0
  BY AssemblerAssumption
<1> QED
  BY <1>2, <1>3 DEF InstrEnd

\* While a file is read there is one at the top.
LEMMA TopTyped ==
  ASSUME FilesTyped, phase = "reading"
  PROVE  Len(files) \in Nat \ {0} /\ Top = files[Len(files)] /\ Top \in File
  BY DEF FilesTyped, Top

\* Replacing the file at the top leaves the others.
LEMMA SetTopTyped ==
  ASSUME FilesTyped, phase = "reading", NEW f \in File, SetTop(f)
  PROVE  /\ files' \in Seq(File) /\ Len(files') = Len(files) /\ files' # <<>>
         /\ files'[Len(files)] = f
         /\ \A k \in 1 .. Len(files) - 1 : files'[k] = files[k]
  BY TopTyped DEF FilesTyped, SetTop

\* A file at the top that has changed as the stack has.
LEMMA SetTopConditions ==
  ASSUME FilesTyped, ConditionsInv, phase = "reading", NEW f \in File, SetTop(f),
         f.base = Top.base, f.balanced => Top.balanced,
         f.balanced /\ Rests(condStack, Top) => Rests(condStack', f)
  PROVE  ConditionsInv'
<1> DEFINE n == Len(files)
<1>1. n \in Nat \ {0} /\ Top = files[n] /\ DOMAIN files = 1 .. n
  BY TopTyped DEF FilesTyped
<1>2. /\ DOMAIN files' = 1 .. n /\ Len(files') = n /\ files'[n] = f
      /\ \A k \in 1 .. n - 1 : files'[k] = files[k]
  BY SetTopTyped
<1>0. \A k \in 1 .. n : files[k].balanced => Rests(Under(k), files[k])
  BY <1>1 DEF ConditionsInv
<1> SUFFICES ASSUME NEW k \in 1 .. n, files'[k].balanced
             PROVE  Rests(Under(k)', files'[k])
  BY <1>2 DEF ConditionsInv
<1>3. CASE k = n
  <2>1. Rests(condStack, Top)
    BY <1>1, <1>2, <1>3 DEF ConditionsInv, Under
  <2> QED
    BY <1>2, <1>3, <2>1 DEF Under
<1>4. CASE k # n
  <2>1. k \in 1 .. n - 1 /\ k + 1 \in 1 .. n
    <3>1. n \in Nat
      BY <1>1
    <3> HIDE DEF n
    <3> QED
      BY <3>1, <1>4
  <2>2. files'[k] = files[k] /\ files'[k + 1].base = files[k + 1].base
    <3> HIDE DEF n
    <3>1. CASE k + 1 = n
      BY <1>1, <1>2, <2>1, <3>1
    <3>2. CASE k + 1 # n
      <4>1. n \in Nat /\ k + 1 \in 1 .. n - 1
        BY <1>1, <2>1, <3>2
      <4> QED
        BY <1>2, <2>1, <4>1
    <3> QED
      BY <3>1, <3>2
  <2>3. Rests(files[k + 1].base, files[k])
    BY <1>1, <1>4, <2>2 DEF ConditionsInv, Under
  <2> QED
    BY <1>2, <1>4, <2>2, <2>3 DEF Under
<1> QED
  BY <1>3, <1>4

\* A file begins with the conditions it finds.
LEMMA NewFileTyped ==
  ASSUME FilesTyped
  PROVE  NewFile \in File /\ NewFile.base = condStack /\ Rests(condStack, NewFile)
  BY DEF FilesTyped, NewFile, File, Label, Rests

\* Counting conditions: a file that closes more than it opened is not balanced.
LEMMA NestTyped ==
  ASSUME FilesTyped, phase = "reading", NEW n \in Int
  PROVE  /\ Nest(n) \in File /\ Nest(n).base = Top.base
         /\ Nest(n).balanced => Top.balanced /\ n >= 0 /\ Nest(n).depth = n
<1>1. Top \in File
  BY TopTyped
<1>2. CASE n < 0
  <2>1. Nest(n) = [Top EXCEPT !.balanced = FALSE]
    BY <1>2 DEF Nest
  <2> QED
    BY <1>1, <2>1 DEF File
<1>3. CASE n >= 0
  <2>1. Nest(n) = [Top EXCEPT !.depth = n] /\ n \in Nat
    BY <1>3 DEF Nest
  <2> QED
    BY <1>1, <2>1, <1>3 DEF File
<1> QED
  BY <1>2, <1>3

--------------------------------------------------------------------------------

\* Lines that are not directives leave the conditions alone.
LEMMA LineFiles ==
  ASSUME FilesTyped, ConditionsInv, NEW label \in Idents \cup {None}, LineOf(label)
  PROVE  FilesTyped' /\ ConditionsInv'
<1>1. phase = "reading" /\ UNCHANGED <<condDefs, condStack>>
  BY DEF LineOf, EmptyLine, ParseIncludeFile, LabelError, ParseConstant, ParseInstruction, SyntaxError, Line
<1>2. CASE Fail
  <2>1. files' = <<>> /\ phase' = "failed"
    BY <1>2 DEF Fail
  <2>2. files' \in Seq(File) /\ Len(files') = 0 /\ DOMAIN files' = {}
    BY <2>1
  <2>3. condDefs' \subseteq CondIdents /\ condStack' \in Seq(BOOLEAN)
    BY <1>1 DEF FilesTyped
  <2>4. Len(files') <= MaxDepth
    BY <2>2, Sizes
  <2> QED
    BY <2>1, <2>2, <2>3, <2>4 DEF FilesTyped, ConditionsInv
<1>3. ASSUME NEW l \in Label, SetTop([Top EXCEPT !.lastLabel = l]), phase' = phase
      PROVE  FilesTyped' /\ ConditionsInv'
  <2> DEFINE f == [Top EXCEPT !.lastLabel = l]
  <2>1. f \in File /\ f.base = Top.base /\ f.balanced = Top.balanced /\ f.depth = Top.depth
    BY <1>1, <1>3, TopTyped DEF File
  <2>2. FilesTyped'
    BY <1>1, <1>3, <2>1, SetTopTyped DEF FilesTyped
  <2>3. Rests(condStack, Top) => Rests(condStack', f)
    BY <1>1, <2>1 DEF Rests
  <2> HIDE DEF f
  <2>4. SetTop(f)
    BY <1>3 DEF f
  <2> QED
    BY <1>1, <2>1, <2>2, <2>3, <2>4, SetTopConditions
<1>4. CASE ParseIncludeFile(label)
  <2> DEFINE n == Len(files)
             l == LastLabel(label)
             g == [files EXCEPT ![n].lastLabel = l]
  <2>1. n \in Nat \ {0} /\ DOMAIN files = 1 .. n /\ n < MaxDepth /\ files \in [1 .. n -> File]
    BY <1>1, <1>4, TopTyped DEF ParseIncludeFile, FilesTyped
  <2>2. l \in Label
    BY <1>1, TopTyped DEF Label, LastLabel, File
  <2>3. files' = Append(g, NewFile) /\ phase' = phase
    BY <1>4 DEF ParseIncludeFile
  <2>4. /\ g \in [1 .. n -> File]
        /\ \A k \in 1 .. n : g[k].base = files[k].base /\ g[k].balanced = files[k].balanced
                             /\ g[k].depth = files[k].depth
    BY <2>1, <2>2 DEF File
  <2> HIDE DEF g, l
  <2>5. g \in Seq(File) /\ Len(g) = n
    BY <2>1, <2>4
  <2>6. NewFile \in File /\ NewFile.base = condStack /\ Rests(condStack, NewFile)
    BY NewFileTyped
  <2>7. /\ files' \in Seq(File) /\ Len(files') = n + 1 /\ files'[n + 1] = NewFile
        /\ \A k \in 1 .. n : files'[k] = g[k]
    BY <2>3, <2>5, <2>6
  <2>8. FilesTyped'
    BY <1>1, <2>1, <2>3, <2>7, Sizes DEF FilesTyped
  <2>9. ASSUME NEW k \in 1 .. n + 1, files'[k].balanced
        PROVE  Rests(Under(k)', files'[k])
    <3> HIDE DEF n
    <3>1. CASE k = n + 1
      BY <1>1, <2>6, <2>7, <3>1 DEF Under
    <3>2. CASE k # n + 1
      <4>1. k \in 1 .. n /\ k # Len(files') /\ k + 1 \in 1 .. n + 1
        BY <2>1, <2>7, <3>2
      <4>2. files'[k + 1].base = Under(k)
        <5>1. CASE k = n
          BY <2>6, <2>7, <5>1 DEF Under, n
        <5>2. CASE k # n
          <6>1. k + 1 \in 1 .. n
            BY <2>1, <4>1, <5>2
          <6> QED
            BY <2>4, <2>7, <5>2, <6>1 DEF Under, n
        <5> QED
          BY <5>1, <5>2
      <4>3. Rests(Under(k), files[k])
        BY <2>1, <2>4, <2>7, <2>9, <4>1 DEF ConditionsInv
      <4>4. Rests(Under(k), files'[k])
        BY <2>4, <2>7, <4>1, <4>3 DEF Rests
      <4> QED
        BY <4>1, <4>2, <4>4 DEF Under
    <3> QED
      BY <3>1, <3>2
  <2> QED
    BY <2>1, <2>7, <2>8, <2>9 DEF ConditionsInv
<1>5. Label = Idents \cup {None, Garbage} /\ (LastLabel(label) \in Label) /\ None \in Label
  BY <1>1, TopTyped DEF Label, LastLabel, File
<1>6. CASE EmptyLine(label)
  BY <1>3, <1>5, <1>6 DEF EmptyLine
<1>7. CASE LabelError(label)
  BY <1>2, <1>7 DEF LabelError
<1>8. CASE \E s \in Idents, c \in Constants : ParseConstant(label, s, c)
  BY <1>2, <1>3, <1>5, <1>8 DEF ParseConstant
<1>9. CASE \E arg \in Idents \cup {None} : ParseInstruction(label, arg) \/ SyntaxError(label, arg)
  BY <1>2, <1>3, <1>5, <1>9 DEF ParseInstruction, SyntaxError
<1> QED
  BY <1>4, <1>6, <1>7, <1>8, <1>9 DEF LineOf

\* A file that ends balanced has left the stack to the one below as it was.
LEMMA EndOfFileFiles ==
  ASSUME FilesTyped, ConditionsInv, EndOfFile
  PROVE  FilesTyped' /\ ConditionsInv'
<1> DEFINE n == Len(files)
<1>1. /\ phase = "reading" /\ UNCHANGED <<condDefs, condStack>>
      /\ phase' = IF n = 1 THEN "ready" ELSE "reading"
      /\ files' = [k \in 1 .. n - 1 |-> [files[k] EXCEPT !.balanced = @ /\ Top.balanced /\ Top.depth = 0]]
  BY DEF EndOfFile, tables
<1>2. n \in Nat \ {0} /\ files \in [1 .. n -> File] /\ Top = files[n] /\ Top \in File /\ n <= MaxDepth
  BY <1>1, TopTyped DEF FilesTyped
<1> HIDE DEF n
<1>3. \A k \in 1 .. n - 1 :
        /\ files'[k] \in File
        /\ files'[k].base = files[k].base /\ files'[k].depth = files[k].depth
        /\ files'[k].balanced <=> files[k].balanced /\ Top.balanced /\ Top.depth = 0
  <2> TAKE k \in 1 .. n - 1
  <2>1. files[k] \in File /\ (Top.balanced /\ Top.depth = 0) \in BOOLEAN
    BY <1>2
  <2> DEFINE b == files[k].balanced /\ Top.balanced /\ Top.depth = 0
  <2>2. files'[k] = [files[k] EXCEPT !.balanced = b] /\ b \in BOOLEAN
    BY <1>1, <2>1
  <2> HIDE DEF b
  <2>3. files'[k] \in File /\ files'[k].base = files[k].base /\ files'[k].depth = files[k].depth
        /\ files'[k].balanced = b
    BY <2>1, <2>2 DEF File
  <2> QED
    BY <2>3 DEF b
<1>4. files' \in Seq(File) /\ Len(files') = n - 1 /\ DOMAIN files' = 1 .. n - 1
  BY <1>1, <1>2, <1>3
<1>5. FilesTyped'
  <2>1. files' # <<>> <=> phase' = "reading"
    BY <1>1, <1>2, <1>4
  <2> QED
    BY <1>1, <1>2, <1>4, <2>1, Sizes DEF FilesTyped
<1>6. ASSUME NEW k \in 1 .. n - 1, files'[k].balanced
      PROVE  Rests(Under(k)', files'[k])
  <2>1. k \in 1 .. n /\ k # n /\ files[k].balanced /\ Top.balanced /\ Top.depth = 0
    BY <1>2, <1>3, <1>6
  <2>2. Rests(files[k + 1].base, files[k])
    BY <1>2, <2>1 DEF ConditionsInv, Under, n
  <2>3. Under(k)' = files[k + 1].base
    <3>1. CASE k = n - 1
      <4>1. Rests(condStack, Top)
        BY <1>2, <2>1 DEF ConditionsInv, Under, n
      <4>2. condStack \in Seq(BOOLEAN) /\ Top.base \in Seq(BOOLEAN)
        BY <1>2 DEF FilesTyped, File
      <4>3. condStack = Top.base
        BY <2>1, <4>1, <4>2 DEF Rests
      <4> QED
        BY <1>1, <1>2, <1>4, <3>1, <4>3 DEF Under
    <3>2. CASE k # n - 1
      <4>1. k + 1 \in 1 .. n - 1
        BY <1>2, <3>2
      <4> QED
        BY <1>3, <1>4, <3>2, <4>1 DEF Under
    <3> QED
      BY <3>1, <3>2
  <2> QED
    BY <1>3, <2>2, <2>3 DEF Rests
<1> QED
  BY <1>4, <1>5, <1>6 DEF ConditionsInv

\* ifdef, else and endif move the conditions and the count of the file together.
LEMMA DirectiveFiles ==
  ASSUME FilesTyped, ConditionsInv, NEW c \in CondIdents,
         Define(c) \/ Ifdef(c) \/ Else \/ Endif \/ DirectiveError
  PROVE  FilesTyped' /\ ConditionsInv'
<1>1. phase = "reading"
  BY DEF Define, Ifdef, Else, Endif, DirectiveError, Directive
<1>2. Top \in File /\ condStack \in Seq(BOOLEAN) /\ condDefs \subseteq CondIdents
  BY <1>1, TopTyped DEF FilesTyped
<1>3. Top.depth \in Nat /\ Top.base \in Seq(BOOLEAN)
  BY <1>2 DEF File
<1>4. CASE Define(c)
  BY <1>2, <1>4 DEF Define, FilesTyped, ConditionsInv, Under
<1>5. CASE DirectiveError
  <2>1. files' = <<>> /\ phase' = "failed" /\ UNCHANGED <<condDefs, condStack>>
    BY <1>5 DEF DirectiveError
  <2>2. files' \in Seq(File) /\ Len(files') = 0 /\ DOMAIN files' = {}
    BY <2>1
  <2>3. Len(files') <= MaxDepth
    BY <2>2, Sizes
  <2> QED
    BY <1>2, <2>1, <2>2, <2>3 DEF FilesTyped, ConditionsInv
<1>6. ASSUME NEW f \in File, SetTop(f), UNCHANGED <<phase, condDefs>>, condStack' \in Seq(BOOLEAN),
             f.base = Top.base, f.balanced => Top.balanced,
             f.balanced /\ Rests(condStack, Top) => Rests(condStack', f)
      PROVE  FilesTyped' /\ ConditionsInv'
  <2>1. FilesTyped'
    BY <1>1, <1>2, <1>6, SetTopTyped DEF FilesTyped
  <2> QED
    BY <1>1, <1>6, <2>1, SetTopConditions
<1>7. CASE Ifdef(c)
  <2> DEFINE f == Nest(Top.depth + 1)
             met == c \notin condDefs
  <2>1. condStack' = <<met>> \o condStack /\ SetTop(f) /\ UNCHANGED <<phase, condDefs>>
    BY <1>7 DEF Ifdef
  <2>2. f \in File /\ f.base = Top.base /\ (f.balanced => Top.balanced /\ f.depth = Top.depth + 1)
    <3>1. Top.depth + 1 \in Int
      BY <1>3
    <3> QED
      BY <1>1, <3>1, NestTyped
  <2> HIDE DEF f
  <2>3. /\ condStack' \in Seq(BOOLEAN) /\ Len(condStack') = Len(condStack) + 1
        /\ \A i \in 1 .. Len(condStack) : condStack'[i + 1] = condStack[i]
    <3>1. met \in BOOLEAN
      OBVIOUS
    <3> HIDE DEF met
    <3>2. <<met>> \in Seq(BOOLEAN) /\ Len(<<met>>) = 1
      BY <3>1
    <3> QED
      BY <1>2, <2>1, <3>2
  <2>4. f.balanced /\ Rests(condStack, Top) => Rests(condStack', f)
    <3> SUFFICES ASSUME f.balanced, Rests(condStack, Top)
                 PROVE  Rests(condStack', f)
      OBVIOUS
    <3>1. \A i \in 1 .. Len(Top.base) : condStack'[f.depth + i] = Top.base[i]
      <4> TAKE i \in 1 .. Len(Top.base)
      <4>1. f.depth = Top.depth + 1 /\ i \in Nat /\ i >= 1
        BY <1>3, <2>2
      <4>2. Top.depth + i \in 1 .. Len(condStack)
        BY <1>3, <4>1 DEF Rests
      <4>3. (Top.depth + i) + 1 = f.depth + i
        BY <1>3, <4>1
      <4> QED
        BY <2>3, <4>2, <4>3 DEF Rests
    <3> QED
      BY <1>3, <2>2, <2>3, <3>1 DEF Rests
  <2> QED
    BY <1>6, <2>1, <2>2, <2>3, <2>4
<1>8. CASE Else
  <2> DEFINE f == IF Top.depth = 0 THEN Nest(0 - 1) ELSE Top
             top == ~Head(condStack)
  <2>1. condStack' = <<top>> \o Tail(condStack) /\ SetTop(f) /\ UNCHANGED <<phase, condDefs>>
        /\ condStack # <<>>
    BY <1>8 DEF Else, Flipped
  <2>2. f \in File /\ f.base = Top.base /\ (f.balanced => Top.balanced /\ f.depth = Top.depth /\ Top.depth > 0)
    <3>1. CASE Top.depth = 0
      <4>1. Nest(0 - 1) \in File /\ Nest(0 - 1).base = Top.base /\ ~Nest(0 - 1).balanced
        <5>1. 0 - 1 \in Int /\ ~(0 - 1 >= 0)
        OBVIOUS
      <5> QED
        BY <1>1, <5>1, NestTyped
      <4> QED
        BY <3>1, <4>1
    <3>2. CASE Top.depth # 0
      BY <1>2, <1>3, <3>2
    <3> QED
      BY <3>1, <3>2
  <2> HIDE DEF f
  <2>3. /\ condStack' \in Seq(BOOLEAN) /\ Len(condStack') = Len(condStack)
        /\ \A i \in 2 .. Len(condStack) : condStack'[i] = condStack[i]
    <3>0. top \in BOOLEAN
      OBVIOUS
    <3> HIDE DEF top
    <3>1. <<top>> \in Seq(BOOLEAN) /\ Len(<<top>>) = 1
      BY <3>0
    <3>2. /\ Tail(condStack) \in Seq(BOOLEAN) /\ Len(Tail(condStack)) = Len(condStack) - 1
          /\ \A i \in 1 .. Len(condStack) - 1 : Tail(condStack)[i] = condStack[i + 1]
      <4>1. Len(condStack) \in Nat \ {0}
        BY <1>2, <2>1
      <4> QED
        BY <1>2, <4>1
    <3> QED
      BY <1>2, <2>1, <3>1, <3>2
  <2>4. f.balanced /\ Rests(condStack, Top) => Rests(condStack', f)
    <3> SUFFICES ASSUME f.balanced, Rests(condStack, Top)
                 PROVE  Rests(condStack', f)
      OBVIOUS
    <3>1. \A i \in 1 .. Len(Top.base) : condStack'[Top.depth + i] = Top.base[i]
      <4> TAKE i \in 1 .. Len(Top.base)
      <4>1. Top.depth + i \in 2 .. Len(condStack)
        BY <1>3, <2>2 DEF Rests
      <4> QED
        BY <2>3, <4>1 DEF Rests
    <3> QED
      BY <2>2, <2>3, <3>1 DEF Rests
  <2> QED
    BY <1>6, <2>1, <2>2, <2>3, <2>4
<1>9. CASE Endif
  <2> DEFINE f == Nest(Top.depth - 1)
  <2>1. condStack' = Tail(condStack) /\ SetTop(f) /\ UNCHANGED <<phase, condDefs>> /\ condStack # <<>>
    BY <1>9 DEF Endif, Closed
  <2>2. f \in File /\ f.base = Top.base /\ (f.balanced => Top.balanced /\ Top.depth > 0 /\ f.depth = Top.depth - 1)
    <3>1. Top.depth - 1 \in Int
      BY <1>3
    <3> QED
      BY <1>1, <1>3, <3>1, NestTyped
  <2> HIDE DEF f
  <2>3. /\ condStack' \in Seq(BOOLEAN) /\ Len(condStack') = Len(condStack) - 1
        /\ \A i \in 1 .. Len(condStack) - 1 : condStack'[i] = condStack[i + 1]
    BY <1>2, <2>1
  <2>4. f.balanced /\ Rests(condStack, Top) => Rests(condStack', f)
    <3> SUFFICES ASSUME f.balanced, Rests(condStack, Top)
                 PROVE  Rests(condStack', f)
      OBVIOUS
    <3>1. \A i \in 1 .. Len(Top.base) : condStack'[f.depth + i] = Top.base[i]
      <4> TAKE i \in 1 .. Len(Top.base)
      <4>1. Top.depth - 1 + i \in 1 .. Len(condStack) - 1 /\ f.depth + i = Top.depth - 1 + i
              /\ (Top.depth - 1 + i) + 1 = Top.depth + i
        BY <1>3, <2>2 DEF Rests
      <4> QED
        BY <2>3, <4>1 DEF Rests
    <3> QED
      BY <1>3, <2>2, <2>3, <3>1 DEF Rests
  <2> QED
    BY <1>6, <2>1, <2>2, <2>3, <2>4
<1> QED
  BY <1>4, <1>5, <1>7, <1>8, <1>9

\* The files and the conditions under them, over every step.
LEMMA FilesStep ==
  ASSUME FilesTyped, ConditionsInv, [Next]_vars
  PROVE  FilesTyped' /\ ConditionsInv'
<1>1. CASE UNCHANGED <<condDefs, condStack, files>> /\ (phase' = "reading" <=> phase = "reading")
  BY <1>1 DEF FilesTyped, ConditionsInv, Under
<1>2. CASE \E a \in FirstAddrs : CompileInit(a)
  <2>1. phase # "reading" /\ phase' # "reading" /\ UNCHANGED <<condDefs, condStack>> /\ files' \in {files, <<>>}
    BY <1>2 DEF CompileInit, Fail, tables
  <2>2. files = <<>>
    BY <2>1 DEF FilesTyped
  <2> QED
    BY <1>1, <2>1, <2>2
<1>3. CASE Compile
  <2>1. phase' = "reading" /\ UNCHANGED <<condDefs, condStack>> /\ files' = <<NewFile>>
    BY <1>3 DEF Compile, tables
  <2>2. NewFile \in File /\ Rests(condStack, NewFile)
    BY NewFileTyped
  <2>3. files' \in Seq(File) /\ Len(files') = 1 /\ files'[1] = NewFile /\ DOMAIN files' = {1} /\ files' # <<>>
    BY <2>1, <2>2
  <2>4. FilesTyped'
    BY <2>1, <2>3, Sizes DEF FilesTyped
  <2> QED
    BY <2>1, <2>2, <2>3, <2>4 DEF ConditionsInv, Under
<1>4. CASE \E label \in Idents \cup {None} : LineOf(label)
  BY <1>4, LineFiles
<1>5. CASE Else \/ Endif \/ DirectiveError \/ \E c \in CondIdents : Define(c) \/ Ifdef(c)
  BY <1>5, DirectiveFiles, AssemblerAssumption
<1>6. CASE SkipLine
  BY <1>1, <1>6 DEF SkipLine, tables
<1>7. CASE \E host \in {"dpi", "tool", "library"} : Assemble(host)
  BY <1>1, <1>7 DEF Assemble, tables
<1>8. CASE EndOfFile
  BY <1>8, EndOfFileFiles
<1>9. CASE UNCHANGED vars
  BY <1>1, <1>9 DEF vars, tables
<1> QED
  BY <1>2, <1>3, <1>4, <1>5, <1>6, <1>7, <1>8, <1>9, StepCases DEF Aside

--------------------------------------------------------------------------------
(* The program *)

Hosts == {"dpi", "tool", "library"}

Holds(s, a) == symbols[s].resolved /\ symbols[s].val = a

\* Labels have the address of the instruction behind them, or of the next one to come.
LabelsInv ==
  /\ \A s \in pending : Holds(s, currAddr)
  /\ \A k \in DOMAIN code : \A s \in code[k].here : Holds(s, Place(k))

\* What has been written is all of the program with the values of its symbols.
WordsInv ==
  outcome \in Hosts => phase = "idle" /\ words = [k \in DOMAIN code |-> Relocate(code[k])]

ProgramInv == Types /\ firstAddr >= InstrBase /\ PlacedInMemory /\ LabelsInv

\* A set of naturals that is not empty has its least member.
LEMMA MinInSet ==
  ASSUME NEW S \in SUBSET Nat, S # {}
  PROVE  Min(S) \in S /\ \A y \in S : Min(S) <= y
<1>1. PICK x \in S : \A y \in S : ~ (<<y, x>> \in OpToRel(<, Nat))
  BY NatLessThanWellFounded, WFMin
<1>2. \A y \in S : x <= y
  <2> SUFFICES ASSUME NEW y \in S PROVE x <= y
    OBVIOUS
  <2>1. x \in Nat /\ y \in Nat
    OBVIOUS
  <2>2. CASE y < x
    <3>1. <<y, x>> \in Nat \X Nat /\ <<y, x>>[1] < <<y, x>>[2]
      BY <2>1, <2>2
    <3>2. <<y, x>> \in OpToRel(<, Nat)
      BY <3>1, Zenon DEF OpToRel
    <3> QED
      BY <1>1, <3>2
  <2> QED
    BY <2>1, <2>2
<1> QED
  BY <1>2 DEF Min

\* The empty program is a sequence of entries.
LEMMA EmptyProgram ==
  ASSUME NEW c, c = <<>>
  PROVE  c \in Seq(CodeEntry) /\ Len(c) = 0 /\ DOMAIN c = {}
  OBVIOUS

\* The addresses of neighbouring instructions.
LEMMA Steps ==
  ASSUME NEW k \in Nat \ {0}
  PROVE  InstrBytes * (k - 1) \in Nat /\ InstrBytes * ((k + 1) - 1) = InstrBytes * (k - 1) + InstrBytes
<1>1. InstrBytes \in Nat
  BY Sizes
<1>2. PICK m \in Nat : m = k - 1
  OBVIOUS
<1>3. \A b \in Nat : b * m \in Nat /\ b * (m + 1) = b * m + b
  OBVIOUS
<1>4. (k + 1) - 1 = m + 1
  BY <1>2
<1> QED
  BY <1>1, <1>2, <1>3, <1>4

\* A line keeps addresses, labels and program in step.
LEMMA LineStep ==
  ASSUME ProgramInv, NEW label \in Idents \cup {None}, LineOf(label), FilesTyped'
  PROVE  ProgramInv'
<1>1. Types /\ Typed(symbols') /\ Keeps(symbols, symbols')
  BY LineSymbols DEF ProgramInv
<1>2. /\ ~Redefined(label) /\ label # None =>
            symbols'[label].resolved /\ symbols'[label].val = currAddr
      /\ symbols' \in Table
  BY <1>1, LineSymbols DEF Typed
<1>3. \A s \in Idents, a \in Nat : Holds(s, a) => Holds(s, a)'
  BY <1>1 DEF Keeps, Holds
<1>4. UNCHANGED firstAddr /\ phase = "reading" /\ firstAddr \in Nat /\ currAddr \in Nat /\ pending \subseteq Idents
      /\ code \in Seq(CodeEntry)
  BY <1>1, LineProgram DEF Types
<1>5. \A k \in DOMAIN code : code[k] \in CodeEntry /\ k \in Nat /\ Place(k) \in Nat /\ Place(k)' = Place(k)
                             /\ code[k].here \subseteq Idents
  <2> TAKE k \in DOMAIN code
  <2>1. code[k] \in CodeEntry /\ k \in Nat \ {0}
    BY <1>4
  <2>2. Place(k) \in Nat /\ Place(k)' = Place(k)
    <3>1. InstrBytes * (k - 1) \in Nat
      BY <2>1, Steps
    <3> QED
      BY <1>4, <3>1 DEF Place
  <2>3. code[k].here \subseteq Idents
    BY <2>1 DEF CodeEntry
  <2> QED
    BY <2>1, <2>2, <2>3
<1>6. \A k \in DOMAIN code : \A s \in code[k].here : Holds(s, Place(k))'
  BY <1>3, <1>5 DEF ProgramInv, LabelsInv
<1>7. ~Redefined(label) => \A s \in Labels(label) : s \in Idents /\ symbols'[s].resolved /\ symbols'[s].val = currAddr
  <2> SUFFICES ASSUME ~Redefined(label), NEW s \in Labels(label)
               PROVE  s \in Idents /\ symbols'[s].resolved /\ symbols'[s].val = currAddr
    OBVIOUS
  <2>1. CASE s \in pending
    BY <1>1, <1>4, <2>1 DEF ProgramInv, LabelsInv, Holds, Keeps
  <2>2. CASE s \notin pending
    BY <1>2, <2>2 DEF Labels
  <2> QED
    BY <2>1, <2>2
<1>8. CASE /\ UNCHANGED <<code, currAddr>>
           /\ pending' = pending \/ (pending' = Labels(label) /\ ~Redefined(label))
  <2>1. \A s \in pending' : s \in Idents /\ symbols'[s].resolved /\ symbols'[s].val = currAddr
    BY <1>1, <1>4, <1>7, <1>8 DEF ProgramInv, LabelsInv, Holds, Keeps
  <2>2. LabelsInv'
    BY <1>6, <1>8, <2>1 DEF LabelsInv, Holds
  <2>3. Types'
    BY <1>1, <1>4, <1>8, <2>1 DEF Types, Typed, FilesTyped
  <2>4. PlacedInMemory'
    BY <1>4, <1>8 DEF ProgramInv, PlacedInMemory, Place
  <2> QED
    BY <1>4, <2>2, <2>3, <2>4 DEF ProgramInv
<1>9. ASSUME ~Full, ~Redefined(label), pending' = {}, currAddr' = currAddr + InstrBytes,
             NEW arg \in Idents \cup {None},
             code' = Append(code, [label |-> LastLabel(label), arg |-> arg, val |-> 0, here |-> Labels(label)])
      PROVE  ProgramInv'
  <2> DEFINE e == [label |-> LastLabel(label), arg |-> arg, val |-> 0, here |-> Labels(label)]
             n == Len(code)
  <2>1. e \in CodeEntry /\ e.here = Labels(label)
    <3>1. LastLabel(label) \in Label
      BY <1>1, <1>4, TopTyped DEF LastLabel, Label, File, Types, FilesTyped
    <3>2. Labels(label) \subseteq Idents
      BY <1>4 DEF Labels
    <3> QED
      BY <3>1, <3>2 DEF CodeEntry
  <2>2. /\ code' \in Seq(CodeEntry) /\ n \in Nat /\ Len(code') = n + 1 /\ DOMAIN code' = 1 .. n + 1 /\ DOMAIN code = 1 .. n
        /\ code'[n + 1] = e /\ \A k \in 1 .. n : code'[k] = code[k]
    <3> HIDE DEF e
    <3> QED
      BY <1>4, <1>9, <2>1 DEF e
  <2> HIDE DEF e, n
  <2>3. currAddr = Place(n + 1)
    BY DEF ProgramInv, PlacedInMemory, n
  <2>4. Types'
    BY <1>1, <1>4, <1>9, <2>2, Sizes DEF Types, Typed, FilesTyped
  <2>5. LabelsInv'
    <3>1. ASSUME NEW k \in DOMAIN code', NEW s \in code'[k].here
          PROVE  Holds(s, Place(k))'
      <4>1. CASE k = n + 1
        BY <1>4, <1>7, <1>9, <2>1, <2>2, <2>3, <3>1, <4>1 DEF Holds, Place
      <4>2. CASE k # n + 1
        BY <1>6, <2>2, <3>1, <4>2
      <4> QED
        BY <4>1, <4>2
    <3> QED
      BY <1>9, <3>1 DEF LabelsInv
  <2>6. PlacedInMemory'
    <3>1. (currAddr = Place(Len(code) + 1))'
      <4>1. InstrBytes \in Nat
        BY Sizes
      <4>2. InstrBytes * (n + 1 - 1) \in Nat /\ InstrBytes * ((n + 1 + 1) - 1) = InstrBytes * (n + 1 - 1) + InstrBytes
        BY <2>2, Steps
      <4>3. currAddr = firstAddr + InstrBytes * (n + 1 - 1) /\ firstAddr' = firstAddr
        BY <1>4, <2>2, <2>3, <4>1, <4>2 DEF Place
      <4>4. currAddr' = firstAddr' + InstrBytes * ((n + 1 + 1) - 1)
        BY <1>4, <1>9, <4>1, <4>2, <4>3
      <4> QED
        BY <1>4, <2>2, <4>1, <4>3, <4>4 DEF Place
    <3>2. ASSUME NEW k \in DOMAIN code'
          PROVE  Place(k)' >= InstrBase /\ Place(k)' < InstrEnd
      <4>1. CASE k = n + 1
        <5>1. currAddr < InstrEnd
          BY <1>4, <1>9, Sizes DEF Full
        <5>2. currAddr >= firstAddr
          <6>1. InstrBytes * (n + 1 - 1) \in Nat
            BY <2>2, Steps
          <6> QED
            BY <1>4, <2>2, <2>3, <6>1, Sizes DEF Place
        <5>3. firstAddr >= InstrBase /\ Place(k)' = currAddr
          BY <1>4, <2>3, <4>1 DEF ProgramInv, Place
        <5> QED
          BY <1>4, <5>1, <5>2, <5>3, Sizes
      <4>2. CASE k # n + 1
        BY <1>5, <2>2, <4>2 DEF ProgramInv, PlacedInMemory
      <4> QED
        BY <4>1, <4>2
    <3> QED
      BY <3>1, <3>2 DEF PlacedInMemory
  <2> QED
    BY <1>4, <2>4, <2>5, <2>6 DEF ProgramInv
<1> QED
  BY <1>8, <1>9, LineProgram

\* A program that begins is empty.
LEMMA ProgramStep ==
  ASSUME ProgramInv, FilesTyped', [Next]_vars
  PROVE  ProgramInv'
<1>1. CASE UNCHANGED <<firstAddr, code, currAddr, symbols, pending>>
  <2>1. Types'
    BY <1>1 DEF ProgramInv, Types, FilesTyped
  <2>2. PlacedInMemory' /\ LabelsInv'
    BY <1>1 DEF ProgramInv, PlacedInMemory, LabelsInv, Holds, Place
  <2> QED
    BY <1>1, <2>1, <2>2 DEF ProgramInv
<1>2. ASSUME NEW a \in FirstAddrs, CompileInit(a)
      PROVE  ProgramInv'
  <2>0. a \in Nat
    BY AssemblerAssumption
  <2>1. CASE a < InstrBase \/ a > InstrEnd
    BY <1>1, <1>2, <2>1 DEF CompileInit, Fail, output, tables
  <2>2. CASE ~(a < InstrBase \/ a > InstrEnd)
    <3>1. code' = <<>> /\ firstAddr' = a /\ currAddr' = a /\ pending' = {} /\ UNCHANGED symbols
      BY <1>2, <2>2 DEF CompileInit, CompileInitProgram, tables
    <3>2. code' \in Seq(CodeEntry) /\ Len(code') = 0 /\ DOMAIN code' = {}
      BY <3>1, EmptyProgram
    <3>3. Types'
      BY <2>0, <3>1, <3>2 DEF ProgramInv, Types, FilesTyped
    <3>4. (currAddr = Place(Len(code) + 1))'
      BY <2>0, <3>1, <3>2, Sizes, Steps DEF Place
    <3>5. PlacedInMemory'
      BY <3>2, <3>4 DEF PlacedInMemory
    <3>6. LabelsInv'
      BY <3>1, <3>2 DEF LabelsInv
    <3>7. firstAddr' >= InstrBase
      BY <2>0, <2>2, <3>1, Sizes
    <3> QED
      BY <3>3, <3>5, <3>6, <3>7 DEF ProgramInv
  <2> QED
    BY <2>1, <2>2
<1>3. CASE Aside \/ UNCHANGED vars
  BY <1>1, <1>3, AsideKeeps DEF vars, output, tables
<1>4. CASE \E label \in Idents \cup {None} : LineOf(label)
  BY <1>4, LineStep
<1> QED
  BY <1>2, <1>3, <1>4, StepCases

--------------------------------------------------------------------------------
(* Assembling *)

\* A program of which all is written has no symbol without a value.
LEMMA AllWritten ==
  ASSUME Types, Len(Written) = Len(code)
  PROVE  Written = [k \in DOMAIN code |-> Relocate(code[k])]
<1> DEFINE bad == {k \in DOMAIN code : Unresolved(code[k])}
           m == IF bad = {} THEN Len(code) ELSE Min(bad) - 1
<1>1. Written = [k \in 1 .. m |-> Relocate(code[k])]
  BY DEF Written
<1>2. Len(code) \in Nat /\ DOMAIN code = 1 .. Len(code)
  BY DEF Types
<1>3. bad \subseteq 1 .. Len(code) /\ bad \in SUBSET Nat
  BY <1>2
<1> HIDE DEF bad
<1>4. bad # {} => Min(bad) \in 1 .. Len(code)
  BY <1>3, MinInSet
<1>5. m \in Nat /\ (bad # {} => m < Len(code))
  BY <1>2, <1>4
<1> HIDE DEF m
<1>6. Len(Written) = m
  BY <1>1, <1>5
<1>7. m = Len(code)
  BY <1>6
<1> QED
  BY <1>1, <1>2, <1>7

\* Between two compilations only CompileInit can happen; an error is told.
LEMMA OtherSteps ==
  ASSUME Aside \/ \E label \in Idents \cup {None} : LineOf(label),
         ~ \E host \in {"dpi", "tool", "library"} : Assemble(host)
  PROVE  phase # "idle" /\ outcome' \in {outcome, "failed"}
<1>1. CASE Compile \/ EndOfFile \/ SkipLine
  BY <1>1 DEF Compile, EndOfFile, SkipLine
<1>2. CASE Else \/ Endif \/ DirectiveError
  BY <1>2 DEF Else, Endif, DirectiveError, Directive
<1>3. CASE \E c \in CondIdents : Define(c) \/ Ifdef(c)
  BY <1>3 DEF Define, Ifdef, Directive
<1>4. ASSUME NEW label \in Idents \cup {None}, LineOf(label)
      PROVE  phase # "idle" /\ outcome' \in {outcome, "failed"}
  <2>1. CASE EmptyLine(label) \/ ParseIncludeFile(label) \/ LabelError(label)
    BY <2>1 DEF EmptyLine, ParseIncludeFile, LabelError, Line, Fail
  <2>2. CASE \E s \in Idents, c \in Constants : ParseConstant(label, s, c)
    BY <2>2 DEF ParseConstant, Line, Fail
  <2>3. CASE \E arg \in Idents \cup {None} : ParseInstruction(label, arg) \/ SyntaxError(label, arg)
    BY <2>3 DEF ParseInstruction, SyntaxError, Line, Fail
  <2> QED
    BY <1>4, <2>1, <2>2, <2>3 DEF LineOf
<1> QED
  BY <1>1, <1>2, <1>3, <1>4 DEF Aside

\* Nothing happens to the words between Assemble and the next compilation.
LEMMA WordsStep ==
  ASSUME Types, WordsInv, [Next]_vars
  PROVE  WordsInv'
<1> SUFFICES ASSUME outcome' \in Hosts
             PROVE  (phase = "idle" /\ words = [k \in DOMAIN code |-> Relocate(code[k])])'
  BY DEF WordsInv
<1>1. CASE \E a \in FirstAddrs : CompileInit(a)
  <2>1. outcome' \in {"failed", "none"}
    BY <1>1 DEF CompileInit, Fail
  <2> QED
    BY <2>1 DEF Hosts
<1>2. ASSUME NEW host \in {"dpi", "tool", "library"}, Assemble(host)
      PROVE  (phase = "idle" /\ words = [k \in DOMAIN code |-> Relocate(code[k])])'
  <2>1. phase' = "idle" /\ UNCHANGED <<code, symbols>>
    BY <1>2 DEF Assemble, output, tables
  <2>2. words' = Written /\ Len(Written) = Len(code)
    BY <1>2 DEF Assemble, Hosts
  <2>3. words' = [k \in DOMAIN code |-> Relocate(code[k])]
    BY <2>2, AllWritten
  <2> QED
    BY <2>1, <2>3 DEF Relocate
<1>3. CASE UNCHANGED vars
  BY <1>3 DEF vars, output, tables, WordsInv, Relocate
<1>4. CASE /\ Aside \/ \E label \in Idents \cup {None} : LineOf(label)
           /\ ~ \E host \in {"dpi", "tool", "library"} : Assemble(host)
  <2>1. phase # "idle" /\ outcome' \in {outcome, "failed"}
    BY <1>4, OtherSteps
  <2> QED
    BY <2>1 DEF WordsInv, Hosts
<1> QED
  BY <1>1, <1>2, <1>3, <1>4, StepCases

--------------------------------------------------------------------------------
(* The theorems *)

IInv == ProgramInv /\ ConditionsInv /\ WordsInv

\* The part of the types that files and conditions rest on.
LEMMA TypesOfFiles ==
  ASSUME Types
  PROVE  FilesTyped
  BY DEF Types, FilesTyped

\* A new session satisfies the invariant.
LEMMA InitIInv == Init => IInv
<1> SUFFICES ASSUME Init
             PROVE  IInv
  OBVIOUS
<1>1. code = <<>> /\ files = <<>> /\ condStack = <<>> /\ pending = {}
  BY DEF Init
<1>2. code \in Seq(CodeEntry) /\ Len(code) = 0 /\ DOMAIN code = {}
  BY <1>1, EmptyProgram
<1>3. files \in Seq(File) /\ Len(files) = 0 /\ DOMAIN files = {}
  BY <1>1
<1>4. condStack \in Seq(BOOLEAN)
  BY <1>1
<1>5. symbols = [s \in Idents |-> Unseen]
  BY DEF Init
<1>6. Unseen \in SymbolEntry /\ Unseen.resolved = FALSE /\ Unseen.type \notin {"LABEL", "CONSTANT"}
  BY DEF Unseen, SymbolEntry
<1>7. symbols \in Table /\ \A s \in Idents : symbols[s].resolved <=> symbols[s].type \in {"LABEL", "CONSTANT"}
  BY <1>5, <1>6 DEF Table
<1>8. firstAddr = InstrBase /\ currAddr = InstrBase /\ phase = "idle" /\ outcome = "none"
      /\ condDefs \subseteq CondIdents
  BY AssemblerAssumption DEF Init
<1>9. Types
  BY <1>1, <1>2, <1>3, <1>4, <1>7, <1>8, Sizes DEF Types
<1>10. currAddr = Place(Len(code) + 1)
  BY <1>2, <1>8, Sizes, Steps DEF Place
<1>11. PlacedInMemory /\ LabelsInv
  BY <1>1, <1>2, <1>10 DEF PlacedInMemory, LabelsInv
<1>12. WordsInv /\ ConditionsInv
  BY <1>3, <1>8 DEF WordsInv, Hosts, ConditionsInv
<1> QED
  BY <1>8, <1>9, <1>11, <1>12, Sizes DEF IInv, ProgramInv

\* Every step preserves the invariant.
LEMMA StepIInv == IInv /\ [Next]_vars => IInv'
<1> SUFFICES ASSUME IInv, [Next]_vars
             PROVE  IInv'
  OBVIOUS
<1>1. Types /\ FilesTyped
  BY TypesOfFiles DEF IInv, ProgramInv
<1>2. FilesTyped' /\ ConditionsInv'
  BY <1>1, FilesStep DEF IInv
<1>3. ProgramInv'
  BY <1>2, ProgramStep DEF IInv
<1>4. WordsInv'
  BY <1>1, WordsStep DEF IInv
<1> QED
  BY <1>2, <1>3, <1>4 DEF IInv

\* The inductive invariant that the theorems below rest on.
THEOREM Invariant == Spec => []IInv
  BY InitIInv, StepIInv, PTL DEF Spec

\* Whatever files are compiled, in however many sessions, the tables, the program and
\* the files being read are of their types: the types of entries fit what is resolved.
THEOREM TypeCorrect == Spec => []TypeOK
<1>1. ASSUME Types
      PROVE  TypeOK
  <2>1. \A i \in Range(code) : i.arg \in Idents \cup {None} /\ i.here \subseteq Idents
    <3> TAKE i \in Range(code)
    <3>1. PICK k \in DOMAIN code : i = code[k]
      BY DEF Range
    <3>2. i \in CodeEntry
      BY <1>1, <3>1 DEF Types
    <3> QED
      BY <3>2 DEF CodeEntry
  <2> QED
    BY <1>1, <2>1 DEF Types, TypeOK
<1> QED
  BY <1>1, Invariant, PTL DEF IInv, ProgramInv

\* currAddr is that of the instruction to come, and every instruction of the program
\* begins inside the instruction memory, for any size of it.
THEOREM ProgramIsPlaced == Spec => []PlacedInMemory
<1>1. IInv => PlacedInMemory
  BY DEF IInv, ProgramInv
<1> QED
  BY <1>1, Invariant, PTL

\* An instruction that uses a label gets the address of the instruction behind the label,
\* for any order of uses and definitions and any nesting of files.
THEOREM LabelsReached == Spec => []JumpsLand
<1>1. ASSUME IInv, outcome \in Hosts, NEW k \in DOMAIN code, NEW j \in DOMAIN code,
             code[k].arg \in code[j].here
      PROVE  words[k] = Place(j)
  <2>1. words[k] = Relocate(code[k])
    BY <1>1 DEF IInv, WordsInv
  <2>2. code[j] \in CodeEntry
    BY <1>1 DEF IInv, ProgramInv, Types
  <2>3. code[k].arg \in Idents /\ code[k].arg # None
    BY <1>1, <2>2, AssemblerAssumption DEF CodeEntry
  <2>4. symbols[code[k].arg].val = Place(j)
    BY <1>1 DEF IInv, ProgramInv, LabelsInv, Holds
  <2> QED
    BY <2>1, <2>3, <2>4 DEF Relocate
<1>2. IInv => JumpsLand
  BY <1>1 DEF JumpsLand, Hosts
<1> QED
  BY <1>2, Invariant, PTL

\* However files are nested, one whose conditions are balanced has left those it was
\* included under as they were.
THEOREM ConditionsKept == Spec => []IncludeKeepsConditions
<1>1. ASSUME IInv, NEW k \in DOMAIN files, k = Len(files), files[k].balanced
      PROVE  LET f == files[k]
                 n == Len(condStack) - Len(f.base)
             IN  n = f.depth /\ SubSeq(condStack, n + 1, Len(condStack)) = f.base
  <2> DEFINE f == files[k]
             n == Len(condStack) - Len(f.base)
  <2>1. condStack \in Seq(BOOLEAN) /\ f \in File
    BY <1>1 DEF IInv, ProgramInv, Types
  <2>2. f.depth \in Nat /\ f.base \in Seq(BOOLEAN)
    BY <2>1 DEF File
  <2>3. Rests(condStack, f)
    BY <1>1 DEF IInv, ConditionsInv, Under
  <2> HIDE DEF f
  <2>4. n = f.depth /\ Len(condStack) = f.depth + Len(f.base)
    BY <2>1, <2>2, <2>3 DEF Rests
  <2>5. \A i \in 1 .. Len(f.base) : condStack[f.depth + i] = f.base[i]
    BY <2>3 DEF Rests
  <2>6. SubSeq(condStack, f.depth + 1, Len(condStack)) = f.base
    <3> DEFINE a == f.depth + 1
               b == Len(condStack)
               t == SubSeq(condStack, a, b)
    <3>1. a \in Int /\ b \in Int /\ \A i \in a .. b : condStack[i] \in BOOLEAN
      BY <2>1, <2>2
    <3>2. /\ t \in Seq(BOOLEAN)
          /\ Len(t) = (IF a <= b THEN b - a + 1 ELSE 0)
          /\ \A i \in 1 .. b - a + 1 : t[i] = condStack[a + i - 1]
      <4> HIDE DEF a, b, t
      <4> QED
        BY <3>1, SubSeqProperties DEF t
    <3>3. b - a + 1 = Len(f.base) /\ b = f.depth + Len(f.base)
      BY <2>1, <2>2, <2>4
    <3>4. a = f.depth + 1
      OBVIOUS
    <3> HIDE DEF a, b, t
    <3>5. Len(t) = Len(f.base)
      BY SMTT(30), <2>2, <3>1, <3>2, <3>3, <3>4
    <3>6. \A i \in 1 .. Len(f.base) : a + i - 1 = f.depth + i
      BY <2>2, <3>4
    <3>7. \A i \in 1 .. Len(f.base) : t[i] = f.base[i]
      BY <2>5, <3>2, <3>3, <3>6
    <3>8. t = f.base
      BY <2>2, <3>2, <3>5, <3>7
    <3> QED
      BY <3>8 DEF t, a, b
  <2> QED
    BY <2>4, <2>6 DEF f
<1>2. IInv => IncludeKeepsConditions
  BY <1>1 DEF IncludeKeepsConditions
<1> QED
  BY <1>2, Invariant, PTL

\* A symbol that has a value keeps it, over lines, files, errors and sessions.
THEOREM SymbolsFinal == Spec => ValuesAreFinal
<1>1. IInv /\ [Next]_vars => [\A s \in Idents : symbols[s].resolved => symbols'[s] = symbols[s]]_vars
  BY SymbolsStep DEF IInv, ProgramInv, Keeps
<1> QED
  BY <1>1, Invariant, PTL DEF Spec, ValuesAreFinal
================================================================================
