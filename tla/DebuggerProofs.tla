------------------------------ MODULE DebuggerProofs ------------------------------
(*****************************************************************************)
(* Proofs about Debugger, for any program, names, numbers and breakpoints:   *)
(* delete leaves none at the address its argument is taken for, a run passes *)
(* none after its first instruction, and nothing executes before a start.    *)
(*****************************************************************************)
EXTENDS Debugger, SequenceTheorems, WellFoundedInduction, TLAPS

\* No address is in the list twice.
Distinct(s) == \A i, j \in 1 .. Len(s) : s[i] = s[j] => i = j

\* A run that has moved on stands at no breakpoint.
RunInv == command.name = "run" /\ ~command.first => ~IsBreakpointAt(pc)

StartedInv == (programRunning => started) /\ ExecutesStartedProgram

Command == [name : {"prompt", "run", "step"}, left : Nat, fresh : BOOLEAN, first : BOOLEAN]

Types ==
  /\ pc \in Pc /\ ended \in BOOLEAN /\ breakpoints \in Seq(Pc) /\ programRunning \in BOOLEAN
  /\ command \in Command /\ started \in BOOLEAN

IInv == Types /\ Distinct(breakpoints) /\ RunInv /\ StartedInv /\ DeletedIsGone

--------------------------------------------------------------------------------
(* Lists of breakpoints *)

\* A set of naturals that is not empty has its least member.
LEMMA MinInSet ==
  ASSUME NEW S \in SUBSET Nat, S # {}
  PROVE  Min(S) \in S
<1>1. PICK x \in S : \A y \in S : ~ (<<y, x>> \in OpToRel(<, Nat))
  BY NatLessThanWellFounded, WFMin
<1>2. \A y \in S : x <= y
  <2> SUFFICES ASSUME NEW y \in S
               PROVE  x <= y
    OBVIOUS
  <2>1. x \in Nat /\ y \in Nat
    OBVIOUS
  <2>2. CASE y < x
    <3>1. <<y, x>> \in Nat \X Nat /\ <<y, x>>[1] < <<y, x>>[2]
      BY <2>1, <2>2
    <3>2. <<y, x>> \in OpToRel(<, Nat)
      BY <3>1, Zenon DEF OpToRel
    <3> QED
      BY <1>1, <3>2
  <2> QED
    BY <2>1, <2>2
<1> QED
  BY <1>2 DEF Min

\* Removing one place of a list keeps the others.
LEMMA RemoveAtProperties ==
  ASSUME NEW S, NEW s \in Seq(S), NEW k \in 1 .. Len(s)
  PROVE  /\ RemoveAt(s, k) \in Seq(S) /\ Len(RemoveAt(s, k)) = Len(s) - 1
         /\ \A i \in 1 .. Len(s) - 1 : RemoveAt(s, k)[i] = s[IF i < k THEN i ELSE i + 1]
<1> DEFINE n == Len(s)
           a == SubSeq(s, 1, k - 1)
           b == SubSeq(s, k + 1, n)
<1>1. n \in Nat /\ k \in Nat /\ k >= 1 /\ k <= n /\ \A i \in 1 .. n : s[i] \in S
  OBVIOUS
<1>2. a \in Seq(S) /\ Len(a) = k - 1 /\ \A i \in 1 .. k - 1 : a[i] = s[i]
  <2>1. 1 \in Int /\ k - 1 \in Int /\ \A i \in 1 .. k - 1 : s[i] \in S
    BY <1>1
  <2>2. /\ a \in Seq(S) /\ Len(a) = (IF 1 <= k - 1 THEN k - 1 - 1 + 1 ELSE 0)
        /\ \A i \in 1 .. k - 1 - 1 + 1 : a[i] = s[1 + i - 1]
    <3> HIDE DEF n
    <3> QED
      BY <2>1, SubSeqProperties
  <2>3. k - 1 - 1 + 1 = k - 1 /\ \A i \in 1 .. k - 1 : 1 + i - 1 = i
    BY <1>1
  <2> HIDE DEF a
  <2> QED
    BY <1>1, <2>2, <2>3
<1>3. b \in Seq(S) /\ Len(b) = n - k /\ \A i \in 1 .. n - k : b[i] = s[k + i]
  <2>1. k + 1 \in Int /\ n \in Int /\ \A i \in k + 1 .. n : s[i] \in S
    BY <1>1
  <2>2. /\ b \in Seq(S) /\ Len(b) = (IF k + 1 <= n THEN n - (k + 1) + 1 ELSE 0)
        /\ \A i \in 1 .. n - (k + 1) + 1 : b[i] = s[(k + 1) + i - 1]
    <3> HIDE DEF n
    <3> QED
      BY <2>1, SubSeqProperties
  <2>3. n - (k + 1) + 1 = n - k /\ \A i \in 1 .. n - k : (k + 1) + i - 1 = k + i
    BY <1>1
  <2>4. Len(b) = n - k
    <3> HIDE DEF b, n
    <3> QED
      BY <1>1, <2>2
  <2> HIDE DEF b, n
  <2> QED
    BY <1>1, <2>2, <2>3, <2>4
<1>4. RemoveAt(s, k) = a \o b
  BY DEF RemoveAt
<1> HIDE DEF a, b
<1>5. RemoveAt(s, k) \in Seq(S) /\ Len(RemoveAt(s, k)) = n - 1
  <2>1. a \o b \in Seq(S) /\ Len(a \o b) = Len(a) + Len(b)
    BY <1>1, <1>2, <1>3, <1>4, ConcatProperties
  <2> HIDE DEF n
  <2> QED
    BY <1>1, <1>2, <1>3, <1>4, <2>1
<1>6. ASSUME NEW i \in 1 .. n - 1
      PROVE  RemoveAt(s, k)[i] = s[IF i < k THEN i ELSE i + 1]
  <2>1. CASE i < k
    <3>1. i \in 1 .. k - 1
      BY <1>1, <2>1
    <3> QED
      BY <1>2, <1>3, <1>4, <2>1, <3>1
  <2>2. CASE ~(i < k)
    <3>1. i - (k - 1) \in 1 .. n - k /\ k + (i - (k - 1)) = i + 1 /\ i > Len(a) /\ i - Len(a) = i - (k - 1)
          /\ i <= Len(a) + Len(b)
      BY <1>1, <1>2, <1>3, <2>2
    <3>2. RemoveAt(s, k)[i] = b[i - (k - 1)]
      BY <1>1, <1>2, <1>3, <1>4, <3>1
    <3> QED
      BY <1>3, <2>2, <3>1, <3>2
  <2> QED
    BY <2>1, <2>2
<1> QED
  BY <1>5, <1>6

\* Where no address is twice, the first is the only one.
LEMMA RemoveFirstRemoves ==
  ASSUME NEW S, NEW s \in Seq(S), Distinct(s), NEW e, Contains(s, e)
  PROVE  /\ RemoveFirst(s, e) \in Seq(S) /\ Distinct(RemoveFirst(s, e))
         /\ ~Contains(RemoveFirst(s, e), e)
         /\ \A f : Contains(RemoveFirst(s, e), f) => Contains(s, f)
<1> DEFINE I == {i \in 1 .. Len(s) : s[i] = e}
           k == Min(I)
           r == RemoveAt(s, k)
<1>1. \E i \in 1 .. Len(s) : s[i] = e
  BY DEF Contains
<1>2. I # {} /\ I \in SUBSET Nat
  BY <1>1
<1>3. k \in 1 .. Len(s) /\ s[k] = e
  <2>1. k \in I
    <3> HIDE DEF I
    <3> QED
      BY <1>2, MinInSet
  <2> QED
    BY <2>1
<1>4. RemoveFirst(s, e) = r
  BY <1>1, <1>2, Zenon DEF RemoveFirst, SelectInSeq
<1> HIDE DEF k, I
<1>5. /\ r \in Seq(S) /\ Len(r) = Len(s) - 1
      /\ \A i \in 1 .. Len(s) - 1 : r[i] = s[IF i < k THEN i ELSE i + 1]
  BY <1>3, RemoveAtProperties
<1> HIDE DEF r
<1>6. Len(s) \in Nat
  OBVIOUS
<1>7. \A i \in 1 .. Len(s) - 1 : (IF i < k THEN i ELSE i + 1) \in 1 .. Len(s) /\ (IF i < k THEN i ELSE i + 1) # k
  BY <1>3, <1>6
<1>8. \A i, j \in 1 .. Len(s) - 1 : (IF i < k THEN i ELSE i + 1) = (IF j < k THEN j ELSE j + 1) => i = j
  BY <1>3, <1>6
<1>9. Distinct(r)
  BY <1>5, <1>7, <1>8 DEF Distinct
<1>10. ~Contains(r, e)
  BY <1>3, <1>5, <1>7 DEF Contains, Distinct
<1>11. \A f : Contains(r, f) => Contains(s, f)
  BY <1>5, <1>7 DEF Contains
<1> QED
  BY <1>4, <1>5, <1>9, <1>10, <1>11

--------------------------------------------------------------------------------
(* Breakpoints of the session *)

\* The assumptions on texts, one by one.
LEMMA TextTypes ==
  /\ AddrSpace \in Nat \ {0} /\ Pc = 0 .. AddrSpace - 1 /\ 0 \in Pc /\ StartPc \in Pc
  /\ \A t \in Texts : ReadNumber(t) \in Pc
  /\ \A t \in Texts : IsSymbol(t) => SymbolValue[t[2]] \in Pc
  /\ \A p \in Pc : Successors(p) \subseteq Pc
<1>1. AddrSpace \in Nat \ {0} /\ 0 \in Pc /\ StartPc \in Pc /\ \A p \in Pc : Successors(p) \subseteq Pc
  BY DebuggerAssumption DEF Pc
<1>2. \A t \in Texts : ReadNumber(t) \in Pc
  <2> TAKE t \in Texts
  <2>1. CASE t[1] = "dec"
    BY <2>1, DebuggerAssumption DEF Texts, ReadNumber
  <2>2. CASE t[1] # "dec"
    BY <1>1, <2>2 DEF ReadNumber
  <2> QED
    BY <2>1, <2>2
<1>3. \A t \in Texts : IsSymbol(t) => SymbolValue[t[2]] \in Pc
  BY DebuggerAssumption DEF IsSymbol
<1> QED
  BY <1>1, <1>2, <1>3 DEF Pc

\* Adding keeps addresses distinct.
LEMMA AddKeeps ==
  ASSUME breakpoints \in Seq(Pc), Distinct(breakpoints), NEW a \in Pc, AddBreakpoint(a)
  PROVE  breakpoints' \in Seq(Pc) /\ Distinct(breakpoints')
<1>1. CASE IsBreakpointAt(a)
  BY <1>1 DEF AddBreakpoint
<1>2. CASE ~IsBreakpointAt(a)
  <2>1. breakpoints' = Append(breakpoints, a)
    BY <1>2 DEF AddBreakpoint
  <2>2. \A i \in 1 .. Len(breakpoints) : breakpoints[i] # a
    BY <1>2 DEF IsBreakpointAt, Contains
  <2> QED
    BY <2>1, <2>2 DEF Distinct
<1> QED
  BY <1>1, <1>2

\* Removing takes the only entry of an address.
LEMMA RemoveKeeps ==
  ASSUME breakpoints \in Seq(Pc), Distinct(breakpoints), NEW a, RemoveBreakPoint(a)
  PROVE  breakpoints' \in Seq(Pc) /\ Distinct(breakpoints') /\ ~Contains(breakpoints', a)
<1>1. CASE IsBreakpointAt(a)
  BY <1>1, RemoveFirstRemoves DEF RemoveBreakPoint, IsBreakpointAt
<1>2. CASE ~IsBreakpointAt(a)
  BY <1>2 DEF RemoveBreakPoint, IsBreakpointAt
<1> QED
  BY <1>1, <1>2

\* Commands on breakpoints happen at the prompt and leave the machine alone.
LEMMA BreakpointStep ==
  ASSUME IInv, BreakpointCommand
  PROVE  IInv'
<1>1. breakpoints \in Seq(Pc) /\ Distinct(breakpoints) /\ pc \in Pc
  BY DEF IInv, Types
<1>2. command = Prompt /\ UNCHANGED <<pc, ended, started, programRunning, command>>
  BY DEF BreakpointCommand, CmdBreakRelative, CmdBreak, CmdDelete, CmdDeleteAll, Idle, core
<1>3. breakpoints' \in Seq(Pc) /\ Distinct(breakpoints') /\ DeletedIsGone'
  <2>1. ASSUME NEW sign \in {"+", "-"}, NEW n \in Numbers, CmdBreakRelative(sign, n)
        PROVE  breakpoints' \in Seq(Pc) /\ Distinct(breakpoints') /\ DeletedIsGone'
    <3>1. (pc + n) % AddrSpace \in Pc
      <4>1. pc \in Nat /\ n \in Nat /\ AddrSpace \in Nat \ {0} /\ Pc = 0 .. AddrSpace - 1
        BY <1>1, DebuggerAssumption DEF Pc
      <4> QED
        BY <4>1
    <3>2. breakpoints' \in Seq(Pc) /\ Distinct(breakpoints')
      BY <1>1, <2>1, <3>1, AddKeeps DEF CmdBreakRelative
    <3> QED
      BY <2>1, <3>2 DEF CmdBreakRelative, DeletedIsGone
  <2>2. ASSUME NEW t \in Texts, CmdBreak(t)
        PROVE  breakpoints' \in Seq(Pc) /\ Distinct(breakpoints') /\ DeletedIsGone'
    <3>1. breakpoints' \in Seq(Pc) /\ Distinct(breakpoints')
      BY <1>1, <2>2, AddKeeps, TextTypes DEF CmdBreak
    <3>2. last'[1] = "break"
      BY <2>2 DEF CmdBreak
    <3> QED
      BY <3>1, <3>2 DEF DeletedIsGone
  <2>3. ASSUME NEW t \in Texts, CmdDelete(t)
        PROVE  breakpoints' \in Seq(Pc) /\ Distinct(breakpoints') /\ DeletedIsGone'
    <3>1. breakpoints' \in Seq(Pc) /\ Distinct(breakpoints')
      BY <1>1, <2>3, RemoveKeeps DEF CmdDelete
    <3>2. last' = <<"delete", t>>
      BY <2>3 DEF CmdDelete
    <3>3. ASSUME NEW a \in Pc, TakenFor(t, a)
          PROVE  ~Contains(breakpoints', a)
      <4>1. RemoveBreakPoint(a)
        BY <2>3, <3>3 DEF CmdDelete, TakenFor, IsSymbol
      <4> QED
        BY <1>1, <4>1, RemoveKeeps
    <3>4. \A a \in Pc : TakenFor(last'[2], a) => ~IsBreakpointAt(a)'
      BY <3>2, <3>3 DEF IsBreakpointAt
    <3> QED
      BY <3>1, <3>4 DEF DeletedIsGone, TakenFor, LooksLikeNumber, ReadNumber, IsSymbol
  <2>4. CASE CmdDeleteAll
    BY <1>1, <2>4 DEF CmdDeleteAll, DeletedIsGone
  <2> QED
    BY <2>1, <2>2, <2>3, <2>4 DEF BreakpointCommand
<1>4. Types' /\ StartedInv'
  BY <1>2, <1>3 DEF IInv, Types, StartedInv, ExecutesStartedProgram, Executing
<1>5. RunInv'
  BY <1>2 DEF RunInv, Prompt
<1> QED
  BY <1>3, <1>4, <1>5 DEF IInv

--------------------------------------------------------------------------------
(* Execution *)

\* Everything else leaves the breakpoints alone.
LEMMA OthersKeepBreakpoints ==
  ASSUME IInv, UNCHANGED <<breakpoints, last>>
  PROVE  Distinct(breakpoints') /\ DeletedIsGone'
  BY DEF IInv, DeletedIsGone, IsBreakpointAt

\* Commands given at the prompt that start, stop or move the program.
LEMMA PromptStep ==
  ASSUME IInv,
         \/ CmdStart \/ CmdRun \/ CmdSetCommand
         \/ \E n \in StepCounts : CmdStep(n)
         \/ \E t \in Texts : CmdJump(t)
  PROVE  IInv'
<1>1. UNCHANGED <<breakpoints, last>>
  BY DEF CmdStart, CmdRun, CmdSetCommand, CmdStep, CmdJump
<1>2. Distinct(breakpoints') /\ DeletedIsGone'
  BY <1>1, OthersKeepBreakpoints
<1>3. Types'
  <2>1. CASE CmdStart \/ CmdSetCommand
    BY <1>1, <2>1, TextTypes DEF CmdStart, CmdSetCommand, Start, IInv, Types
  <2>2. CASE CmdRun
    BY <1>1, <2>2, TextTypes DEF CmdRun, Start, core, IInv, Types, Command
  <2>3. CASE \E n \in StepCounts : CmdStep(n)
    BY <1>1, <2>3, DebuggerAssumption DEF CmdStep, core, IInv, Types, Command
  <2>4. CASE \E t \in Texts : CmdJump(t)
    BY <1>1, <2>4, TextTypes DEF CmdJump, IInv, Types
  <2> QED
    BY <2>1, <2>2, <2>3, <2>4
<1>4. StartedInv'
  BY DEF CmdStart, CmdRun, CmdSetCommand, CmdStep, CmdJump, Start, core, Idle, Prompt, IInv, StartedInv,
         ExecutesStartedProgram, Executing
<1>5. RunInv'
  BY DEF CmdStart, CmdRun, CmdSetCommand, CmdStep, CmdJump, Idle, Prompt, RunInv
<1> QED
  BY <1>2, <1>3, <1>4, <1>5 DEF IInv

\* An instruction of a run or a step.
LEMMA InstructionStep ==
  ASSUME IInv, RunInstruction \/ StepInstruction
  PROVE  IInv'
<1>1. UNCHANGED <<breakpoints, last, programRunning, started>> /\ command.name \in {"run", "step"}
  BY DEF RunInstruction, StepInstruction, ExecuteInstruction
<1>2. Distinct(breakpoints') /\ DeletedIsGone'
  BY <1>1, OthersKeepBreakpoints
<1>3. pc' \in Pc /\ ended' \in BOOLEAN
  BY TextTypes DEF RunInstruction, StepInstruction, ExecuteInstruction, IInv, Types
<1>4. Prompt \in Command /\ Prompt.name = "prompt"
  BY DEF Prompt, Command
<1>5. command \in Command
  BY DEF IInv, Types
<1>6. CASE RunInstruction
  <2>1. CASE Stops(pc, pc')
    <3>1. command' = Prompt
      BY <1>6, <2>1 DEF RunInstruction
    <3> QED
      BY <1>1, <1>2, <1>3, <1>4, <3>1 DEF IInv, Types, RunInv, StartedInv, ExecutesStartedProgram, Executing
  <2>2. CASE ~Stops(pc, pc')
    <3>1. command' = [command EXCEPT !.first = FALSE] /\ command.name = "run"
      BY <1>6, <2>2 DEF RunInstruction
    <3>2. command' \in Command /\ command'.name = "run"
      BY <1>5, <3>1 DEF Command
    <3>3. ~IsBreakpointAt(pc)'
      BY <1>1, <2>2 DEF Stops, IsBreakpointAt
    <3>4. started
      BY <3>1 DEF IInv, StartedInv, ExecutesStartedProgram, Executing
    <3> QED
      BY <1>1, <1>2, <1>3, <3>2, <3>3, <3>4
      DEF IInv, Types, RunInv, StartedInv, ExecutesStartedProgram, Executing
  <2> QED
    BY <2>1, <2>2
<1>7. CASE StepInstruction
  <2>1. command' \in Command /\ command'.name # "run"
    <3>1. CASE ended' \/ command.left = 1
      BY <1>4, <1>7, <3>1 DEF StepInstruction
    <3>2. CASE ~(ended' \/ command.left = 1)
      <4>1. command' = [command EXCEPT !.left = StepsLeft(command.left), !.first = FALSE] /\ command.name = "step"
        BY <1>7, <3>2 DEF StepInstruction
      <4>2. StepsLeft(command.left) \in Nat
        BY <1>5 DEF StepsLeft, Command
      <4> QED
        BY <1>5, <4>1, <4>2 DEF Command
    <3> QED
      BY <3>1, <3>2
  <2>2. started
    BY <1>1 DEF IInv, StartedInv, ExecutesStartedProgram, Executing
  <2> QED
    BY <1>1, <1>2, <1>3, <2>1, <2>2 DEF IInv, Types, RunInv, StartedInv, ExecutesStartedProgram, Executing
<1> QED
  BY <1>6, <1>7

--------------------------------------------------------------------------------
(* The theorems *)

\* A new session satisfies the invariant.
LEMMA InitIInv == Init => IInv
<1> SUFFICES ASSUME Init
             PROVE  IInv
  OBVIOUS
<1>1. breakpoints = <<>>
  BY DEF Init
<1>2. breakpoints \in Seq(Pc) /\ Len(breakpoints) = 0
  BY <1>1
<1>3. Distinct(breakpoints)
  BY <1>2 DEF Distinct
<1>4. Types
  BY <1>2, TextTypes DEF Init, Types, Prompt, Command
<1>5. RunInv /\ StartedInv /\ DeletedIsGone
  BY DEF Init, RunInv, StartedInv, ExecutesStartedProgram, Executing, DeletedIsGone, Prompt
<1> QED
  BY <1>3, <1>4, <1>5 DEF IInv

\* Every step preserves it.
LEMMA StepIInv == IInv /\ [Next]_vars => IInv'
<1> SUFFICES ASSUME IInv, [Next]_vars
             PROVE  IInv'
  OBVIOUS
<1>1. CASE UNCHANGED vars
  BY <1>1 DEF vars, IInv, Types, RunInv, StartedInv, ExecutesStartedProgram, Executing, DeletedIsGone,
              IsBreakpointAt
<1>2. CASE Next
  BY <1>2, BreakpointStep, PromptStep, InstructionStep DEF Next
<1> QED
  BY <1>1, <1>2

\* The inductive invariant that the theorems below rest on.
THEOREM Invariant == Spec => []IInv
  BY InitIInv, StepIInv, PTL DEF Spec

\* Whatever is typed, program counter, breakpoints and counters are of their types.
THEOREM TypeCorrect == Spec => []TypeOK
<1>1. IInv => TypeOK
  BY DEF IInv, Types, TypeOK, Command
<1> QED
  BY <1>1, Invariant, PTL

\* For every text delete is given, numbers with a prefix and names of hexadecimal digits
\* included, no entry is left at the address the session takes it for, however often that
\* address was entered and by which commands (CmdDelete, AddBreakpoint).
THEOREM DeletionComplete == Spec => []DeletedIsGone
<1>1. IInv => DeletedIsGone
  BY DEF IInv
<1> QED
  BY <1>1, Invariant, PTL

\* No program executes before it has been started, however the core was written to.
THEOREM OnlyStartedExecute == Spec => []ExecutesStartedProgram
<1>1. IInv => ExecutesStartedProgram
  BY DEF IInv, StartedInv
<1> QED
  BY <1>1, Invariant, PTL

\* A run executes no instruction at a breakpoint except its first.
THEOREM BreakpointsStop == Spec => NoBreakpointPassed
<1>1. IInv => (command.name = "run" /\ IsBreakpointAt(pc) => command.first)
  BY DEF IInv, RunInv
<1> QED
  BY <1>1, Invariant, PTL DEF NoBreakpointPassed
================================================================================
