-------------------------------- MODULE Debugger --------------------------------
(*****************************************************************************)
(* Class CpuSimulator: the commands of the interactive session and what they *)
(* do to breakpoints, to the program that runs and to its program counter.   *)
(* The core is reduced to its program counter and end_executed_, CpuControl  *)
(* has the rest; a run or a step is a command that executes one instruction  *)
(* per state.  Commands that only print, and set, load and dump of memory,   *)
(* registers or keys, change nothing here.                                   *)
(*                                                                           *)
(* An argument is a text: a decimal number, one with a prefix 0x or 0b, or a *)
(* name.  Names of hexadecimal digits only look like numbers to the session. *)
(*****************************************************************************)
EXTENDS Integers, SequencesExt

CONSTANTS
  AddrSpace, InstrBytes, StartPc,
  Successors(_),           \* addresses an instruction may go on at; none if it ends
  Names, HexNames, Labels, Symbols, SymbolValue,
  Numbers, StepCounts, MaxBreakpoints

Pc == 0 .. AddrSpace - 1

ASSUME DebuggerAssumption ==
  /\ AddrSpace \in Nat \ {0} /\ StartPc \in Pc /\ InstrBytes \in Nat \ {0}
  /\ \A p \in Pc : Successors(p) \subseteq Pc
  /\ HexNames \subseteq Names /\ Labels \subseteq Symbols /\ Symbols \subseteq Names
  /\ SymbolValue \in [Symbols -> Pc]
  /\ Numbers \subseteq Pc /\ StepCounts \subseteq Nat

Texts == {"dec", "0x"} \X Numbers \cup {"name"} \X Names
NoText == <<"dec", 0>>

VARIABLES
  pc, ended,
  breakpoints,       \* breakpoints_
  programRunning,    \* program_running_
  command,           \* the run or step in progress
  last,              \* history: the last change of a breakpoint
  started            \* history: the program has been started in this session

vars == <<pc, ended, breakpoints, programRunning, command, last, started>>
core == <<pc, ended, started>>

Prompt == [name |-> "prompt", left |-> 0, fresh |-> FALSE, first |-> FALSE]
Idle == command = Prompt

Init ==
  /\ pc = 0 /\ ended = FALSE /\ breakpoints = <<>> /\ programRunning = FALSE
  /\ command = Prompt /\ last = <<"none", NoText>> /\ started = FALSE

--------------------------------------------------------------------------------
(* Arguments *)

LooksLikeNumber(t) == t[1] # "name" \/ t[2] \in HexNames

\* What ">>" reads into a uint16_t: a prefix or a letter ends a decimal number.
ReadNumber(t) == IF t[1] = "dec" THEN t[2] ELSE 0

IsSymbol(t) == ~LooksLikeNumber(t) /\ t[2] \in Symbols

--------------------------------------------------------------------------------
(* Breakpoints *)

IsBreakpointAt(a) == Contains(breakpoints, a)

\* Mutant: an address can be added twice.
AddBreakpointTwice(a) == breakpoints' = Append(breakpoints, a)

AddBreakpoint(a) == breakpoints' = IF IsBreakpointAt(a) THEN breakpoints ELSE Append(breakpoints, a)

RemoveBreakPoint(a) ==
  breakpoints' = IF IsBreakpointAt(a) THEN RemoveFirst(breakpoints, a) ELSE breakpoints

\* A breakpoint relative to the program counter, on either side by addition.
CmdBreakRelative(sign, n) ==
  /\ Idle /\ n % InstrBytes = 0 /\ Len(breakpoints) < MaxBreakpoints
  /\ AddBreakpoint((pc + n) % AddrSpace) /\ last' = <<sign, <<"dec", n>>>>
  /\ UNCHANGED <<core, programRunning, command>>

CmdBreak(t) ==
  /\ Idle /\ Len(breakpoints) < MaxBreakpoints
  /\ \/ LooksLikeNumber(t) /\ AddBreakpoint(ReadNumber(t))
     \/ IsSymbol(t) /\ t[2] \in Labels /\ AddBreakpoint(SymbolValue[t[2]])
     \/ ~LooksLikeNumber(t) /\ t[2] \notin Labels /\ UNCHANGED breakpoints
  /\ last' = <<"break", t>> /\ UNCHANGED <<core, programRunning, command>>

\* Labels are not required here: any symbol names an address.
CmdDelete(t) ==
  /\ Idle
  /\ \/ LooksLikeNumber(t) /\ RemoveBreakPoint(ReadNumber(t))
     \/ IsSymbol(t) /\ RemoveBreakPoint(SymbolValue[t[2]])
     \/ ~LooksLikeNumber(t) /\ ~IsSymbol(t) /\ UNCHANGED breakpoints
  /\ last' = <<"delete", t>> /\ UNCHANGED <<core, programRunning, command>>

\* "delete" passes an empty argument, for which nothing is removed.
CmdDeleteAll ==
  /\ Idle /\ last' = <<"delete all", NoText>>
  /\ UNCHANGED <<core, breakpoints, programRunning, command>>

--------------------------------------------------------------------------------
(* Execution *)

Start == pc' = StartPc /\ ended' = FALSE /\ started' = TRUE

CmdStart ==
  /\ Idle /\ Start /\ programRunning' = TRUE /\ UNCHANGED <<breakpoints, command, last>>

\* run goes on with a program that is running and starts one that is not.
CmdRun ==
  /\ Idle /\ ~ended
  /\ command' = [name |-> "run", left |-> 0, fresh |-> ~programRunning, first |-> TRUE]
  /\ IF programRunning THEN UNCHANGED core ELSE Start
  /\ programRunning' = TRUE /\ UNCHANGED <<breakpoints, last>>

\* Mutant: a program that is not running can be stepped.
CmdStepAnyway(n) ==
  /\ Idle /\ ~ended
  /\ command' = [name |-> "step", left |-> n, fresh |-> FALSE, first |-> TRUE]
  /\ UNCHANGED <<core, breakpoints, programRunning, last>>

\* 0 steps to the end of the program.
CmdStep(n) ==
  /\ Idle /\ ~ended /\ programRunning
  /\ command' = [name |-> "step", left |-> n, fresh |-> FALSE, first |-> TRUE]
  /\ UNCHANGED <<core, breakpoints, programRunning, last>>

CmdJump(t) ==
  /\ Idle
  /\ \/ LooksLikeNumber(t) /\ pc' = ReadNumber(t)
     \/ IsSymbol(t) /\ pc' = SymbolValue[t[2]]
  /\ UNCHANGED <<ended, started, breakpoints, programRunning, command, last>>

\* "set mem" on the register block starts or resets the core behind the session's back.
CmdSetCommand ==
  /\ Idle
  /\ \/ Start
     \/ pc' = 0 /\ ended' = FALSE /\ UNCHANGED started
  /\ UNCHANGED <<breakpoints, programRunning, command, last>>

\* END or an invalid instruction stays where it is; any other may be the one at the limit.
ExecuteInstruction ==
  /\ \/ pc' \in Successors(pc) /\ ended' \in BOOLEAN
     \/ Successors(pc) = {} /\ pc' = pc /\ ended' = TRUE
  /\ UNCHANGED started

\* Mutant: the breakpoint is looked up before the instruction moves on.
StopsBefore(at, next) == ended' \/ IsBreakpointAt(at)

Stops(at, next) == ended' \/ IsBreakpointAt(next)

RunInstruction ==
  /\ command.name = "run"
  /\ ExecuteInstruction
  /\ command' = IF Stops(pc, pc') THEN Prompt ELSE [command EXCEPT !.first = FALSE]
  /\ UNCHANGED <<breakpoints, programRunning, last>>

\* Mutant: a step without a bound counts down from 0.
StepsLeftCountsZero(left) == left - 1

StepsLeft(left) == IF left = 0 THEN 0 ELSE left - 1

StepInstruction ==
  /\ command.name = "step"
  /\ ExecuteInstruction
  /\ command' = IF ended' \/ command.left = 1 THEN Prompt
                ELSE [command EXCEPT !.left = StepsLeft(command.left), !.first = FALSE]
  /\ UNCHANGED <<breakpoints, programRunning, last>>

BreakpointCommand ==
  \/ \E sign \in {"+", "-"}, n \in Numbers : CmdBreakRelative(sign, n)
  \/ \E t \in Texts : CmdBreak(t) \/ CmdDelete(t)
  \/ CmdDeleteAll

Next ==
  \/ BreakpointCommand \/ CmdStart \/ CmdRun \/ CmdSetCommand
  \/ \E n \in StepCounts : CmdStep(n)
  \/ \E t \in Texts : CmdJump(t)
  \/ RunInstruction \/ StepInstruction

Spec == Init /\ [][Next]_vars

--------------------------------------------------------------------------------

Executing == command.name # "prompt"

\* Program counter, breakpoints and the command in progress are of their types.
TypeOK ==
  /\ pc \in Pc /\ ended \in BOOLEAN /\ breakpoints \in Seq(Pc) /\ programRunning \in BOOLEAN
  /\ command.name \in {"prompt", "run", "step"} /\ command.left \in Nat
  /\ started \in BOOLEAN

\* The address break, delete and jump take a text for; a name that is no symbol has none.
TakenFor(t, a) ==
  (LooksLikeNumber(t) /\ ReadNumber(t) = a) \/ (IsSymbol(t) /\ SymbolValue[t[2]] = a)

\* Deleting leaves no breakpoint at the address that the session takes the argument for,
\* whatever the argument is and however often that address was entered before: as a number,
\* relative to the program counter, or under other labels.  It is the address break takes
\* the same argument for; where the argument says another, see DeletesAtAddress.
DeletedIsGone ==
  last[1] = "delete" => \A a \in Pc : TakenFor(last[2], a) => ~IsBreakpointAt(a)

\* A run that goes on past its first instruction executes none at a breakpoint.
NoBreakpointPassed ==
  [][command.name = "run" /\ IsBreakpointAt(pc) => command.first]_vars

\* The session executes instructions only of a program that has been started.
ExecutesStartedProgram == Executing => started

\* What a text says, as an address: the number it is, or the value of the symbol.
Says(t, a) ==
  (t[1] # "name" /\ t[2] = a) \/ (t[1] = "name" /\ t[2] \in Symbols /\ SymbolValue[t[2]] = a)

\* "delete <label> - Delete breakpoint at <label>." and "delete address - Delete breakpoint
\* at address.", of numbers with a prefix and names of hexadecimal digits, too.
DeletesAtAddress ==
  last[1] = "delete" => \A a \in Pc : Says(last[2], a) => ~IsBreakpointAt(a)

\* "break address - Put breakpoint at absolute address".
BreakAtAddress ==
  last[1] = "break" /\ last[2][1] # "name" => IsBreakpointAt(last[2][2])

\* "Delete all breakpoints."
DeleteAllDeletes == last[1] = "delete all" => breakpoints = <<>>

\* "break -+number - Put breakpoint +- n instructions from current PC", whether n
\* counts instructions or bytes.
BreakBehind ==
  [][last' # last /\ last'[1] = "-" =>
       LET n == last'[2][2]
       IN \E a \in Pc : IsBreakpointAt(a)' /\ \E d \in {n, InstrBytes * n} :
            (a + d) % AddrSpace = pc]_vars

\* "run it till first breakpoint by 'run' command": a program that run starts is not
\* executed at a breakpoint.
RunTillFirstBreakpoint ==
  [][command.name = "run" /\ command.fresh => ~IsBreakpointAt(pc)]_vars
================================================================================
