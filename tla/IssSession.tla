-------------------------------- MODULE IssSession --------------------------------
(*****************************************************************************)
(* Two hosts of the simulator: the program spect_iss, whose main makes a     *)
(* session from its options, and the shared library, whose calls are said to *)
(* be equivalent to those options, one each.  The library keeps the first    *)
(* address and the parity in globals, which live as long as the process.     *)
(*****************************************************************************)
EXTENDS Programs

CONSTANTS Files,         \* [valid, start, ones]: source files
          HexFiles,      \* [first, words]: assembled files
          FirstAddrs, StartPcs, Limits

IssAssumption ==
  /\ None \notin {"1", "2"} /\ None \notin Files /\ None \notin HexFiles
  /\ None \notin FirstAddrs /\ None \notin StartPcs
  /\ \A f \in Files : SourceFile(f)

VARIABLES first_addr_, parity_type_,   \* the library's globals
          simulator,                   \* or None
          host,       \* "none", "library", "shell", "batch", "error" by exit code, "crashed"
          given,      \* history: the options of main, or those the calls stand for
          ordered,    \* history: calls came in the order of main
          executed    \* the command file was executed
vars == <<first_addr_, parity_type_, simulator, host, given, ordered, executed>>

\* start_pc_ and the limit start from the values of CpuModel's declaration.
NewSimulator(type) ==
  [parity |-> type, mem |-> [a \in Words |-> Erased], start |-> None, first |-> None,
   startPc |-> Base, limit |-> None, pc |-> 0, began |-> FALSE]

--------------------------------------------------------------------------------
(* main of spect_iss *)

Options == [parity : {None, "1", "2", "3"}, program : Files \cup {None},
            hex : HexFiles \cup {None}, first : FirstAddrs \cup {None},
            startPc : StartPcs \cup {None}, limit : Limits \cup {None},
            shell : BOOLEAN, cmdFile : BOOLEAN]

ParityOption(arg) == CASE arg = "1" -> "ODD" [] arg = "2" -> "EVEN" [] OTHER -> "NONE"

\* The first address is that of a source file only.
FirstAddr(o) == IF o.program # None /\ o.first # None THEN o.first ELSE Base

\* How main fails: both sources of a program, or a first address outside, are an error
\* nobody catches; those of the compilation are caught.
Failure(o) ==
  CASE (o.hex # None /\ o.program # None) \/ FirstAddr(o) \notin Base .. Base + Size -> "crashed"
    [] OTHER -> IF o.program # None /\ ~Compiles(FirstAddr(o), o.program, None) THEN "error"
                ELSE "none"

\* Memories are loaded, then the program is compiled and assembled.
Preloaded(o) ==
  LET new == NewSimulator(ParityOption(o.parity))
  IN IF o.program = None
     THEN [new EXCEPT !.mem = IF o.hex = None THEN @ ELSE WithHexFile(@, o.hex)]
     ELSE [new EXCEPT
             !.mem = Assembled(@, FirstAddr(o), o.program, new.parity),
             !.first = FirstAddr(o),
             !.start = IF o.program.start = None THEN None ELSE FirstAddr(o) + o.program.start]

\* Mutant: _start has priority.
StartPcOptionLast(o, start) ==
  CASE start # None -> start [] start = None /\ o.startPc # None -> o.startPc [] OTHER -> Base

\* --start-pc has priority over _start.
StartPcOption(o, start) ==
  CASE o.startPc # None -> o.startPc [] o.startPc = None /\ start # None -> start [] OTHER -> Base

\* 10E8
LimitOption(o) == IF o.limit = None THEN 10^9 ELSE o.limit

Main(o) ==
  LET s == Preloaded(o)
  IN [s EXCEPT !.startPc = StartPcOption(o, s.start), !.limit = LimitOption(o)]

\* Reset and Start.
Started(s) == [s EXCEPT !.pc = s.startPc, !.began = TRUE]

NoOptions == [parity |-> None, program |-> None, hex |-> None, first |-> None, startPc |-> None,
              limit |-> None, shell |-> FALSE, cmdFile |-> FALSE]

Init ==
  /\ first_addr_ = Base /\ parity_type_ = "NONE" /\ simulator = None /\ host = "none"
  /\ given = NoOptions /\ ordered = TRUE /\ executed = FALSE

\* Without --shell the program runs at once, and the command file is not looked at.
RunMain ==
  /\ host = "none" /\ given = NoOptions
  /\ \E o \in Options :
       /\ given' = o
       /\ IF Failure(o) # "none"
          THEN host' = Failure(o) /\ UNCHANGED <<simulator, executed>>
          ELSE /\ host' = IF o.shell THEN "shell" ELSE "batch"
               /\ simulator' = IF o.shell THEN Main(o) ELSE Started(Main(o))
               /\ executed' = (o.shell /\ o.cmdFile)
  /\ UNCHANGED <<first_addr_, parity_type_, ordered>>

ShellStart ==
  /\ host = "shell" /\ simulator' = Started(simulator)
  /\ UNCHANGED <<first_addr_, parity_type_, host, given, ordered, executed>>

--------------------------------------------------------------------------------
(* The library *)

Live == host = "library"

SpectIssInit ==
  /\ host = "none" /\ host' = "library"
  /\ simulator' = NewSimulator(parity_type_)
  /\ given' = [given EXCEPT !.program = None, !.hex = None, !.startPc = None]
  /\ ordered' = TRUE
  /\ UNCHANGED <<first_addr_, parity_type_, executed>>

SetFirstAddr ==
  /\ host \in {"none", "library"}
  /\ \E a \in FirstAddrs : first_addr_' = a /\ given' = [given EXCEPT !.first = a]
  /\ ordered' = (ordered /\ ~Live)
  /\ UNCHANGED <<parity_type_, simulator, host, executed>>

\* A value that is neither 1 nor 2 is ignored.
SetParityType ==
  /\ host \in {"none", "library"}
  /\ \E arg \in {"1", "2"} :
       /\ parity_type_' = ParityOption(arg) /\ given' = [given EXCEPT !.parity = arg]
  /\ ordered' = (ordered /\ ~Live)
  /\ UNCHANGED <<first_addr_, simulator, host, executed>>

\* The value of _start is read without asking whether there is one.
LoadSFile ==
  /\ Live
  /\ \E f \in Files :
       LET start == IF f.start = None THEN simulator.start ELSE first_addr_ + f.start
       IN /\ given' = [given EXCEPT !.program = f]
          /\ ordered' = (ordered /\ given.startPc = None /\ given.program = None /\ given.hex = None)
          /\ IF ~Compiles(first_addr_, f, simulator.start) THEN host' = "error" /\ UNCHANGED simulator
             ELSE IF start = None THEN host' = "crashed" /\ UNCHANGED simulator
             ELSE /\ simulator' =
                       [simulator EXCEPT
                          !.mem = Assembled(@, first_addr_, f, parity_type_),
                          !.first = first_addr_, !.start = start, !.startPc = start]
                  /\ UNCHANGED host
  /\ UNCHANGED <<first_addr_, parity_type_, executed>>

LoadHexFile ==
  /\ Live
  /\ \E hex \in HexFiles :
       /\ simulator' = [simulator EXCEPT !.mem = WithHexFile(@, hex)]
       /\ given' = [given EXCEPT !.hex = hex]
  /\ ordered' = FALSE
  /\ UNCHANGED <<first_addr_, parity_type_, host, executed>>

SetStartPc ==
  /\ Live
  /\ \E pc \in StartPcs :
       simulator' = [simulator EXCEPT !.startPc = pc] /\ given' = [given EXCEPT !.startPc = pc]
  /\ UNCHANGED <<first_addr_, parity_type_, host, ordered, executed>>

CmdStart ==
  /\ Live /\ simulator' = Started(simulator)
  /\ UNCHANGED <<first_addr_, parity_type_, host, given, ordered, executed>>

\* The globals stay.
SpectIssExit ==
  /\ Live /\ host' = "none" /\ simulator' = None
  /\ UNCHANGED <<first_addr_, parity_type_, given, ordered, executed>>

Next == \/ RunMain \/ ShellStart
        \/ SpectIssInit \/ SetFirstAddr \/ SetParityType \/ LoadSFile \/ LoadHexFile \/ SetStartPc
        \/ CmdStart \/ SpectIssExit
Spec == Init /\ [][Next]_vars

--------------------------------------------------------------------------------
(* Properties *)

TypeOK ==
  /\ first_addr_ \in FirstAddrs \cup {Base} /\ parity_type_ \in Parities
  /\ host \in {"none", "library", "shell", "batch", "error", "crashed"}
  /\ simulator # None =>
       /\ simulator.parity \in Parities
       /\ simulator.mem \in [Words -> [ones : {0, 1}, bit : {0, 1}]]

\* spect_iss --program: the first instruction fetched is the one _start stands before, and
\* the model accepts its parity, whatever --parity and --first-address say.
StartsAtStart ==
  LET o == given
      pc == simulator.pc
  IN /\ host \in {"shell", "batch"} /\ simulator.began
     /\ o.program # None /\ o.startPc = None /\ simulator.start # None
     =>   /\ pc = FirstAddr(o) + o.program.start
          /\ simulator.mem[pc].ones = o.program.ones[o.program.start + 1]
          /\ CheckParity(simulator.parity, simulator.mem[pc])

\* Library calls in the order main works in, first address and parity before
\* spect_iss_init and the start address last, make the session main makes of the options
\* they are equivalent to; also in the second session of a process.
OrderedCallsEquivalent ==
  LET s == Main(given)
  IN Live /\ ordered /\ given.program # None =>
       simulator = [s EXCEPT !.limit = None, !.pc = simulator.pc, !.began = simulator.began]

\* spect_iss_lib.h: spect_iss_set_parity_type is equivalent to --parity, by which the
\* model checks the parity the program is assembled with.
ParityEquivalent ==
  Live /\ given.program # None => simulator.parity = ParityOption(given.parity)

\* spect_iss_lib.h: spect_iss_set_start_pc is equivalent to --start-pc, which has priority
\* over _start.
StartPcEquivalent == Live /\ given.startPc # None => simulator.startPc = given.startPc

\* spect_iss_lib.h: spect_iss_load_s_file is equivalent to --program, which does without
\* a _start.
ProgramEquivalent ==
  host = "crashed" /\ ~given.shell /\ given.hex = None => Failure(given) = "crashed"

\* The usage of spect_iss: --cmd-file executes the file.
CmdFileExecuted == host \in {"shell", "batch"} /\ given.cmdFile => executed

\* The usage of spect_iss: the default limit of instructions is 10^8.
LimitAsDocumented == host \in {"shell", "batch"} /\ given.limit = None => simulator.limit = 10^8
===================================================================================
