------------------------------- MODULE ContextFile -------------------------------
(*****************************************************************************)
(* The context of the core in a file: DumpContext at the end of a simulator  *)
(* process (--dump-context), LoadContext whenever a program of a later one   *)
(* starts (--load-context).                                                  *)
(*                                                                           *)
(* The file is a sequence of lines: three comment lines, then one number per *)
(* line, as the digits of a base.  The reader skips and counts lines; it     *)
(* never looks at the comments.                                              *)
(*****************************************************************************)
EXTENDS Integers, Sequences, SequencesExt

CONSTANTS
  NumRegs, HashWords, StateLines, BytesPerLine, RarDepth, RamIn, RamOut,  \* counts
  Gprs, HashVals, Bytes, Rates, Indices, Pcs, Words,                      \* values
  Widest, Width, \* the widest number of a file and its decimal digits
  MaxWork,       \* changes of one element, by all programs together
  MaxProcesses

StateBytes == StateLines * BytesPerLine
ByteBase == 256
Hex == 16
Dec == 10

Repeated(v, n) == [k \in 1 .. n |-> v]

--------------------------------------------------------------------------------
(* Numbers as text *)

\* What is left of n after each of some divisions.
Rests(n, base, width) ==
  LET rest[k \in 0 .. width] == IF k = 0 THEN n ELSE rest[k - 1] \div base
  IN rest

\* The digits of n, the highest first.
Digits(n, base, width) ==
  LET rest == Rests(n, base, width) IN [k \in 1 .. width |-> rest[width - k] % base]

Number(t, base) ==
  LET value[k \in 0 .. Len(t)] == IF k = 0 THEN 0 ELSE value[k - 1] * base + t[k]
  IN value[Len(t)]

Text(n, base) == Digits(n, base, Width)
Texts(s, base) == [k \in DOMAIN s |-> Text(s[k], base)]

CounterText(n) == Text(n, Dec)

\* A line of the sponge's state: the first byte is the highest.
PackedLine(c, i) == Number([j \in 1 .. BytesPerLine |-> c.state[i * BytesPerLine + j]], ByteBase)

Unpacked(n, j) == Digits(n, ByteBase, BytesPerLine)[j]

--------------------------------------------------------------------------------

\* Every number and every line of bytes has at most Width digits.
ContextAssumption ==
  /\ {NumRegs, HashWords, StateLines, BytesPerLine, RarDepth, RamIn, RamOut} \subseteq Nat \ {0}
  /\ Gprs \cup HashVals \cup Rates \cup Indices \cup Pcs \cup Words \subseteq 0 .. Widest
  /\ Bytes \subseteq 0 .. ByteBase - 1 /\ 0 \in Gprs \cap Pcs
  /\ {} \notin {HashVals, Bytes, Rates, Indices, Words}
  /\ Widest \in Nat /\ Width \in Nat /\ RarDepth <= Widest
  /\ Number(Repeated(ByteBase - 1, BytesPerLine), ByteBase) <= Widest
  /\ Rests(Widest, Dec, Width)[Width] = 0

VARIABLES
  core,          \* what the file is about, and the rest of the memory
  file,          \* the context file; << >> before it is written
  withContext,   \* model_context_ is set
  running, work, processes,
  saved,         \* history: the core at the last dump
  fresh          \* history: the last step was a start with a context

vars == <<core, file, withContext, running, work, processes, saved, fresh>>

Parts ==
  [gpr |-> [len |-> NumRegs, of |-> Gprs], sha |-> [len |-> HashWords, of |-> HashVals],
   state |-> [len |-> StateBytes, of |-> Bytes], rate |-> [len |-> 1, of |-> Rates],
   index |-> [len |-> 1, of |-> Indices], squeezing |-> [len |-> 1, of |-> {0, 1}],
   rar |-> [len |-> RarDepth, of |-> Pcs], sp |-> [len |-> 1, of |-> 0 .. RarDepth],
   flags |-> [len |-> 3, of |-> {0, 1}], ramIn |-> [len |-> RamIn, of |-> Words],
   ramOut |-> [len |-> RamOut, of |-> Words], emem |-> [len |-> 1, of |-> Words]]

SavedParts == DOMAIN Parts \ {"emem"}

\* Nothing is initialised but what the constructor resets: each part may hold anything.
Uninitialised == {[p \in DOMAIN Parts |-> Repeated(v[p], Parts[p].len)] :
                    v \in {[p \in DOMAIN Parts |-> CHOOSE x \in Parts[p].of : TRUE],
                           [p \in DOMAIN Parts |-> CHOOSE x \in Parts[p].of :
                                                     \A y \in Parts[p].of : y <= x]}}

HashStart == Repeated(CHOOSE x \in HashVals : \A y \in HashVals : x <= y, HashWords)

\* Memory and the sponge stay.
Reset(c) ==
  [c EXCEPT !.gpr = Repeated(0, NumRegs), !.flags = Repeated(0, 3),
            !.rar = Repeated(0, RarDepth), !.sp = <<0>>, !.sha = HashStart]

--------------------------------------------------------------------------------
(* Writing *)

CommentLine == <<>>
Section(lines) == Repeated(CommentLine, 3) \o lines

TmacLines(c) ==
  [i \in 1 .. StateLines |-> Text(PackedLine(c, i - 1), Hex)]
    \o <<CounterText(c.rate[1]), CounterText(c.index[1]), CounterText(c.squeezing[1])>>

DumpContext(c) ==
  Section(Texts(c.gpr, Hex)) \o Section(Texts(c.sha, Hex)) \o Section(TmacLines(c))
    \o Section(Texts(c.rar, Hex)) \o Section(Texts(c.sp, Hex)) \o Section(Texts(c.flags, Hex))
    \o Section(Texts(c.ramIn, Hex)) \o Section(Texts(c.ramOut, Hex))

--------------------------------------------------------------------------------
(* Reading *)

\* Lines of each section the reader takes.
Taken == <<NumRegs, HashWords, StateLines + 3, RarDepth, 1, 3, RamIn, RamOut>>
LinesThrough[s \in 0 .. 8] == IF s = 0 THEN 0 ELSE LinesThrough[s - 1] + 3 + Taken[s]
LinesBefore(s) == LinesThrough[s - 1] + 3

Read(f, s, k, base) == Number(f[LinesBefore(s) + k], base)
ReadAll(f, s, n, base) == [k \in 1 .. n |-> Read(f, s, k, base)]

LoadContext(c, f) ==
  [c EXCEPT
     !.gpr = ReadAll(f, 1, NumRegs, Hex),
     !.sha = ReadAll(f, 2, HashWords, Hex),
     !.state = [b \in 1 .. StateBytes |->
                  Unpacked(Read(f, 3, (b - 1) \div BytesPerLine + 1, Hex), ((b - 1) % BytesPerLine) + 1)],
     !.rate = <<Read(f, 3, StateLines + 1, Dec)>>,
     !.index = <<Read(f, 3, StateLines + 2, Dec)>>,
     !.squeezing = <<Read(f, 3, StateLines + 3, Dec)>>,
     !.rar = ReadAll(f, 4, RarDepth, Hex),
     !.sp = <<Read(f, 5, 1, Hex)>>,
     !.flags = ReadAll(f, 6, 3, Dec),
     !.ramIn = ReadAll(f, 7, RamIn, Hex),
     !.ramOut = ReadAll(f, 8, RamOut, Hex)]

--------------------------------------------------------------------------------
(* Simulator processes *)

Init ==
  /\ core \in {Reset(c) : c \in Uninitialised} /\ file = <<>> /\ withContext = FALSE
  /\ running = FALSE /\ work = 0 /\ processes = 1
  /\ saved = core /\ fresh = FALSE

\* --data-ram-in and --emem-in are loaded before the program starts.
Preload ==
  /\ ~running
  /\ \E p \in {"ramIn", "emem"} : \E w \in Words :
       core' = [core EXCEPT ![p] = Repeated(w, Parts[p].len)]
  /\ fresh' = FALSE /\ UNCHANGED <<file, withContext, running, work, processes, saved>>

\* Mutant: the context is loaded before the reset.
BeganLoadFirst(c) == Reset(IF withContext THEN LoadContext(c, file) ELSE c)

Began(c) == IF withContext THEN LoadContext(Reset(c), file) ELSE Reset(c)

\* start, the first run, and a batch; start may come again at any time.
StartProgram ==
  /\ core' = Began(core) /\ running' = TRUE /\ fresh' = withContext
  /\ UNCHANGED <<file, withContext, work, processes, saved>>

\* An instruction, or a command of the session, gives one element another value.
Execute ==
  /\ running /\ work < MaxWork /\ work' = work + 1
  /\ \E p \in DOMAIN Parts : \E k \in 1 .. Parts[p].len, v \in Parts[p].of :
       core' = [core EXCEPT ![p][k] = v]
  /\ fresh' = FALSE /\ UNCHANGED <<file, withContext, running, processes, saved>>

\* The process dumps the context and ends; another one begins, with the file or without.
ExitAndBoot ==
  /\ processes < MaxProcesses /\ processes' = processes + 1
  /\ file' = DumpContext(core) /\ saved' = core
  /\ core' \in {Reset(c) : c \in Uninitialised} /\ withContext' \in BOOLEAN
  /\ running' = FALSE /\ fresh' = FALSE /\ UNCHANGED work

Next == Preload \/ StartProgram \/ Execute \/ ExitAndBoot

Spec == Init /\ [][Next]_vars

--------------------------------------------------------------------------------

\* Wherever a session starts its program from a context, whatever it ran, loaded or
\* started before, the core is what it was when the context was dumped, in every part
\* the file has.
StartsFromContext == fresh => \A p \in SavedParts : core[p] = saved[p]

\* "Load context (state of CPU - GPR registers, Memory content, Hash unit context, RAR
\* stack) before execution from file."
MemoryFromContext == fresh => \A p \in {"ramIn", "ramOut", "emem"} : core[p] = saved[p]
================================================================================
