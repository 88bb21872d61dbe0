--------------------------------- MODULE HexFile ---------------------------------
(*****************************************************************************)
(* Hex files: class HexHandler, which loads them into the memory or into the *)
(* queue of random words and dumps memory to them, and CpuProgram::Assemble, *)
(* which writes programs.                                                    *)
(*                                                                           *)
(* A file is a sequence of lines.  What is left of a line without comment    *)
(* and spaces is nothing, a word, an address and a word, or neither.  The    *)
(* words of an assembled program are InstructionWord's business.             *)
(*****************************************************************************)
EXTENDS Integers, SequencesExt, FiniteSetsExt

CONSTANTS
  MemWords,        \* size of the address space, in words
  InstrBase,       \* SPECT_INSTR_MEM_BASE
  Vals, Codes,     \* words; programs
  UserFiles,       \* files somebody wrote
  MaxLoads         \* loads and dumps that are looked at

Byte == 4
Cells == 0 .. MemWords - 1
Addr == {Byte * c : c \in Cells}
HexTypes == {"ISS_WORD", "VERILOG_RAW_WORD", "VERILOG_ADDR_WORD"}

Blank == [kind |-> "blank"]
Bad == [kind |-> "bad"]
Raw(v) == [kind |-> "raw", val |-> v]
At(a, v) == [kind |-> "at", addr |-> a, val |-> v]

HexLines ==
  [kind : {"blank", "bad"}] \cup [kind : {"raw"}, val : Nat] \cup [kind : {"at"}, addr : Nat, val : Nat]

HexAssumption ==
  /\ MemWords \in Nat \ {0} /\ InstrBase \in Addr /\ Vals \subseteq Nat /\ 0 \in Vals
  /\ Codes \subseteq Seq(Nat) /\ UserFiles \subseteq Seq(HexLines)

VARIABLES
  memory,
  file,      \* lines
  origin,    \* history: how the file came about and what it stands for
  grvQ,
  loaded,    \* history: the last step, if it loaded the file, and the memory before
  steps

vars == <<memory, file, origin, grvQ, loaded, steps>>

NotLoaded == [how |-> "no", offset |-> 0, before |-> <<>>, ok |-> TRUE]
ByHand == [from |-> "user", type |-> "ISS_WORD", offset |-> 0, content |-> <<>>]

Init ==
  /\ memory \in [Cells -> {0}] /\ file = <<>> /\ origin = ByHand
  /\ grvQ = <<>> /\ loaded = NotLoaded /\ steps = 0

Tick == steps < MaxLoads /\ steps' = steps + 1

--------------------------------------------------------------------------------
(* Writing *)

HexLine(type, addr, val) == IF type = "VERILOG_RAW_WORD" THEN Raw(val) ELSE At(addr, val)

\* Mutant: addresses of the file are relative to the dumped region.
DumpAddrRelative(type, offset, i) == IF type = "ISS_WORD" THEN Byte * i ELSE i

DumpAddr(type, offset, i) == IF type = "ISS_WORD" THEN offset + Byte * i ELSE i

\* The words a file is to put in place.
Content(offset, words) ==
  [c \in {offset \div Byte + i - 1 : i \in DOMAIN words} |-> words[c - offset \div Byte + 1]]

Written(from, type, offset, words, addrs) ==
  /\ file' = [i \in DOMAIN words |-> HexLine(type, addrs[i], words[i])]
  /\ origin' = [from |-> from, type |-> type, offset |-> offset, content |-> Content(offset, words)]
  /\ loaded' = NotLoaded /\ UNCHANGED <<memory, grvQ>>

DumpHexFile(type, offset, size) ==
  /\ Tick /\ offset \div Byte + size <= MemWords
  /\ Written("dump", type, offset,
             [i \in 1 .. size |-> memory[offset \div Byte + i - 1]],
             [i \in 1 .. size |-> DumpAddr(type, offset, i - 1)])

ProgramAddr(type, first, i) == IF type = "ISS_WORD" THEN first + Byte * i ELSE first - InstrBase + i

Assemble(type, first, code) ==
  /\ Tick /\ first >= InstrBase /\ first \div Byte + Len(code) <= MemWords
  /\ Written("program", type, first, code,
             [i \in DOMAIN code |-> ProgramAddr(type, first, i - 1)])

WriteByHand ==
  /\ Tick /\ \E f \in UserFiles : file' = f
  /\ origin' = ByHand /\ loaded' = NotLoaded /\ UNCHANGED <<memory, grvQ>>

--------------------------------------------------------------------------------
(* Reading *)

\* The first line decides whether words go to the offset; every word moves the pointer, and
\* addresses count from it.  A line is read if none before it was bad.
ReadLine(r, l, offset) ==
  LET from == IF r.first /\ l.kind # "at" THEN offset \div Byte ELSE r.at
      place == IF l.kind = "at" THEN from + l.addr \div Byte ELSE from
  IN IF ~r.ok \/ l.kind = "blank" THEN r
     ELSE IF l.kind = "bad" THEN [r EXCEPT !.ok = FALSE]
     ELSE [at |-> IF l.kind = "at" THEN from ELSE from + 1, first |-> FALSE, ok |-> TRUE,
           places |-> r.places \cup {place},
           memory |-> [c \in Cells |-> IF c = place THEN l.val ELSE r.memory[c]]]

\* The memory, and where it was written, after all lines.
Reading(offset) ==
  LET read[n \in 0 .. Len(file)] ==
        IF n = 0 THEN [at |-> 0, first |-> TRUE, ok |-> TRUE, memory |-> memory, places |-> {}]
        ELSE ReadLine(read[n - 1], file[n], offset)
  IN read[Len(file)]

\* Outside the memory the code writes somewhere else; such files are not looked at.
LoadHexFile(offset) ==
  LET r == Reading(offset) IN
    /\ Tick /\ r.places \subseteq Cells
    /\ memory' = r.memory
    /\ loaded' = [how |-> "memory", offset |-> offset, before |-> memory, ok |-> r.ok]
    /\ UNCHANGED <<file, origin, grvQ>>

\* spect_dpi_load_hex_file returns 0, or does not return.
Returned == IF loaded.ok THEN {0} ELSE {}

\* Random words: a line that is no number counts as 0, an address is an error.
Filled(f) == SelectSeq(f, LAMBDA l : l.kind # "blank")
Lines == Filled(file)
WordOf(l) == IF l.kind = "raw" THEN l.val ELSE 0

Addressed == {k \in DOMAIN Lines : Lines[k].kind = "at"}

Pushed == IF Addressed = {} THEN [k \in DOMAIN Lines |-> WordOf(Lines[k])] ELSE <<>>

LoadGrv ==
  /\ Tick /\ grvQ' = grvQ \o Pushed
  /\ loaded' = [how |-> "grv", offset |-> 0, before |-> grvQ, ok |-> Addressed = {}]
  /\ UNCHANGED <<memory, file, origin>>

StoreWord ==
  /\ Tick /\ \E c \in Cells, v \in Vals : memory' = [memory EXCEPT ![c] = v]
  /\ loaded' = NotLoaded /\ UNCHANGED <<file, origin, grvQ>>

Next ==
  \/ \E type \in HexTypes, a \in Addr, n \in 1 .. MemWords : DumpHexFile(type, a, n)
  \/ \E type \in HexTypes, a \in Addr, code \in Codes : Assemble(type, a, code)
  \/ \E a \in Addr : LoadHexFile(a)
  \/ WriteByHand \/ LoadGrv \/ StoreWord

Spec == Init /\ [][Next]_vars

--------------------------------------------------------------------------------

Loadable ==
  \/ origin.type = "ISS_WORD"
  \/ origin.type = "VERILOG_RAW_WORD" /\ loaded.offset = origin.offset

\* A dump or a program written for the simulator comes back to where it was written for,
\* whatever offset it is loaded with, and one without addresses does at its offset;
\* nothing else changes.
FileLands ==
  (loaded.how = "memory" /\ origin.from # "user" /\ Loadable) =>
    \A c \in Cells :
      memory[c] = IF c \in DOMAIN origin.content THEN origin.content[c] ELSE loaded.before[c]

\* The lines that are read: those before the first bad one.
GoodLines == {k \in DOMAIN file : \A j \in 1 .. k : file[j].kind # "bad"}

\* A bad line ends the load: by then the words before it are in the memory, at the offset if
\* no line so far has an address, and no word behind it ever is.
BadLineEndsLoad ==
  loaded.how = "memory" =>
    /\ loaded.ok <=> GoodLines = DOMAIN file
    /\ \A c \in Cells : memory[c] # loaded.before[c] =>
         \E k \in GoodLines : file[k].kind \in {"raw", "at"} /\ file[k].val = memory[c]
    /\ (\A k \in GoodLines : file[k].kind = "raw") =>
         \A k \in GoodLines, c \in Cells :
           c = loaded.offset \div Byte + k - 1 => memory[c] = file[k].val

\* A file of random words pushes all of its words in order, or nothing if it is rejected.
QueueAllOrNothing ==
  loaded.how = "grv" =>
    grvQ = loaded.before \o
      IF loaded.ok THEN [k \in DOMAIN Lines |-> WordOf(Lines[k])] ELSE <<>>

\* "Absolute address in the HEX file": an addressed line at the end of a file decides what
\* the word at its address is.
AddressesAbsolute ==
  (loaded.how = "memory" /\ loaded.ok /\ file # <<>> /\ Last(file).kind = "at")
    => memory[Last(file).addr \div Byte] = Last(file).val

\* "@throw std::runtime_error ... when it has invalid format".
InvalidRejected ==
  (loaded.how = "grv" /\ \E k \in DOMAIN file : file[k].kind = "bad") => ~loaded.ok

\* "non-zero - Loading of assembly failed."
FailureReturned == (loaded.how = "memory" /\ ~loaded.ok) => \E r \in Returned : r # 0

\* "+0x1 for each address ... First address is relative to base address of memory."
VerilogAddresses ==
  (origin.from = "program" /\ origin.type = "VERILOG_ADDR_WORD") =>
    \A k \in DOMAIN file :
      LET c == InstrBase \div Byte + file[k].addr
      IN c \in DOMAIN origin.content /\ origin.content[c] = file[k].val
================================================================================
