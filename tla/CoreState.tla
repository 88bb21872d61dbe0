-------------------------------- MODULE CoreState --------------------------------
(*****************************************************************************)
(* The data of class CpuModel, how the core, the bus and the host reach it,  *)
(* and the queue in which changes of it are reported: registers, flags,      *)
(* memory, the queue of random words, the hash and MAC contexts.             *)
(*                                                                           *)
(* An address counts bytes and wraps (uint16_t); the memory is an array of   *)
(* words, so the low part of an address selects nothing.  The hash function  *)
(* and the sponge permutation are parameters: what matters here is the state *)
(* they keep between instructions.  Registers and interrupt outputs of the   *)
(* CONFIG region are those of CpuControl; here a write there may reset.      *)
(*****************************************************************************)
EXTENDS WordArith, SequencesExt

CONSTANTS
  NumRegs,                  \* R0 .. R31
  AddrSpace, BytesPerWord,  \* 64 KB, 4
  Base, Size,               \* of each region, in bytes
  InstrMemAhbW,             \* instruction memory writable over AHB
  HashContext, HashStart, HashUpdate(_, _),
  Sponge, SpongeStart, Absorbed(_, _), Squeezed(_), Permuted(_),
  MaxGrv,                   \* bound of grv_q_
  MaxChanges                \* an instruction or a bus write waits until no more are unread

Regs  == 0 .. NumRegs - 1
R31   == NumRegs - 1
Addr  == 0 .. AddrSpace - 1
Cells == 0 .. AddrSpace \div BytesPerWord - 1

ZERO  == 1
CARRY == 2
ERROR == 4
Flags == {ZERO, CARRY, ERROR}

CpuMemory == {"DATA_RAM_IN", "DATA_RAM_OUT", "CONFIG_REGS", "CONST_ROM",
              "EMEM_IN", "EMEM_OUT", "INSTR_MEM"}

VARIABLES
  gpr, flags, memory,
  grvQ,                 \* grv_q_
  sha512,               \* first and second half of the context words
  keccak,               \* [squeezing, sponge]
  changeReporting, changes,  \* change_reporting_, change_q_
  silent                \* history: the last step was a call that reports nothing

data == <<gpr, flags, memory, grvQ, sha512, keccak>>
vars == <<data, changeReporting, changes, silent>>

--------------------------------------------------------------------------------
(* The memory map *)

Within(m, a) == Base[m] <= a /\ a < (Base[m] + Size[m]) % AddrSpace
Cell(a) == a \div BytesPerWord

\* What the core's data port, its fetch port and the bus see at an address.
ReadMemoryCoreData(a) ==
  IF \E m \in {"DATA_RAM_IN", "CONST_ROM", "EMEM_IN"} : Within(m, a)
  THEN memory[Cell(a)] ELSE 0

CoreWritable(a) == \E m \in {"DATA_RAM_IN", "DATA_RAM_OUT", "EMEM_OUT"} : Within(m, a)

AhbWritable(a) == Within("DATA_RAM_IN", a) \/ (Within("INSTR_MEM", a) /\ InstrMemAhbW)

\* The addresses of the words of a register that is loaded from or stored to a, in
\* order; the address wraps.
WordAddr(a, i) == (a + BytesPerWord * i) % AddrSpace

\* A register fits in the address space; a word belongs to one memory at most, also where
\* a region ends inside it.
CoreAssumption ==
  /\ {NumRegs, AddrSpace, BytesPerWord} \subseteq Nat \ {0} /\ NumRegs >= 2
  /\ AddrSpace % BytesPerWord = 0 /\ Words * BytesPerWord <= AddrSpace
  /\ {Base, Size} \subseteq [CpuMemory -> Addr]
  /\ \A m, n \in CpuMemory : \A a, b \in Addr :
       Within(m, a) /\ Within(n, b) /\ Cell(a) = Cell(b) => m = n
  /\ MaxGrv \in Nat /\ MaxChanges \in Nat /\ InstrMemAhbW \in BOOLEAN
  /\ HashContext \subseteq Gpr \X Gpr /\ HashStart \in HashContext
  /\ SpongeStart \in Sponge

--------------------------------------------------------------------------------
(* Changes and their report *)

Change == [kind : {"GPR", "FLAG", "MEM", "RBUS", "KBUS"}, obj : Nat, old : Nat, new : Nat]

Entry(kind, obj, old, new) == [kind |-> kind, obj |-> obj, old |-> old, new |-> new]

\* Changes of register r and flag f to their values in g and fl.
GprEntry(r, g)   == <<Entry("GPR", r, gpr[r], g[r])>>
FlagEntry(f, fl) == <<Entry("FLAG", f, flags[f], fl[f])>>

ReportChanges(chs) == changes' = IF changeReporting THEN changes \o chs ELSE changes

\* The end of an instruction that stores at most registers and flags, and what it
\* reports.
Retire(g, fl, chs) ==
  /\ gpr' = g /\ flags' = fl /\ ReportChanges(chs)
  /\ UNCHANGED <<memory, sha512, keccak, changeReporting>>

SetGpr(r, v) == [gpr EXCEPT ![r] = v]
SetGpr2(r, v, s, w) == [gpr EXCEPT ![r] = v, ![s] = w]
SetCpuFlag(f, cond) == [flags EXCEPT ![f] = IF cond THEN 1 ELSE 0]

\* One register, one flag, or both are stored and reported.
PutGpr(r, v) ==
  LET g == SetGpr(r, v) IN Retire(g, flags, GprEntry(r, g)) /\ UNCHANGED grvQ
PutFlag(f, cond) ==
  LET fl == SetCpuFlag(f, cond) IN Retire(gpr, fl, FlagEntry(f, fl)) /\ UNCHANGED grvQ
PutBoth(r, v, f, cond) ==
  LET g == SetGpr(r, v)
      fl == SetCpuFlag(f, cond)
  IN Retire(g, fl, GprEntry(r, g) \o FlagEntry(f, fl)) /\ UNCHANGED grvQ

\* A double width result: the low half in r, the high half in the next register.
Next1(r) == (r + 1) % NumRegs
PutPair(r, v) ==
  LET g == SetGpr2(r, Low(v), Next1(r), High(v))
  IN Retire(g, flags, GprEntry(r, g) \o GprEntry(Next1(r), g)) /\ UNCHANGED grvQ

\* A register assembled from words, word 0 lowest.
FromWords(w) == MapThenSumSet(LAMBDA i : w[i] * 2^(i * WordBits), 0 .. Words - 1)

--------------------------------------------------------------------------------
(* Loads and stores of a register *)

LoadedGpr(a) == FromWords([i \in 0 .. Words - 1 |-> ReadMemoryCoreData(WordAddr(a, i))])

\* Words read from the external memory are reported, without any value.
LoadEntries(a) ==
  FlattenSeq([k \in 1 .. Words |->
    LET w == WordAddr(a, k - 1)
    IN IF Within("EMEM_IN", w) THEN <<Entry("MEM", w, 0, 0)>> ELSE <<>>])

Stored(a) == {i \in 0 .. Words - 1 : CoreWritable(WordAddr(a, i))}

StoredMemory(a, v) ==
  [c \in Cells |->
     LET here == {i \in Stored(a) : Cell(WordAddr(a, i)) = c}
     IN IF here = {} THEN memory[c] ELSE Part(v, Max(here))]

\* The old word of the external memory is not reported.
StoreEntries(a, v) ==
  FlattenSeq([k \in 1 .. Words |->
    LET w == WordAddr(a, k - 1)
        old == IF Within("EMEM_OUT", w) THEN 0 ELSE memory[Cell(w)]
    IN IF CoreWritable(w) THEN <<Entry("MEM", w, old, Part(v, k - 1))>> ELSE <<>>])

Load(r1, a) ==
  LET g == SetGpr(r1, LoadedGpr(a))
  IN Retire(g, flags, LoadEntries(a) \o GprEntry(r1, g)) /\ UNCHANGED grvQ

Store(r1, a) ==
  /\ memory' = StoredMemory(a, gpr[r1]) /\ ReportChanges(StoreEntries(a, gpr[r1]))
  /\ UNCHANGED <<gpr, flags, grvQ, sha512, keccak, changeReporting>>

--------------------------------------------------------------------------------
(* Random words and the hash *)

GrvQueuePop(i) == IF i < Len(grvQ) THEN grvQ[i + 1] ELSE 0
GrvQueueRest == SubSeq(grvQ, Words + 1, Len(grvQ))

\* Four registers in, highest first; the first half of the context goes to the
\* register behind op1.
Message(r2) == [i \in 0 .. 3 |-> gpr[(r2 + 3 - i) % NumRegs]]

HashInto(r1, r2) ==
  LET h == HashUpdate(sha512, Message(r2))
      g == SetGpr2(Next1(r1), h[1], r1, h[2])
  IN /\ gpr' = g /\ sha512' = h
     /\ ReportChanges(GprEntry(r1, g) \o GprEntry(Next1(r1), g))
     /\ UNCHANGED <<flags, memory, grvQ, keccak, changeReporting>>

--------------------------------------------------------------------------------
(* The host *)

\* Reset keeps the memory, the queues and the MAC.
ResetData ==
  /\ gpr' = [r \in Regs |-> 0] /\ flags' = [f \in Flags |-> 0]
  /\ sha512' = HashStart
  /\ UNCHANGED <<grvQ, keccak, changeReporting, changes>>

\* Called by the host; a write over the bus to the soft reset bit of the register block
\* comes to the same.
Reset == ResetData /\ UNCHANGED memory

\* A write over the bus that does not reset.
WriteMemoryAhb(a, d) ==
  /\ memory' = IF AhbWritable(a) THEN [memory EXCEPT ![Cell(a)] = d] ELSE memory
  /\ Len(changes) <= MaxChanges
  /\ ReportChanges(IF AhbWritable(a) THEN <<Entry("MEM", a, memory[Cell(a)], d)>> ELSE <<>>)
  /\ UNCHANGED <<gpr, flags, grvQ, sha512, keccak, changeReporting>>

\* A direct write, by the debugger or a file; in the register block it may be a
\* soft reset.
SetMemory(a, d) ==
  /\ memory' = [memory EXCEPT ![Cell(a)] = d]
  /\ \/ UNCHANGED <<gpr, flags, grvQ, sha512, keccak, changeReporting, changes>>
     \/ Within("CONFIG_REGS", a) /\ ResetData

\* spect_dpi_set_gpr_part replaces one word of a register.
SetGprPart(r, i, d) ==
  /\ gpr' = SetGpr(r, FromWords([j \in 0 .. Words - 1 |-> IF j = i THEN d ELSE Part(gpr[r], j)]))
  /\ UNCHANGED <<flags, memory, grvQ, sha512, keccak, changeReporting, changes>>

GrvQueuePush(d) ==
  /\ Len(grvQ) < MaxGrv /\ grvQ' = Append(grvQ, d)
  /\ UNCHANGED <<gpr, flags, memory, sha512, keccak, changeReporting, changes>>

SetChangeReporting(on) == changeReporting' = on /\ UNCHANGED <<data, changes>>

ConsumeChange ==
  changes # <<>> /\ changes' = Tail(changes) /\ UNCHANGED <<data, changeReporting>>

\* Calls that write state and report nothing.
SilentCall ==
  \/ Reset
  \/ \E a \in Addr, d \in Word : SetMemory(a, d)
  \/ \E r \in Regs, i \in 0 .. Words - 1, d \in Word : SetGprPart(r, i, d)

ReportingCall ==
  \/ \E a \in Addr, d \in Word : WriteMemoryAhb(a, d)
  \/ \E d \in Word : GrvQueuePush(d)
  \/ \E on \in BOOLEAN : SetChangeReporting(on)
  \/ ConsumeChange

Silent    == SilentCall /\ silent' = TRUE
Aloud(A)  == A /\ silent' = FALSE
HostCall  == Aloud(ReportingCall) \/ Silent

\* The constructor resets the core and initialises neither memory nor the MAC.
InitCore ==
  /\ gpr = [r \in Regs |-> 0] /\ flags = [f \in Flags |-> 0] /\ memory \in [Cells -> Word]
  /\ grvQ = <<>> /\ sha512 = HashStart
  /\ keccak \in [squeezing : BOOLEAN, sponge : Sponge]
  /\ changeReporting = FALSE /\ changes = <<>> /\ silent = FALSE

--------------------------------------------------------------------------------
(* What the testbench relies on *)

\* Every register, flag, hash and MAC context, memory word and queue is of its type.
TypeOK ==
  /\ gpr \in [Regs -> Gpr] /\ flags \in [Flags -> {0, 1}] /\ memory \in [Cells -> Word]
  /\ grvQ \in Seq(Word) /\ sha512 \in HashContext
  /\ keccak \in [squeezing : BOOLEAN, sponge : Sponge]
  /\ changeReporting \in BOOLEAN /\ changes \in Seq(Change) /\ silent \in BOOLEAN

\* The new entries of the queue, and those among them that concern an object.
NewEntries == SubSeq(changes', Len(changes) + 1, Len(changes'))
About(chs, kind, objs) == {k \in DOMAIN chs : chs[k].kind = kind /\ chs[k].obj \in objs}

\* Entries ks of chs lead from the value before to the value after: the first has the
\* old value, each the value the next one starts from, the last the new value; without
\* an entry the value is the same.
Leads(chs, ks, before, after) ==
  /\ ks = {} => after = before
  /\ \A k \in ks :
       /\ (\A j \in ks : j >= k) => chs[k].old = before
       /\ (\A j \in ks : j <= k) => chs[k].new = after
       /\ \A j \in ks : (j < k /\ ~\E l \in ks : j < l /\ l < k) => chs[k].old = chs[j].new

\* What a step reports replays to what it did to registers and flags, though operands
\* may coincide and an instruction may stop half way.
RegistersTold ==
  changeReporting =>
    /\ \A r \in Regs : Leads(NewEntries, About(NewEntries, "GPR", {r}), gpr[r], gpr'[r])
    /\ \A f \in Flags : Leads(NewEntries, About(NewEntries, "FLAG", {f}), flags[f], flags'[f])

\* The addresses of a memory word.
AddrsOf(c) == {a \in Addr : Cell(a) = c}
External(c) == \E a \in AddrsOf(c), m \in {"EMEM_IN", "EMEM_OUT"} : Within(m, a)

\* The same of the words of the SPECT's own memories.
MemoryTold ==
  changeReporting =>
    \A c \in Cells :
      ~External(c) => Leads(NewEntries, About(NewEntries, "MEM", AddrsOf(c)), memory[c], memory'[c])

\* What the core writes to the external memory is reported, in order, as it is.
OutputTold ==
  changeReporting =>
    \A c \in Cells :
      LET ks == About(NewEntries, "MEM", {a \in AddrsOf(c) : Within("EMEM_OUT", a)})
      IN IF ks = {} THEN External(c) => memory'[c] = memory[c]
         ELSE NewEntries[Max(ks)].new = memory'[c]

\* Every step but a silent call reports all it does.
Told == silent' \/ (RegistersTold /\ MemoryTold /\ OutputTold)
ChangesTold == [][Told]_vars

\* An entry for a memory word has the word's values as old and new.
MemoryEntriesTrue ==
  \A k \in DOMAIN NewEntries :
    LET e == NewEntries[k]
    IN e.kind = "MEM" => e.old = memory[Cell(e.obj)] /\ e.new = memory'[Cell(e.obj)]

\* The comment on the old and new values says so of memory; no exception is made for
\* the external memories.
MemoryEntriesHaveValues == [][MemoryEntriesTrue]_vars
================================================================================
