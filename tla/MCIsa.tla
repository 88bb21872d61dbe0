---------------------------------- MODULE MCIsa ----------------------------------
(*****************************************************************************)
(* Small instances of the data path, one per part of it: the part is chosen  *)
(* at the beginning, and each has the registers and the memory it needs.     *)
(*   alu     arithmetic, logic, shifts, moves: three registers, no memory    *)
(*   memory  loads, stores and all calls of the host: regions that touch     *)
(*   units   random words, hash, MAC, key bus                                *)
(*   v1      instruction set version 1 with two words of memory              *)
(* A register has two words of one bit.                                      *)
(*****************************************************************************)
EXTENDS WordArith, Sequences

CONSTANTS
  AluRegs, NumRegs,                             \* registers of the alu part, of the others
  AddrSpace, BytesPerWord, Base, Size,          \* memory of the memory part
  SmallSpace, SmallWord, SmallBase, SmallSize,  \* of the others
  V1Memories,                                   \* its first contents in the v1 part
  MaxGrv, BusGrv,                               \* random words in units and v1, in memory
  HashContext, HashStart, HashUpdate(_, _),
  Sponge, SpongeStart, Absorbed(_, _), Squeezed(_), Permuted(_),
  InstrMemAhbW, MaxChanges, P25519, P256, RateBits, KeyWord

VARIABLES gpr, flags, memory, grvQ, sha512, keccak, changeReporting, changes, silent, part

data == <<gpr, flags, memory, grvQ, sha512, keccak>>
vars == <<data, changeReporting, changes, silent, part>>

\* Two hash contexts, the second after a message that continues the first; a sponge
\* of one bit.
MCContexts == {<<0, 0>>, <<1, 2>>}
MCHashStart == <<0, 0>>
MCHashUpdate(h, m) == IF m[0] = h[1] THEN <<1, 2>> ELSE <<0, 0>>
MCSponge == {0, 1}
MCAbsorbed(s, x) == (s + x[1]) % 2
MCSqueezed(s) == 3 * s
MCPermuted(s) == 1 - s

NoRegions == [m \in {"DATA_RAM_IN", "DATA_RAM_OUT", "CONFIG_REGS", "CONST_ROM",
                     "EMEM_IN", "EMEM_OUT", "INSTR_MEM"} |-> 0]

\* Words of two bytes; regions in the order of the code that touch, the last one
\* shorter than its word, as the register block of the code is.
MCBase == [DATA_RAM_IN |-> 0, DATA_RAM_OUT |-> 2, CONFIG_REGS |-> 4, CONST_ROM |-> 4,
           EMEM_IN |-> 4, EMEM_OUT |-> 6, INSTR_MEM |-> 8]
MCSize == [DATA_RAM_IN |-> 2, DATA_RAM_OUT |-> 2, CONFIG_REGS |-> 0, CONST_ROM |-> 0,
           EMEM_IN |-> 2, EMEM_OUT |-> 2, INSTR_MEM |-> 1]

\* Two words; the core writes one of them.
MCSmallBase == [NoRegions EXCEPT !["DATA_RAM_OUT"] = 1]
MCSmallSize == [NoRegions EXCEPT !["DATA_RAM_IN"] = 1]
MCV1Memories == {[c \in {0, 1} |-> IF c = 0 THEN w ELSE 0] : w \in {0, 1}}
MCKeyWord == {0, 1}

Alu == INSTANCE IsaV2 WITH NumRegs <- AluRegs, AddrSpace <- SmallSpace, BytesPerWord <- SmallWord,
         Base <- SmallBase, Size <- SmallSize
Memory == INSTANCE IsaV2 WITH MaxGrv <- BusGrv
Units == INSTANCE IsaV2 WITH AddrSpace <- SmallSpace, BytesPerWord <- SmallWord,
           Base <- SmallBase, Size <- SmallSize
V1 == INSTANCE IsaV1 WITH AddrSpace <- SmallSpace, BytesPerWord <- SmallWord,
        Base <- SmallBase, Size <- SmallSize

ASSUME PartAssumption ==
  /\ Alu!CoreAssumption /\ Memory!CoreAssumption /\ Units!CoreAssumption /\ V1!CoreAssumption
  /\ V1Memories \subseteq [V1!Cells -> Word]

\* Arithmetic, loads and stores need no sponge; the alu and the units no memory.
Quiet == ~keccak.squeezing /\ keccak.sponge = SpongeStart
NoMemory == \A c \in Units!Cells : memory[c] = 0
Init ==
  \/ part = "alu" /\ Alu!InitCore /\ NoMemory /\ Quiet
  \/ part = "memory" /\ Memory!InitCore /\ Quiet
  \/ part = "units" /\ Units!InitCore /\ NoMemory
  \/ part = "v1" /\ V1!InitCore /\ memory \in V1Memories /\ Quiet

Testbench == Units!ConsumeChange \/ \E on \in BOOLEAN : Units!SetChangeReporting(on)
RandomWords == \E d \in Units!Word : Units!GrvQueuePush(d)
NoneUnread == Len(changes) <= MaxChanges

Next ==
  /\ \/ part = "alu" /\ Alu!Aloud((NoneUnread /\ Alu!ExecuteAlu) \/ Testbench)
     \/ part = "memory" /\ \/ Memory!Aloud((NoneUnread /\ Memory!ExecuteMemory) \/ Memory!ReportingCall)
                           \/ NoneUnread /\ Memory!Silent
     \/ part = "units" /\ Units!Aloud((NoneUnread /\ Units!ExecuteUnits) \/ RandomWords \/ Testbench)
     \/ part = "v1" /\ V1!Aloud(V1!Execute \/ (RandomWords /\ grvQ = <<>>) \/ Testbench)
  /\ UNCHANGED part

MCSpec == Init /\ [][Next]_vars

\* Registers, flags, memory, queues and contexts of the chosen part are of their types.
PartTypeOK ==
  CASE part = "alu" -> Alu!TypeOK [] part = "memory" -> Memory!TypeOK
    [] part = "units" -> Units!TypeOK [] part = "v1" -> V1!TypeOK

\* A testbench that mirrors the core from the change queue is right after every
\* instruction and every call that reports: the entries of each step lead from the old
\* value of every register, flag and memory word to the new one, in version 1 with at most
\* one entry for a register, a swap with itself included (ReportChange).
PartChangesTold ==
  [][CASE part = "alu" -> Alu!Told [] part = "memory" -> Memory!Told
       [] part = "units" -> Units!Told [] part = "v1" -> V1!Told /\ V1!RegistersOnce]_vars
================================================================================
