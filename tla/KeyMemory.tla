------------------------------- MODULE KeyMemory -------------------------------
(*****************************************************************************)
(* The key memory of the simulator, class KeyMemory: slots of words with a   *)
(* status, the RAM buffer through which they are read and programmed, and    *)
(* the file a memory is dumped to and loaded from.                           *)
(*                                                                           *)
(* Each operation of the KBUS returns an error flag, which is the parameter  *)
(* error here.  Abstracted: a slot is a pair of key type and slot number,    *)
(* and its 256 words are the Parts words of each key offset.                 *)
(*****************************************************************************)
EXTENDS KeyWords

CONSTANTS
  Slots,        \* pairs of key type and slot number
  KeysPerSlot,  \* keys of a slot
  Erased,       \* 0xFFFFFFFF
  Scramble,     \* 0x0BAD1DEA
  NoKey         \* stands for the words that a file leaves out

Offsets == 0 .. KeysPerSlot - 1
Content == [Offsets -> Key]
Status  == {"EMPTY", "FULL"}

\* A file has a content for each FULL slot only.
Image == [Slots -> Content \cup {NoKey}]

ErasedContent == [o \in Offsets |-> [i \in 1 .. Parts |-> Erased]]

ASSUME KeyMemoryAssumption ==
  /\ KeysPerSlot \in Nat \ {0}
  /\ {Erased, Scramble} \subseteq Word
  /\ NoKey \notin Content

VARIABLES
  keyMem,      \* key_mem_
  slotStatus,  \* slot_status_
  ramBuffer,   \* ram_buffer_
  file         \* a file written by Dump, of this or an earlier session

memVars == <<keyMem, slotStatus, ramBuffer, file>>

KeyMemoryType ==
  /\ keyMem \in [Slots -> Content]
  /\ slotStatus \in [Slots -> Status]
  /\ ramBuffer \in Content
  /\ file \in Image

\* The constructor leaves the RAM buffer as it finds it.
KeyMemoryInit ==
  /\ keyMem = [s \in Slots |-> ErasedContent]
  /\ slotStatus = [s \in Slots |-> "EMPTY"]
  /\ ramBuffer \in Content
  /\ file \in Image

--------------------------------------------------------------------------------
(* Operations of the KBUS *)

\* Reading copies the whole slot into the RAM buffer.
Read(s, error) ==
  /\ error = (slotStatus[s] = "EMPTY")
  /\ ramBuffer' = IF error THEN ramBuffer ELSE keyMem[s]
  /\ UNCHANGED <<keyMem, slotStatus, file>>

\* Writes of the words words of key o, from the first one on.
Write(o, words, error) ==
  /\ error = FALSE
  /\ ramBuffer' = [ramBuffer EXCEPT ![o] =
       [i \in 1 .. Parts |-> IF i <= Len(words) THEN words[i] ELSE @[i]]]
  /\ UNCHANGED <<keyMem, slotStatus, file>>

\* Mutant: a FULL slot is overwritten.
ProgramOverwrites(s, error) ==
  /\ error = (slotStatus[s] = "FULL")
  /\ keyMem' = [keyMem EXCEPT ![s] = ramBuffer]
  /\ slotStatus' = [slotStatus EXCEPT ![s] = "FULL"]
  /\ UNCHANGED <<ramBuffer, file>>

Program(s, error) ==
  /\ error = (slotStatus[s] = "FULL")
  /\ IF error THEN UNCHANGED <<keyMem, slotStatus>>
     ELSE /\ keyMem' = [keyMem EXCEPT ![s] = ramBuffer]
          /\ slotStatus' = [slotStatus EXCEPT ![s] = "FULL"]
  /\ UNCHANGED <<ramBuffer, file>>

\* Mutant: only the status says that the slot is erased.
EraseKeepsWords(s, error) ==
  /\ error = FALSE
  /\ slotStatus' = [slotStatus EXCEPT ![s] = "EMPTY"]
  /\ UNCHANGED <<keyMem, ramBuffer, file>>

Erase(s, error) ==
  /\ error = FALSE
  /\ keyMem' = [keyMem EXCEPT ![s] = ErasedContent]
  /\ slotStatus' = [slotStatus EXCEPT ![s] = "EMPTY"]
  /\ UNCHANGED <<ramBuffer, file>>

\* The words decide, whatever the status.
VerifyErase(s, error) ==
  /\ error = (keyMem[s] # ErasedContent)
  /\ UNCHANGED memVars

\* rand() for each word.
Flush(error) ==
  /\ error = FALSE
  /\ ramBuffer' \in Content
  /\ UNCHANGED <<keyMem, slotStatus, file>>

--------------------------------------------------------------------------------
(* Operations of the host *)

SetWord(s, o, i, w) ==
  /\ keyMem' = [keyMem EXCEPT ![s][o][i] = w]
  /\ slotStatus' = [slotStatus EXCEPT ![s] = "FULL"]
  /\ UNCHANGED <<ramBuffer, file>>

Dump ==
  /\ file' = [s \in Slots |->
                IF slotStatus[s] = "FULL" THEN keyMem[s] ELSE NoKey]
  /\ UNCHANGED <<keyMem, slotStatus, ramBuffer>>

\* The words of a slot that the file shows EMPTY keep their values.
Load ==
  /\ keyMem' = [s \in Slots |-> IF file[s] = NoKey THEN keyMem[s] ELSE file[s]]
  /\ slotStatus' = [s \in Slots |-> IF file[s] = NoKey THEN "EMPTY" ELSE "FULL"]
  /\ UNCHANGED <<ramBuffer, file>>
================================================================================
