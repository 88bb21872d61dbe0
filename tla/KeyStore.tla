-------------------------------- MODULE KeyStore -------------------------------
(*****************************************************************************)
(* What a SPECT program and the host may rely on when they keep keys: slots  *)
(* that are empty or hold a content, a staging buffer from which an empty    *)
(* slot is programmed once, and a saved image.  A full slot gives its        *)
(* content away only by erasing or to the host, and an operation that fails  *)
(* says so and changes neither the slots nor the register it was to load.    *)
(*****************************************************************************)
CONSTANTS
  Slots,     \* key types and slot numbers
  Offsets,   \* keys of one slot
  Key,       \* contents of one key
  Regs,      \* registers of the program
  NoKey,     \* what an empty slot holds
  Blank      \* the content of an erased slot

Content == [Offsets -> Key]

Image == [Slots -> Content \cup {NoKey}]

VARIABLES
  store,     \* content of each slot
  staged,    \* the staging buffer
  reg,       \* the registers of the program
  failed,    \* whether the last operation on the bus failed
  saved      \* the image kept in a file

storeVars == <<store, staged, reg, failed, saved>>

StoreInit ==
  /\ store = [s \in Slots |-> NoKey]
  /\ staged \in Content /\ saved \in Image
  /\ reg \in [Regs -> Key] /\ failed = FALSE

Outcome(fails) == failed' = fails

\* Loading a key works on a full slot, whole or not at all.
LoadKey(r, s, o) ==
  /\ Outcome(store[s] = NoKey)
  /\ IF store[s] = NoKey THEN UNCHANGED <<staged, reg>>
     ELSE staged' = store[s] /\ reg' = [reg EXCEPT ![r] = store[s][o]]
  /\ UNCHANGED <<store, saved>>

StageKey(r, o) ==
  /\ Outcome(FALSE)
  /\ staged' = [staged EXCEPT ![o] = reg[r]]
  /\ UNCHANGED <<store, reg, saved>>

\* The buffer also takes the content of a slot that is read, single words and,
\* when it is flushed, anything.
Restage(s) ==
  /\ Outcome(store[s] = NoKey)
  /\ staged' = IF store[s] = NoKey THEN staged ELSE store[s]
  /\ UNCHANGED <<store, reg, saved>>

StageOther ==
  /\ Outcome(FALSE)
  /\ staged' \in Content
  /\ UNCHANGED <<store, reg, saved>>

Program(s) ==
  /\ Outcome(store[s] # NoKey)
  /\ store' = IF store[s] = NoKey THEN [store EXCEPT ![s] = staged] ELSE store
  /\ UNCHANGED <<staged, reg, saved>>

EraseSlot(s) ==
  /\ Outcome(FALSE)
  /\ store' = [store EXCEPT ![s] = NoKey]
  /\ UNCHANGED <<staged, reg, saved>>

\* A slot that holds anything but blanks is never reported as erased.
Verify(s) ==
  /\ failed' \in BOOLEAN
  /\ store[s] # NoKey => failed' = (store[s] # Blank)
  /\ UNCHANGED <<store, staged, reg, saved>>

\* An operation that does not exist reports anything.
Undefined == failed' \in BOOLEAN /\ UNCHANGED <<store, staged, reg, saved>>

Compute ==
  /\ reg' \in [Regs -> Key] /\ failed' \in BOOLEAN
  /\ UNCHANGED <<store, staged, saved>>

HostSet(s) ==
  /\ \E c \in Content : store' = [store EXCEPT ![s] = c]
  /\ UNCHANGED <<staged, reg, failed, saved>>

Save == saved' = store /\ UNCHANGED <<store, staged, reg, failed>>

Restore == store' = saved /\ UNCHANGED <<staged, reg, failed, saved>>

StoreNext ==
  \/ \E s \in Slots : Restage(s) \/ Program(s) \/ EraseSlot(s) \/ Verify(s) \/ HostSet(s)
  \/ \E r \in Regs, s \in Slots, o \in Offsets : LoadKey(r, s, o)
  \/ \E r \in Regs, o \in Offsets : StageKey(r, o)
  \/ StageOther \/ Undefined \/ Compute \/ Save \/ Restore

StoreSpec == StoreInit /\ [][StoreNext]_storeVars
================================================================================
