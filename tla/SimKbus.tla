-------------------------------- MODULE SimKbus --------------------------------
(*****************************************************************************)
(* The key bus in the simulator: every transaction of LDK, STK and KBO is    *)
(* carried out on the simulator's key memory, which puts its error flag, and *)
(* for LDK the word it read, into the processor's queues just before the     *)
(* processor takes them out again.                                           *)
(*                                                                           *)
(* The host, a debugger or a program that uses the simulator as a library,   *)
(* sets words, dumps and loads the key memory and resets the processor       *)
(* between instructions.                                                     *)
(*****************************************************************************)
EXTENDS KeyMemory, KbusQueues

VARIABLE stale   \* history: EMPTY slots whose words a Load has left in place

vars == <<memVars, kbusVars, stale>>

TypeOK == KeyMemoryType /\ KbusType /\ stale \subseteq Slots

Init == KeyMemoryInit /\ KbusInit /\ stale = {}

\* The flags that the transactions of one instruction push.
Flagged(error) == [i \in 1 .. Parts |-> error]

\* Reading an EMPTY slot leaves the word that is pushed uninitialised.
ExecLDK(op1, s, o) ==
  /\ \E error \in BOOLEAN, part \in Key :
       /\ Read(s, error)
       /\ LDK(op1, Flagged(error), IF error THEN part ELSE keyMem[s][o])
  /\ UNCHANGED stale

ExecSTK(op1, o) ==
  /\ Write(o, StkWords(op1, Flagged(FALSE)), FALSE)
  /\ STK(Flagged(FALSE))
  /\ UNCHANGED stale

ExecKBO(error, operation) ==
  /\ operation
  /\ KBO(<<error>>)

ExecKboWrite == \E e \in BOOLEAN : ExecKBO(e, Write(0, <<Scramble>>, e)) /\ UNCHANGED stale

ExecKboRead(s) == \E e \in BOOLEAN : ExecKBO(e, Read(s, e)) /\ UNCHANGED stale

ExecKboProgram(s) == \E e \in BOOLEAN : ExecKBO(e, Program(s, e)) /\ UNCHANGED stale

ExecKboErase(s) ==
  \E e \in BOOLEAN : ExecKBO(e, Erase(s, e)) /\ stale' = stale \ {s}

ExecKboVerify(s) == \E e \in BOOLEAN : ExecKBO(e, VerifyErase(s, e)) /\ UNCHANGED stale

ExecKboFlush == \E e \in BOOLEAN : ExecKBO(e, Flush(e)) /\ UNCHANGED stale

\* No branch assigns error_flag for the other opcodes: it is uninitialised.
ExecKboUndefined ==
  \E e \in BOOLEAN : ExecKBO(e, UNCHANGED memVars) /\ UNCHANGED stale

\* Any other instruction: registers and the error flag take new values.
ExecOther ==
  /\ gpr' \in [Regs -> Key] /\ errorFlag' \in BOOLEAN
  /\ UNCHANGED <<memVars, ldkQ, kbusErrorQ, stale>>

HostSetWord(s, o, i, w) == SetWord(s, o, i, w) /\ UNCHANGED <<kbusVars, stale>>

HostDump == Dump /\ UNCHANGED <<kbusVars, stale>>

HostLoad ==
  /\ Load
  /\ stale' = {s \in Slots : file[s] = NoKey /\ (s \in stale \/ slotStatus[s] = "FULL")}
  /\ UNCHANGED kbusVars

HostReset == ResetKbus /\ UNCHANGED <<memVars, stale>>

Next ==
  \/ \E r \in Regs, s \in Slots, o \in Offsets : ExecLDK(r, s, o)
  \/ \E r \in Regs, o \in Offsets : ExecSTK(r, o)
  \/ \E s \in Slots : \/ ExecKboRead(s) \/ ExecKboProgram(s)
                      \/ ExecKboErase(s) \/ ExecKboVerify(s)
  \/ ExecKboWrite \/ ExecKboFlush \/ ExecKboUndefined
  \/ ExecOther
  \/ \E s \in Slots, o \in Offsets, i \in 1 .. Parts, w \in Word :
       HostSetWord(s, o, i, w)
  \/ HostDump \/ HostLoad \/ HostReset

Spec == Init /\ [][Next]_vars

--------------------------------------------------------------------------------

\* Every instruction takes out of the queues exactly what it put in, whether it
\* stopped early or not: a flag left behind would be the result of a later one.
QueuesDrained == ldkQ = <<>> /\ kbusErrorQ = <<>>

\* No key is left in a slot that is EMPTY, except where a Load made it EMPTY.
EmptySlotsErased ==
  \A s \in Slots \ stale : slotStatus[s] = "EMPTY" => keyMem[s] = ErasedContent

\* The content of a slot that is FULL; the words of another are not visible.
Store == [s \in Slots |-> IF slotStatus[s] = "FULL" THEN keyMem[s] ELSE NoKey]

KeyStoreOf ==
  INSTANCE KeyStore WITH store <- Store, staged <- ramBuffer, reg <- gpr,
                         failed <- errorFlag, saved <- file,
                         Blank <- ErasedContent

\* Through queues, early returns and slots with stale words, the machine is a
\* store of keys: a full slot is never programmed over, only erasing and the
\* host take its content away, and a load restores exactly what was dumped.
ImplementsKeyStore == KeyStoreOf!StoreSpec

\* Each instruction on the bus does what the store promises for it, result
\* included: a key is loaded whole or not at all, and the error flag is the
\* result of this instruction and of no other.
InstructionsKeepPromises ==
  [][/\ \A r \in Regs, s \in Slots, o \in Offsets :
          ExecLDK(r, s, o) => KeyStoreOf!LoadKey(r, s, o)
     /\ \A r \in Regs, o \in Offsets : ExecSTK(r, o) => KeyStoreOf!StageKey(r, o)
     /\ \A s \in Slots :
          /\ ExecKboRead(s) => KeyStoreOf!Restage(s)
          /\ ExecKboProgram(s) => KeyStoreOf!Program(s)
          /\ ExecKboErase(s) => KeyStoreOf!EraseSlot(s)
          /\ ExecKboVerify(s) => KeyStoreOf!Verify(s)
     /\ ExecKboWrite \/ ExecKboFlush => KeyStoreOf!StageOther]_vars
================================================================================
