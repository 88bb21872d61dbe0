------------------------------- MODULE KbusProofs -------------------------------
(*****************************************************************************)
(* Proofs about the key bus, for words and keys of any size.                 *)
(*                                                                           *)
(* SimKbus: what LDK, STK and KBO do when the queues are empty and the       *)
(* instruction feeds them itself, as equations without the queues; then that *)
(* instructions keep the promises of KeyStore, and with the host's           *)
(* operations implement it.                                                  *)
(*                                                                           *)
(* CosimKbus: however far the RTL is ahead, the queues hold the results of   *)
(* the instructions the model has still to execute, in order, and so every   *)
(* instruction of the model has the outcome it had in the RTL.               *)
(*****************************************************************************)
EXTENDS SimKbus, CosimKbus, SequenceTheorems, WellFoundedInduction, TLAPS

--------------------------------------------------------------------------------
(* The queues *)

LEMMA PartsType == Parts \in Nat /\ Parts >= 1
BY WordsAssumption

LEMMA FlaggedType ==
  \A e \in BOOLEAN : /\ Flagged(e) \in Seq(BOOLEAN)
                     /\ Len(Flagged(e)) = Parts
                     /\ \A i \in 1 .. Parts : Flagged(e)[i] = e
BY PartsType DEF Flagged

LEMMA KeyIsSeq == \A k \in Key : k \in Seq(Word) /\ Len(k) = Parts
BY PartsType DEF Key

\* The first transaction is the last one if it fails.
LEMMA LastOfFlagged ==
  \A e \in BOOLEAN : LastTransaction(Flagged(e)) = IF e THEN 1 ELSE Parts
<1> SUFFICES ASSUME NEW e \in BOOLEAN
             PROVE  LastTransaction(Flagged(e)) = IF e THEN 1 ELSE Parts
  OBVIOUS
<1> DEFINE Last(n) == /\ n = Parts \/ KbusErrorQueuePop(Flagged(e), n)
                      /\ \A i \in 1 .. n - 1 : ~KbusErrorQueuePop(Flagged(e), i)
           last == IF e THEN 1 ELSE Parts
<1>1. \A i \in 1 .. Parts : KbusErrorQueuePop(Flagged(e), i) = e
  BY FlaggedType, PartsType DEF KbusErrorQueuePop
<1>2. last \in 1 .. Parts /\ Last(last)
  BY <1>1, PartsType
<1>3. \A n \in 1 .. Parts : Last(n) => n = last
  BY <1>1, PartsType
<1>4. (CHOOSE n \in 1 .. Parts : Last(n)) = last
  BY <1>2, <1>3
<1> QED
  BY <1>4 DEF LastTransaction

\* Transactions that push one entry each leave an empty queue empty.
LEMMA AfterDrains ==
  ASSUME NEW S, NEW pushed \in Seq(S), NEW n \in 1 .. Len(pushed)
  PROVE  After(<<>>, pushed, n) = <<>>
<1>1. n \in Nat /\ n <= Len(pushed) /\ Len(pushed) \in Nat
  OBVIOUS
<1>2. (IF n < Len(pushed) THEN n ELSE Len(pushed)) = n
  BY <1>1
<1>3. SubSeq(pushed, 1, n) \in Seq(S) /\ Len(SubSeq(pushed, 1, n)) = n
  BY <1>1
<1>4. <<>> \o SubSeq(pushed, 1, n) = SubSeq(pushed, 1, n)
  BY <1>3
<1>5. SubSeq(SubSeq(pushed, 1, n), n + 1, n) = <<>>
  BY <1>1, <1>3
<1>6. Len(<<>>) + n = n
  BY <1>1
<1> QED
  BY <1>2, <1>4, <1>5, <1>6 DEF After

LEMMA EmptyPrefix == \A S : \A q \in Seq(S) : <<>> \o q = q
OBVIOUS

--------------------------------------------------------------------------------
(* The instructions, without the queues *)

LEMMA LdkStep ==
  ASSUME TypeOK, QueuesDrained,
         NEW r \in Regs, NEW s \in Slots, NEW o \in Offsets, ExecLDK(r, s, o)
  PROVE  LET empty == slotStatus[s] = "EMPTY"
         IN /\ ramBuffer' = IF empty THEN ramBuffer ELSE keyMem[s]
            /\ gpr' = IF empty THEN gpr ELSE [gpr EXCEPT ![r] = keyMem[s][o]]
            /\ errorFlag' = empty
            /\ kbusErrorQ' = <<>> /\ ldkQ' = <<>>
            /\ UNCHANGED <<keyMem, slotStatus, file, stale>>
<1> DEFINE Words(e, part) == IF e THEN part ELSE keyMem[s][o]
<1>1. PICK e \in BOOLEAN, part \in Key :
        Read(s, e) /\ LDK(r, Flagged(e), Words(e, part))
  BY DEF ExecLDK
<1> DEFINE n     == IF e THEN 1 ELSE Parts
           words == Words(e, part)
<1>2. words \in Key /\ words \in Seq(Word) /\ Len(words) = Parts
  BY KeyIsSeq DEF TypeOK, KeyMemoryType, Content
<1>3. kbusErrorQ \o Flagged(e) = Flagged(e) /\ ldkQ \o words = words
  BY <1>2, FlaggedType, EmptyPrefix DEF QueuesDrained
<1>4. n \in 1 .. Parts /\ LastTransaction(Flagged(e)) = n
  BY LastOfFlagged, PartsType
<1>5. KbusErrorQueuePop(Flagged(e), n) = e
  BY <1>4, FlaggedType DEF KbusErrorQueuePop
<1>6. After(<<>>, Flagged(e), n) = <<>>
  BY <1>4, FlaggedType, AfterDrains
<1>7. After(<<>>, words, n) = <<>>
  BY <1>2, <1>4, AfterDrains
<1>8. [i \in 1 .. Parts |-> LdkQueuePop(words, i)] = words
  BY <1>2, PartsType DEF LdkQueuePop, Key
<1> HIDE DEF words, n
<1>9. /\ kbusErrorQ' = <<>> /\ ldkQ' = <<>> /\ errorFlag' = e
      /\ gpr' = IF e THEN gpr ELSE [gpr EXCEPT ![r] = words]
  BY <1>1, <1>3, <1>4, <1>5, <1>6, <1>7, <1>8 DEF LDK, QueuesDrained, words
<1>10. e = (slotStatus[s] = "EMPTY")
  BY <1>1 DEF Read
<1>11. ~e => words = keyMem[s][o]
  BY DEF words
<1> QED
  BY <1>1, <1>9, <1>10, <1>11 DEF Read, ExecLDK

LEMMA StkStep ==
  ASSUME TypeOK, QueuesDrained, NEW r \in Regs, NEW o \in Offsets, ExecSTK(r, o)
  PROVE  /\ ramBuffer' = [ramBuffer EXCEPT ![o] = gpr[r]]
         /\ errorFlag' = FALSE
         /\ kbusErrorQ' = <<>> /\ ldkQ' = <<>>
         /\ UNCHANGED <<keyMem, slotStatus, file, stale, gpr>>
<1> DEFINE errors == kbusErrorQ \o Flagged(FALSE)
<1>0. /\ Flagged(FALSE) \in Seq(BOOLEAN) /\ Len(Flagged(FALSE)) = Parts
      /\ Flagged(FALSE)[Parts] = FALSE
  BY PartsType DEF Flagged
<1>1. errors = Flagged(FALSE)
  BY <1>0, EmptyPrefix DEF QueuesDrained
<1>2. LastTransaction(errors) = Parts
  BY <1>1, LastOfFlagged
<1>3. gpr[r] \in Key /\ gpr[r] \in Seq(Word) /\ Len(gpr[r]) = Parts
  BY KeyIsSeq DEF TypeOK, KbusType
<1>4. StkWords(r, Flagged(FALSE)) = gpr[r]
  <2>1. SubSeq(gpr[r], 1, Parts) = gpr[r]
    BY <1>3
  <2> QED
    BY <1>2, <2>1 DEF StkWords
<1>5. ramBuffer[o] \in Key
  BY DEF TypeOK, KeyMemoryType, Content
<1>6. [i \in 1 .. Parts |-> IF i <= Len(gpr[r]) THEN gpr[r][i] ELSE ramBuffer[o][i]]
        = gpr[r]
  BY <1>3, PartsType DEF Key
<1>7. ramBuffer' = [ramBuffer EXCEPT ![o] = gpr[r]]
  BY <1>4, <1>6 DEF ExecSTK, Write
<1>8. After(<<>>, Flagged(FALSE), Parts) = <<>>
  <2>1. Parts \in 1 .. Parts
    BY PartsType
  <2> QED
    BY <1>0, <2>1, AfterDrains, Zenon
<1>9. KbusErrorQueuePop(Flagged(FALSE), Parts) = FALSE
  BY <1>0, PartsType DEF KbusErrorQueuePop
<1> QED
  BY <1>1, <1>2, <1>7, <1>8, <1>9 DEF ExecSTK, STK, Write, QueuesDrained

LEMMA KboStep ==
  ASSUME QueuesDrained, NEW e \in BOOLEAN, KBO(<<e>>)
  PROVE  /\ errorFlag' = e
         /\ kbusErrorQ' = <<>> /\ ldkQ' = <<>>
         /\ UNCHANGED gpr
<1>1. <<e>> \in Seq(BOOLEAN) /\ Len(<<e>>) = 1 /\ <<e>>[1] = e
  OBVIOUS
<1>2. kbusErrorQ \o <<e>> = <<e>>
  BY <1>1, EmptyPrefix DEF QueuesDrained
<1>3. After(<<>>, <<e>>, 1) = <<>>
  <2>1. 1 \in 1 .. Len(<<e>>)
    BY <1>1
  <2> QED
    BY <1>1, <2>1, AfterDrains
<1>4. KbusErrorQueuePop(<<e>>, 1) = e
  BY <1>1 DEF KbusErrorQueuePop
<1> QED
  BY <1>2, <1>3, <1>4 DEF KBO, QueuesDrained

--------------------------------------------------------------------------------
(* The invariant *)

SimInv == TypeOK /\ QueuesDrained /\ EmptySlotsErased

LEMMA ErasedType == ErasedContent \in Content
BY KeyMemoryAssumption DEF ErasedContent, Content, Key

LEMMA InitInv == Init => SimInv
<1> SUFFICES ASSUME Init PROVE SimInv
  OBVIOUS
<1>1. KeyMemoryType
  BY ErasedType DEF Init, KeyMemoryInit, KeyMemoryType, Status
<1>2. KbusType
  <2>1. ZeroKey \in Key
    BY WordsAssumption DEF ZeroKey, Key
  <2>2. gpr \in [Regs -> Key]
    BY <2>1 DEF Init, KbusInit
  <2>3. \A S : <<>> \in Seq(S)
    OBVIOUS
  <2> QED
    BY <2>2, <2>3 DEF Init, KbusInit, KbusType
<1> QED
  BY <1>1, <1>2 DEF Init, SimInv, TypeOK, KbusInit, KeyMemoryInit, QueuesDrained,
                   EmptySlotsErased

\* The part of the invariant that speaks of the queues and registers.
LEMMA KbusInv ==
  ASSUME TypeOK,
         gpr' \in [Regs -> Key], errorFlag' \in BOOLEAN,
         kbusErrorQ' = <<>>, ldkQ' = <<>>
  PROVE  KbusType' /\ QueuesDrained'
BY DEF KbusType, QueuesDrained

LEMMA InstructionInv == ASSUME SimInv,
  \/ \E r \in Regs, s \in Slots, o \in Offsets : ExecLDK(r, s, o)
  \/ \E r \in Regs, o \in Offsets : ExecSTK(r, o)
  \/ \E s \in Slots : \/ ExecKboRead(s) \/ ExecKboProgram(s)
                       \/ ExecKboErase(s) \/ ExecKboVerify(s)
  \/ ExecKboWrite \/ ExecKboFlush \/ ExecKboUndefined
  PROVE SimInv'
<1> USE DEF SimInv
<1>0. /\ keyMem \in [Slots -> Content] /\ slotStatus \in [Slots -> Status]
      /\ ramBuffer \in Content /\ file \in Image /\ gpr \in [Regs -> Key]
      /\ stale \subseteq Slots
  BY DEF TypeOK, KeyMemoryType, KbusType
<1>1. ASSUME NEW r \in Regs, NEW s \in Slots, NEW o \in Offsets, ExecLDK(r, s, o)
      PROVE  SimInv'
  <2>1. keyMem[s] \in Content /\ keyMem[s][o] \in Key
    BY <1>0 DEF Content
  <2>2. gpr' \in [Regs -> Key] /\ ramBuffer' \in Content
    BY <1>0, <1>1, <2>1, LdkStep
  <2>3. KbusType' /\ QueuesDrained'
    BY <1>1, <2>2, LdkStep, KbusInv
  <2> QED
    BY <1>0, <1>1, <2>2, <2>3, LdkStep DEF TypeOK, KeyMemoryType, EmptySlotsErased
<1>2. ASSUME NEW r \in Regs, NEW o \in Offsets, ExecSTK(r, o)
      PROVE  SimInv'
  <2>1. ramBuffer' \in Content
    <3>1. gpr[r] \in Key
      BY <1>0
    <3>2. ramBuffer' = [ramBuffer EXCEPT ![o] = gpr[r]]
      BY <1>2, StkStep
    <3> QED
      BY <1>0, <3>1, <3>2 DEF Content
  <2>2. KbusType' /\ QueuesDrained'
    BY <1>0, <1>2, StkStep, KbusInv
  <2> QED
    BY <1>0, <1>2, <2>1, <2>2, StkStep DEF TypeOK, KeyMemoryType, EmptySlotsErased
<1>3. ASSUME NEW e \in BOOLEAN, KBO(<<e>>)
      PROVE  KbusType' /\ QueuesDrained'
  BY <1>0, <1>3, KboStep, KbusInv
<1>4. ASSUME NEW s \in Slots, ExecKboRead(s)
      PROVE  SimInv'
  <2>1. PICK e \in BOOLEAN : KBO(<<e>>) /\ Read(s, e) /\ UNCHANGED stale
    BY <1>4 DEF ExecKboRead, ExecKBO
  <2> QED
    BY <1>0, <1>3, <2>1 DEF Read, TypeOK, KeyMemoryType, EmptySlotsErased
<1>5. ASSUME NEW s \in Slots, ExecKboProgram(s)
      PROVE  SimInv'
  <2>1. PICK e \in BOOLEAN : KBO(<<e>>) /\ Program(s, e) /\ UNCHANGED stale
    BY <1>5 DEF ExecKboProgram, ExecKBO
  <2>2. KeyMemoryType'
    BY <1>0, <2>1 DEF Program, KeyMemoryType, Status
  <2>3. EmptySlotsErased'
    BY <1>0, <2>1 DEF Program, EmptySlotsErased
  <2> QED
    BY <1>0, <1>3, <2>1, <2>2, <2>3 DEF TypeOK
<1>6. ASSUME NEW s \in Slots, ExecKboErase(s)
      PROVE  SimInv'
  <2>1. PICK e \in BOOLEAN : KBO(<<e>>) /\ Erase(s, e) /\ stale' = stale \ {s}
    BY <1>6 DEF ExecKboErase, ExecKBO
  <2>2. KeyMemoryType'
    BY <1>0, <2>1, ErasedType DEF Erase, KeyMemoryType, Status
  <2>3. EmptySlotsErased'
    BY <1>0, <2>1 DEF Erase, EmptySlotsErased
  <2> QED
    BY <1>0, <1>3, <2>1, <2>2, <2>3 DEF TypeOK
<1>7. ASSUME NEW s \in Slots, ExecKboVerify(s)
      PROVE  SimInv'
  <2>1. PICK e \in BOOLEAN : KBO(<<e>>) /\ VerifyErase(s, e) /\ UNCHANGED stale
    BY <1>7 DEF ExecKboVerify, ExecKBO
  <2> QED
    BY <1>0, <1>3, <2>1 DEF VerifyErase, memVars, TypeOK, KeyMemoryType, EmptySlotsErased
<1>8. CASE ExecKboWrite
  <2>1. PICK e \in BOOLEAN : KBO(<<e>>) /\ Write(0, <<Scramble>>, e) /\ UNCHANGED stale
    BY <1>8 DEF ExecKboWrite, ExecKBO
  <2>2. \A i \in 1 .. Parts : i <= Len(<<Scramble>>) => <<Scramble>>[i] \in Word
    BY KeyMemoryAssumption, PartsType
  <2>3. ramBuffer' \in Content
    BY <1>0, <2>1, <2>2 DEF Write, Content, Key
  <2> QED
    BY <1>0, <1>3, <2>1, <2>3 DEF Write, TypeOK, KeyMemoryType, EmptySlotsErased
<1>9. CASE ExecKboFlush
  <2>1. PICK e \in BOOLEAN : KBO(<<e>>) /\ Flush(e) /\ UNCHANGED stale
    BY <1>9 DEF ExecKboFlush, ExecKBO
  <2> QED
    BY <1>0, <1>3, <2>1 DEF Flush, TypeOK, KeyMemoryType, EmptySlotsErased
<1>10. CASE ExecKboUndefined
  <2>1. PICK e \in BOOLEAN : KBO(<<e>>) /\ UNCHANGED memVars /\ UNCHANGED stale
    BY <1>10 DEF ExecKboUndefined, ExecKBO
  <2> QED
    BY <1>0, <1>3, <2>1 DEF memVars, TypeOK, KeyMemoryType, EmptySlotsErased
<1> QED
  BY <1>1, <1>2, <1>4, <1>5, <1>6, <1>7, <1>8, <1>9, <1>10

LEMMA OtherInv == ASSUME SimInv,
  \/ ExecOther
  \/ \E s \in Slots, o \in Offsets, i \in 1 .. Parts, w \in Word :
       HostSetWord(s, o, i, w)
  \/ HostDump \/ HostLoad \/ HostReset
  \/ UNCHANGED vars
  PROVE SimInv'
<1> USE DEF SimInv
<1>0. /\ keyMem \in [Slots -> Content] /\ slotStatus \in [Slots -> Status]
      /\ ramBuffer \in Content /\ file \in Image /\ KbusType
      /\ stale \subseteq Slots
  BY DEF TypeOK, KeyMemoryType
<1>1. CASE ExecOther
  BY <1>0, <1>1 DEF ExecOther, memVars, TypeOK, KeyMemoryType, KbusType,
                    QueuesDrained, EmptySlotsErased
<1>2. ASSUME UNCHANGED kbusVars
      PROVE  KbusType' /\ QueuesDrained'
  BY <1>0, <1>2 DEF kbusVars, KbusType, QueuesDrained
<1>3. ASSUME NEW s \in Slots, NEW o \in Offsets, NEW i \in 1 .. Parts, NEW w \in Word,
             HostSetWord(s, o, i, w)
      PROVE  SimInv'
  <2>1. [keyMem[s] EXCEPT ![o][i] = w] \in Content
    BY <1>0 DEF Content, Key
  <2>2. keyMem' = [keyMem EXCEPT ![s] = [keyMem[s] EXCEPT ![o][i] = w]]
    BY <1>3 DEF HostSetWord, SetWord
  <2>3. KeyMemoryType'
    BY <1>0, <1>3, <2>1, <2>2 DEF HostSetWord, SetWord, KeyMemoryType, Status
  <2>4. EmptySlotsErased'
    BY <1>0, <1>3, <2>2 DEF HostSetWord, SetWord, EmptySlotsErased
  <2> QED
    BY <1>0, <1>2, <1>3, <2>3, <2>4 DEF HostSetWord, TypeOK
<1>4. CASE HostDump
  <2>1. file' \in Image
    BY <1>0, <1>4 DEF HostDump, Dump, Image
  <2> QED
    BY <1>0, <1>2, <1>4, <2>1 DEF HostDump, Dump, TypeOK, KeyMemoryType, EmptySlotsErased
<1>5. CASE HostLoad
  <2>1. KeyMemoryType'
    BY <1>0, <1>5 DEF HostLoad, Load, KeyMemoryType, Image, Status
  <2>2. EmptySlotsErased'
    BY <1>0, <1>5 DEF HostLoad, Load, EmptySlotsErased, Image, Status
  <2> QED
    BY <1>2, <1>5, <2>1, <2>2 DEF HostLoad, TypeOK
<1>6. CASE HostReset
  <2>1. ZeroKey \in Key
    BY WordsAssumption DEF ZeroKey, Key
  <2> QED
    BY <1>0, <1>6, <2>1 DEF HostReset, ResetKbus, memVars, TypeOK, KeyMemoryType,
                            KbusType, QueuesDrained, EmptySlotsErased
<1>7. CASE UNCHANGED vars
  BY <1>0, <1>2, <1>7 DEF vars, memVars, TypeOK, KeyMemoryType, EmptySlotsErased
<1> QED
  BY <1>1, <1>3, <1>4, <1>5, <1>6, <1>7

\* In every reachable state the memory, the registers and the queues are well
\* typed, the queues are empty between instructions, and an EMPTY slot that no
\* Load has made so holds no key.
THEOREM SimInvariant == Spec => []SimInv
<1>1. SimInv /\ [Next]_vars => SimInv'
  BY InstructionInv, OtherInv DEF Next
<1> QED
  BY InitInv, <1>1, PTL DEF Spec

\* The type invariant.
THEOREM SimTypeCorrect == Spec => []TypeOK
BY SimInvariant, PTL DEF SimInv

\* No instruction leaves the flag or word of one of its transactions behind
\* for another to take as its own.
THEOREM QueuesStayDrained == Spec => []QueuesDrained
BY SimInvariant, PTL DEF SimInv

\* A slot that is EMPTY holds no key, unless a Load made it EMPTY.
THEOREM EmptyMeansErased == Spec => []EmptySlotsErased
BY SimInvariant, PTL DEF SimInv

--------------------------------------------------------------------------------
(* The store *)

LEMMA StoreContents ==
  ASSUME TypeOK, NEW s \in Slots
  PROVE  /\ slotStatus[s] = "EMPTY" => Store[s] = NoKey
         /\ slotStatus[s] # "EMPTY" => Store[s] = keyMem[s] /\ Store[s] # NoKey
         /\ slotStatus[s] = "FULL" <=> slotStatus[s] # "EMPTY"
<1>1. slotStatus[s] \in Status /\ keyMem[s] \in Content
  BY DEF TypeOK, KeyMemoryType
<1> QED
  BY <1>1, KeyMemoryAssumption DEF Store, Status

LEMMA StoreKept == UNCHANGED <<keyMem, slotStatus>> => Store' = Store
BY DEF Store

LEMMA SameContent == KeyStoreOf!Content = Content /\ KeyStoreOf!Image = Image
BY DEF KeyStoreOf!Content, KeyStoreOf!Image, Content, Image

LEMMA LdkPromise ==
  ASSUME SimInv, NEW r \in Regs, NEW s \in Slots, NEW o \in Offsets, ExecLDK(r, s, o)
  PROVE  KeyStoreOf!LoadKey(r, s, o)
BY LdkStep, StoreContents, StoreKept
   DEF SimInv, KeyStoreOf!LoadKey, KeyStoreOf!Outcome

LEMMA StkPromise ==
  ASSUME SimInv, NEW r \in Regs, NEW o \in Offsets, ExecSTK(r, o)
  PROVE  KeyStoreOf!StageKey(r, o)
BY StkStep, StoreKept DEF SimInv, KeyStoreOf!StageKey, KeyStoreOf!Outcome

LEMMA ReadPromise ==
  ASSUME SimInv, NEW s \in Slots, ExecKboRead(s)
  PROVE  KeyStoreOf!Restage(s)
<1>1. PICK e \in BOOLEAN : KBO(<<e>>) /\ Read(s, e)
  BY DEF ExecKboRead, ExecKBO
<1> QED
  BY <1>1, KboStep, StoreContents, StoreKept
     DEF SimInv, Read, KeyStoreOf!Restage, KeyStoreOf!Outcome

LEMMA ProgramPromise ==
  ASSUME SimInv, NEW s \in Slots, ExecKboProgram(s)
  PROVE  KeyStoreOf!Program(s)
<1>1. PICK e \in BOOLEAN : KBO(<<e>>) /\ Program(s, e)
  BY DEF ExecKboProgram, ExecKBO
<1>2. /\ errorFlag' = e /\ e = (Store[s] # NoKey)
      /\ UNCHANGED <<gpr, ramBuffer, file>>
  BY <1>1, KboStep, StoreContents DEF SimInv, Program
<1>3. CASE e
  BY <1>1, <1>2, <1>3, StoreKept DEF Program, KeyStoreOf!Program, KeyStoreOf!Outcome
<1>4. CASE ~e
  <2>1. /\ keyMem' = [keyMem EXCEPT ![s] = ramBuffer]
        /\ slotStatus' = [slotStatus EXCEPT ![s] = "FULL"]
    BY <1>1, <1>4 DEF Program
  <2>2. Store' = [Store EXCEPT ![s] = ramBuffer]
    BY <2>1 DEF SimInv, TypeOK, KeyMemoryType, Store
  <2> QED
    BY <1>2, <1>4, <2>2 DEF KeyStoreOf!Program, KeyStoreOf!Outcome
<1> QED
  BY <1>3, <1>4

LEMMA ErasePromise ==
  ASSUME SimInv, NEW s \in Slots, ExecKboErase(s)
  PROVE  KeyStoreOf!EraseSlot(s)
<1>1. PICK e \in BOOLEAN : KBO(<<e>>) /\ Erase(s, e)
  BY DEF ExecKboErase, ExecKBO
<1>2. Store' = [Store EXCEPT ![s] = NoKey]
  BY <1>1 DEF Erase, SimInv, TypeOK, KeyMemoryType, Store
<1> QED
  BY <1>1, <1>2, KboStep DEF SimInv, Erase, KeyStoreOf!EraseSlot, KeyStoreOf!Outcome

LEMMA VerifyPromise ==
  ASSUME SimInv, NEW s \in Slots, ExecKboVerify(s)
  PROVE  KeyStoreOf!Verify(s)
<1>1. PICK e \in BOOLEAN : KBO(<<e>>) /\ VerifyErase(s, e)
  BY DEF ExecKboVerify, ExecKBO
<1>2. Store' = Store
  BY <1>1, StoreKept DEF VerifyErase, memVars
<1> QED
  BY <1>1, <1>2, KboStep, StoreContents
     DEF SimInv, VerifyErase, memVars, KeyStoreOf!Verify

LEMMA StagePromise ==
  ASSUME SimInv, SimInv', ExecKboWrite \/ ExecKboFlush
  PROVE  KeyStoreOf!StageOther
<1>1. ramBuffer' \in Content
  BY DEF SimInv, TypeOK, KeyMemoryType
<1>2. PICK e \in BOOLEAN : KBO(<<e>>) /\ (Write(0, <<Scramble>>, e) \/ Flush(e))
  BY DEF ExecKboWrite, ExecKboFlush, ExecKBO
<1>3. ~e /\ UNCHANGED <<keyMem, slotStatus, file>>
  BY <1>2 DEF Write, Flush
<1> QED
  BY <1>1, <1>2, <1>3, KboStep, StoreKept, SameContent
     DEF SimInv, KeyStoreOf!StageOther, KeyStoreOf!Outcome

\* Each instruction on the bus does what the store promises for it, for keys
\* and slots of any size and number: a key is loaded whole or not at all, and
\* the error flag is the result of this instruction.
THEOREM PromisesKept == Spec => InstructionsKeepPromises
<1>1. SimInv /\ SimInv' =>
        /\ \A r \in Regs, s \in Slots, o \in Offsets :
             ExecLDK(r, s, o) => KeyStoreOf!LoadKey(r, s, o)
        /\ \A r \in Regs, o \in Offsets : ExecSTK(r, o) => KeyStoreOf!StageKey(r, o)
        /\ \A s \in Slots :
             /\ ExecKboRead(s) => KeyStoreOf!Restage(s)
             /\ ExecKboProgram(s) => KeyStoreOf!Program(s)
             /\ ExecKboErase(s) => KeyStoreOf!EraseSlot(s)
             /\ ExecKboVerify(s) => KeyStoreOf!Verify(s)
        /\ ExecKboWrite \/ ExecKboFlush => KeyStoreOf!StageOther
  BY LdkPromise, StkPromise, ReadPromise, ProgramPromise, ErasePromise, VerifyPromise,
     StagePromise
<1> QED
  BY <1>1, SimInvariant, PTL DEF InstructionsKeepPromises

LEMMA InitStore == Init => KeyStoreOf!StoreInit
<1> SUFFICES ASSUME Init PROVE KeyStoreOf!StoreInit
  OBVIOUS
<1>1. Store = [s \in Slots |-> NoKey]
  BY DEF Init, KeyMemoryInit, Store
<1>2. SimInv
  BY InitInv
<1> QED
  BY <1>1, <1>2, SameContent
     DEF Init, KbusInit, SimInv, TypeOK, KeyMemoryType, KbusType, KeyStoreOf!StoreInit

LEMMA HostPromise == ASSUME SimInv, SimInv',
  \/ ExecOther
  \/ \E s \in Slots, o \in Offsets, i \in 1 .. Parts, w \in Word :
       HostSetWord(s, o, i, w)
  \/ HostDump \/ HostLoad \/ HostReset
  \/ UNCHANGED vars
  PROVE KeyStoreOf!StoreNext \/ UNCHANGED KeyStoreOf!storeVars
<1> USE DEF SimInv
<1>0. /\ gpr' \in [Regs -> Key] /\ errorFlag' \in BOOLEAN /\ file \in Image
      /\ keyMem \in [Slots -> Content] /\ slotStatus \in [Slots -> Status]
  BY DEF TypeOK, KeyMemoryType, KbusType
<1>1. CASE ExecOther
  BY <1>0, <1>1, StoreKept
     DEF ExecOther, memVars, KeyStoreOf!Compute, KeyStoreOf!StoreNext
<1>2. ASSUME NEW s \in Slots, NEW o \in Offsets, NEW i \in 1 .. Parts, NEW w \in Word,
             HostSetWord(s, o, i, w)
      PROVE  KeyStoreOf!StoreNext
  <2> DEFINE c == [keyMem[s] EXCEPT ![o][i] = w]
  <2>1. c \in Content
    BY <1>0 DEF Content, Key
  <2>2. /\ keyMem' = [keyMem EXCEPT ![s] = c]
        /\ slotStatus' = [slotStatus EXCEPT ![s] = "FULL"]
        /\ UNCHANGED <<ramBuffer, gpr, errorFlag, file>>
    BY <1>2 DEF HostSetWord, SetWord, kbusVars
  <2> HIDE DEF c
  <2>3. Store' = [Store EXCEPT ![s] = c]
    BY <1>0, <2>2 DEF Store
  <2>4. KeyStoreOf!HostSet(s)
    BY <2>1, <2>2, <2>3, SameContent DEF KeyStoreOf!HostSet
  <2> QED
    BY <2>4 DEF KeyStoreOf!StoreNext
<1>3. CASE HostDump
  <2>1. file' = Store
    BY <1>3 DEF HostDump, Dump, Store
  <2> QED
    BY <1>3, <2>1, StoreKept
       DEF HostDump, Dump, kbusVars, KeyStoreOf!Save, KeyStoreOf!StoreNext
<1>4. CASE HostLoad
  <2>1. Store' = file
    BY <1>0, <1>4 DEF HostLoad, Load, Store, Image
  <2> QED
    BY <1>4, <2>1
       DEF HostLoad, Load, kbusVars, KeyStoreOf!Restore, KeyStoreOf!StoreNext
<1>5. CASE HostReset
  BY <1>0, <1>5, StoreKept
     DEF HostReset, memVars, KeyStoreOf!Compute, KeyStoreOf!StoreNext
<1>6. CASE UNCHANGED vars
  BY <1>6, StoreKept DEF vars, memVars, kbusVars, KeyStoreOf!storeVars
<1> QED
  BY <1>1, <1>2, <1>3, <1>4, <1>5, <1>6

LEMMA UndefinedPromise ==
  ASSUME SimInv, ExecKboUndefined
  PROVE  KeyStoreOf!Undefined
<1>1. PICK e \in BOOLEAN : KBO(<<e>>) /\ UNCHANGED memVars
  BY DEF ExecKboUndefined, ExecKBO
<1> QED
  BY <1>1, KboStep, StoreKept DEF SimInv, memVars, KeyStoreOf!Undefined

LEMMA NextStore ==
  SimInv /\ SimInv' /\ [Next]_vars => KeyStoreOf!StoreNext \/ UNCHANGED KeyStoreOf!storeVars
<1> SUFFICES ASSUME SimInv, SimInv', [Next]_vars
             PROVE  KeyStoreOf!StoreNext \/ UNCHANGED KeyStoreOf!storeVars
  OBVIOUS
<1>1. ASSUME NEW r \in Regs, NEW s \in Slots, NEW o \in Offsets, ExecLDK(r, s, o)
      PROVE  KeyStoreOf!StoreNext
  BY <1>1, LdkPromise DEF KeyStoreOf!StoreNext
<1>2. ASSUME NEW r \in Regs, NEW o \in Offsets, ExecSTK(r, o)
      PROVE  KeyStoreOf!StoreNext
  BY <1>2, StkPromise DEF KeyStoreOf!StoreNext
<1>3. ASSUME NEW s \in Slots,
             ExecKboRead(s) \/ ExecKboProgram(s) \/ ExecKboErase(s) \/ ExecKboVerify(s)
      PROVE  KeyStoreOf!StoreNext
  BY <1>3, ReadPromise, ProgramPromise, ErasePromise, VerifyPromise
     DEF KeyStoreOf!StoreNext
<1>4. CASE ExecKboWrite \/ ExecKboFlush \/ ExecKboUndefined
  BY <1>4, StagePromise, UndefinedPromise DEF KeyStoreOf!StoreNext
<1> QED
  BY <1>1, <1>2, <1>3, <1>4, HostPromise DEF Next

\* The simulator's key bus, with its queues, statuses and stale words, and with
\* the host's operations in between, implements the store of keys.
THEOREM StoreRefinement == Spec => ImplementsKeyStore
BY InitStore, NextStore, SimInvariant, PTL
   DEF Spec, ImplementsKeyStore, KeyStoreOf!StoreSpec

--------------------------------------------------------------------------------
(* Numbers *)

\* A set of numbers that holds 0 and, with a number, the next one holds all.
LEMMA NatInSet ==
  ASSUME NEW S, 0 \in S, \A n \in Nat : n \in S => n + 1 \in S
  PROVE  Nat \subseteq S
<1> DEFINE bad == Nat \ S
<1> SUFFICES ASSUME bad # {} PROVE FALSE
  OBVIOUS
<1>1. PICK x \in bad : \A y \in bad : ~ (<<y, x>> \in OpToRel(<, Nat))
  <2>1. bad \in SUBSET Nat
    OBVIOUS
  <2> HIDE DEF bad
  <2> QED
    BY <2>1, NatLessThanWellFounded, WFMin
<1>2. x \in Nat /\ x # 0 /\ x - 1 \in Nat /\ (x - 1) + 1 = x
  OBVIOUS
<1>3. x - 1 \in bad
  BY <1>2
<1>4. <<x - 1, x>> \in OpToRel(<, Nat)
  <2>1. <<x - 1, x>> \in Nat \X Nat /\ <<x - 1, x>>[1] < <<x - 1, x>>[2]
    BY <1>2
  <2> QED
    BY <2>1, Zenon DEF OpToRel
<1> QED
  BY <1>1, <1>3, <1>4

--------------------------------------------------------------------------------
(* The concatenation of a sequence of sequences *)

\* f concatenates the first n sequences of s, for every n up to m.
Concatenates(f, s, m) ==
  f = [n \in 0 .. m |-> IF n = 0 THEN <<>> ELSE f[n - 1] \o s[n]]

LEMMA ConcatenationExists ==
  ASSUME NEW s, NEW m \in Nat
  PROVE  \E f : Concatenates(f, s, m)
<1> DEFINE good == {k \in Nat : \E f : Concatenates(f, s, k)}
<1>1. 0 \in good
  <2>1. Concatenates([n \in 0 .. 0 |-> <<>>], s, 0)
    BY DEF Concatenates
  <2> QED
    BY <2>1
<1>2. ASSUME NEW k \in Nat, k \in good PROVE k + 1 \in good
  <2>1. PICK f : Concatenates(f, s, k)
    BY <1>2
  <2> DEFINE g == [n \in 0 .. k + 1 |-> IF n = k + 1 THEN f[k] \o s[k + 1] ELSE f[n]]
  <2>2. \A n \in 0 .. k : g[n] = f[n]
    OBVIOUS
  <2>3. g[k + 1] = g[k] \o s[k + 1]
    <3>1. k \in 0 .. k /\ k + 1 \in 0 .. k + 1
      OBVIOUS
    <3>2. g[k + 1] = f[k] \o s[k + 1]
      BY <3>1
    <3> QED
      BY <2>2, <3>1, <3>2
  <2>4. \A n \in 0 .. k : f[n] = IF n = 0 THEN <<>> ELSE f[n - 1] \o s[n]
    BY <2>1 DEF Concatenates
  <2>5. \A n \in 0 .. k + 1 : g[n] = IF n = 0 THEN <<>> ELSE g[n - 1] \o s[n]
    BY <2>2, <2>3, <2>4
  <2>6. g = [n \in 0 .. k + 1 |-> g[n]]
    OBVIOUS
  <2> HIDE DEF g
  <2>7. Concatenates(g, s, k + 1)
    BY <2>5, <2>6 DEF Concatenates
  <2> QED
    BY <2>7
<1> HIDE DEF good
<1>3. m \in good
  BY <1>1, <1>2, NatInSet
<1> QED
  BY <1>3 DEF good

LEMMA FlattenDef ==
  ASSUME NEW s, Len(s) \in Nat
  PROVE  \E f : Concatenates(f, s, Len(s)) /\ Flatten(s) = f[Len(s)]
<1> DEFINE f == CHOOSE g : Concatenates(g, s, Len(s))
<1>1. Concatenates(f, s, Len(s))
  BY ConcatenationExists
<1>2. Flatten(s) = f[Len(s)]
  BY DEF Flatten, Concatenates
<1> QED
  BY <1>1, <1>2

\* The equations of a concatenation.
LEMMA ConcatenationStep ==
  ASSUME NEW f, NEW s, NEW m \in Nat, Concatenates(f, s, m)
  PROVE  /\ f[0] = <<>>
         /\ \A n \in 1 .. m : f[n] = f[n - 1] \o s[n]
<1>1. \A n \in 0 .. m : f[n] = IF n = 0 THEN <<>> ELSE f[n - 1] \o s[n]
  BY DEF Concatenates
<1>2. 0 \in 0 .. m /\ \A n \in 1 .. m : n \in 0 .. m /\ n # 0
  OBVIOUS
<1>3. f[0] = <<>>
  BY <1>1, <1>2
<1>4. ASSUME NEW n \in 1 .. m PROVE f[n] = f[n - 1] \o s[n]
  BY <1>1, <1>2
<1> QED
  BY <1>3, <1>4

LEMMA ConcatenationType ==
  ASSUME NEW T, NEW s \in Seq(Seq(T)), NEW f, Concatenates(f, s, Len(s))
  PROVE  \A n \in 0 .. Len(s) : f[n] \in Seq(T)
<1>0. Len(s) \in Nat /\ \A n \in 1 .. Len(s) : s[n] \in Seq(T)
  OBVIOUS
<1>1. f[0] = <<>> /\ \A n \in 1 .. Len(s) : f[n] = f[n - 1] \o s[n]
  BY <1>0, ConcatenationStep
<1> DEFINE good == {n \in Nat : n <= Len(s) => f[n] \in Seq(T)}
<1>2. 0 \in good
  <2>1. <<>> \in Seq(T)
    OBVIOUS
  <2> QED
    BY <1>1, <2>1
<1>3. ASSUME NEW k \in Nat, k \in good PROVE k + 1 \in good
  <2> SUFFICES ASSUME k + 1 <= Len(s) PROVE f[k + 1] \in Seq(T)
    OBVIOUS
  <2>1. k + 1 \in 1 .. Len(s) /\ (k + 1) - 1 = k /\ f[k] \in Seq(T)
    BY <1>0, <1>3
  <2>2. f[k + 1] = f[k] \o s[k + 1] /\ s[k + 1] \in Seq(T)
    BY <1>0, <1>1, <2>1
  <2> QED
    BY <2>1, <2>2
<1> HIDE DEF good
<1>4. Nat \subseteq good
  BY <1>2, <1>3, NatInSet
<1> QED
  BY <1>0, <1>4 DEF good

LEMMA FlattenType == \A T : \A s \in Seq(Seq(T)) : Flatten(s) \in Seq(T)
<1> TAKE T
<1> TAKE s \in Seq(Seq(T))
<1>1. PICK f : Concatenates(f, s, Len(s)) /\ Flatten(s) = f[Len(s)]
  BY FlattenDef
<1> QED
  BY <1>1, ConcatenationType

LEMMA FlattenEmpty == Flatten(<<>>) = <<>>
<1>1. Len(<<>>) = 0
  OBVIOUS
<1> QED
  BY <1>1, FlattenDef, ConcatenationStep

\* One more sequence at the end.
LEMMA FlattenAppend ==
  ASSUME NEW T, NEW s \in Seq(Seq(T)), NEW x \in Seq(T)
  PROVE  Flatten(Append(s, x)) = Flatten(s) \o x
<1> DEFINE t == Append(s, x)
<1>1. /\ Len(s) \in Nat /\ Len(t) = Len(s) + 1 /\ t[Len(s) + 1] = x
      /\ \A n \in 1 .. Len(s) : t[n] = s[n]
  OBVIOUS
<1>2. PICK f : Concatenates(f, s, Len(s)) /\ Flatten(s) = f[Len(s)]
  BY FlattenDef
<1> HIDE DEF t
<1>3. PICK g : Concatenates(g, t, Len(t)) /\ Flatten(t) = g[Len(t)]
  BY <1>1, FlattenDef
<1> DEFINE same == {n \in Nat : n <= Len(s) => g[n] = f[n]}
<1>4. /\ f[0] = <<>> /\ g[0] = <<>>
      /\ \A n \in 1 .. Len(s) : f[n] = f[n - 1] \o s[n]
      /\ \A n \in 1 .. Len(s) + 1 : g[n] = g[n - 1] \o t[n]
  <2>1. Len(t) \in Nat
    BY <1>1
  <2>2. f[0] = <<>> /\ \A n \in 1 .. Len(s) : f[n] = f[n - 1] \o s[n]
    BY <1>1, <1>2, ConcatenationStep
  <2>3. g[0] = <<>> /\ \A n \in 1 .. Len(t) : g[n] = g[n - 1] \o t[n]
    BY <1>3, <2>1, ConcatenationStep
  <2> QED
    BY <1>1, <2>2, <2>3
<1>5. 0 \in same
  BY <1>4
<1>6. ASSUME NEW k \in Nat, k \in same PROVE k + 1 \in same
  <2> SUFFICES ASSUME k + 1 <= Len(s) PROVE g[k + 1] = f[k + 1]
    OBVIOUS
  <2>1. k + 1 \in 1 .. Len(s) /\ k + 1 \in 1 .. Len(s) + 1 /\ (k + 1) - 1 = k
    BY <1>1
  <2>2. g[k] = f[k]
    BY <1>1, <1>6
  <2>3. f[k + 1] = f[k] \o s[k + 1] /\ g[k + 1] = g[k] \o t[k + 1]
    BY <1>4, <2>1
  <2> QED
    BY <1>1, <2>1, <2>2, <2>3
<1> HIDE DEF same
<1>7. Nat \subseteq same
  BY <1>5, <1>6, NatInSet
<1>8. g[Len(s)] = f[Len(s)]
  BY <1>1, <1>7 DEF same
<1>9. Len(s) + 1 \in 1 .. Len(s) + 1 /\ (Len(s) + 1) - 1 = Len(s)
  BY <1>1
<1>10. g[Len(s) + 1] = g[Len(s)] \o x
  BY <1>1, <1>4, <1>9
<1> QED
  BY <1>1, <1>2, <1>3, <1>8, <1>10 DEF t

\* The first sequence, and the rest.
LEMMA FlattenTail ==
  ASSUME NEW T, NEW s \in Seq(Seq(T)), s # <<>>
  PROVE  Flatten(s) = Head(s) \o Flatten(Tail(s))
<1> DEFINE t == Tail(s)
<1>1. /\ Len(s) \in Nat /\ Len(s) >= 1 /\ Len(t) = Len(s) - 1 /\ Len(t) \in Nat
      /\ \A n \in 1 .. Len(t) : t[n] = s[n + 1] /\ s[n + 1] \in Seq(T)
      /\ t \in Seq(Seq(T)) /\ Head(s) = s[1] /\ s[1] \in Seq(T)
  OBVIOUS
<1>2. PICK f : Concatenates(f, s, Len(s)) /\ Flatten(s) = f[Len(s)]
  BY FlattenDef
<1> HIDE DEF t
<1>3. PICK g : Concatenates(g, t, Len(t)) /\ Flatten(t) = g[Len(t)]
  BY <1>1, FlattenDef
<1>4. /\ f[0] = <<>> /\ g[0] = <<>>
      /\ \A n \in 1 .. Len(s) : f[n] = f[n - 1] \o s[n]
      /\ \A n \in 1 .. Len(t) : g[n] = g[n - 1] \o t[n]
  <2>1. Len(t) \in Nat
    BY <1>1
  <2>2. f[0] = <<>> /\ \A n \in 1 .. Len(s) : f[n] = f[n - 1] \o s[n]
    BY ZenonT(30), <1>1, <1>2, ConcatenationStep
  <2>3. g[0] = <<>> /\ \A n \in 1 .. Len(t) : g[n] = g[n - 1] \o t[n]
    BY <1>3, <2>1, ConcatenationStep
  <2> QED
    BY <1>1, <2>2, <2>3
<1>5. \A n \in 0 .. Len(t) : g[n] \in Seq(T)
  BY <1>1, <1>3, ConcatenationType
<1> DEFINE good == {n \in Nat : n <= Len(t) => f[n + 1] = s[1] \o g[n]}
<1>6. 0 \in good
  <2>1. 1 \in 1 .. Len(s) /\ 1 - 1 = 0
    BY <1>1
  <2>2. f[1] = <<>> \o s[1]
    BY <1>4, <2>1
  <2>3. <<>> \o s[1] = s[1] /\ s[1] \o <<>> = s[1]
    BY <1>1, ConcatEmptySeq
  <2>4. f[0 + 1] = s[1] \o g[0]
    BY <1>1, <1>4, <2>2, <2>3
  <2> QED
    BY <2>4
<1>7. ASSUME NEW k \in Nat, k \in good PROVE k + 1 \in good
  <2>0. k + 1 \in Nat
    OBVIOUS
  <2> SUFFICES ASSUME k + 1 <= Len(t) PROVE f[(k + 1) + 1] = s[1] \o g[k + 1]
    BY <2>0, Zenon
  <2>1. /\ k + 1 \in 1 .. Len(t) /\ (k + 1) - 1 = k /\ k \in 0 .. Len(t)
        /\ (k + 1) + 1 \in 1 .. Len(s) /\ ((k + 1) + 1) - 1 = k + 1
    BY <1>1
  <2>2. f[k + 1] = s[1] \o g[k]
    <3>1. k <= Len(t) /\ k \in Nat
      BY <1>1
    <3> QED
      BY <1>7, <3>1
  <2>3. /\ f[(k + 1) + 1] = f[k + 1] \o s[(k + 1) + 1]
        /\ g[k + 1] = g[k] \o t[k + 1]
        /\ t[k + 1] = s[(k + 1) + 1] /\ s[(k + 1) + 1] \in Seq(T)
    BY <1>1, <1>4, <2>1
  <2>4. g[k] \in Seq(T)
    BY <1>5, <2>1
  <2>5. (s[1] \o g[k]) \o s[(k + 1) + 1] = s[1] \o (g[k] \o s[(k + 1) + 1])
    <3>1. s[1] \in Seq(T) /\ s[(k + 1) + 1] \in Seq(T)
      BY <1>1, <2>3
    <3>2. PICK a \in Seq(T), b \in Seq(T), c \in Seq(T) :
            a = s[1] /\ b = g[k] /\ c = s[(k + 1) + 1]
      BY <2>4, <3>1
    <3>3. (a \o b) \o c = a \o (b \o c)
      BY SMTT(30)
    <3> QED
      BY <3>2, <3>3
  <2>6. /\ f[(k + 1) + 1] = (s[1] \o g[k]) \o s[(k + 1) + 1]
        /\ s[1] \o g[k + 1] = s[1] \o (g[k] \o s[(k + 1) + 1])
    BY <2>2, <2>3
  <2> QED
    BY <2>5, <2>6
<1> HIDE DEF good
<1>8. Nat \subseteq good
  BY <1>6, <1>7, NatInSet
<1>9. f[Len(t) + 1] = s[1] \o g[Len(t)]
  <2>1. Len(t) \in Nat /\ Len(t) <= Len(t)
    BY <1>1
  <2> QED
    BY <1>8, <2>1 DEF good
<1>10. Len(t) + 1 = Len(s)
  BY <1>1
<1> QED
  BY <1>1, <1>2, <1>3, <1>9, <1>10 DEF t

--------------------------------------------------------------------------------
(* The transactions of one instruction *)

\* A series stops after its first failure, and at the latest after Parts.
LEMMA LastTransactionIs ==
  ASSUME NEW q, NEW n \in 1 .. Parts,
         n = Parts \/ KbusErrorQueuePop(q, n),
         \A i \in 1 .. n - 1 : ~KbusErrorQueuePop(q, i)
  PROVE  LastTransaction(q) = n
<1> DEFINE Last(m) == /\ m = Parts \/ KbusErrorQueuePop(q, m)
                      /\ \A i \in 1 .. m - 1 : ~KbusErrorQueuePop(q, i)
<1>1. Last(n)
  OBVIOUS
<1>2. ASSUME NEW m \in 1 .. Parts, Last(m) PROVE m = n
  <2>1. m \in Nat /\ n \in Nat /\ 1 <= m /\ 1 <= n /\ m <= Parts /\ n <= Parts
    BY PartsType
  <2>2. CASE m < n
    <3>1. m \in 1 .. n - 1 /\ m # Parts
      BY <2>1, <2>2, PartsType
    <3> QED
      BY <1>2, <3>1
  <2>3. CASE n < m
    <3>1. n \in 1 .. m - 1 /\ n # Parts
      BY <2>1, <2>3, PartsType
    <3> QED
      BY <1>1, <1>2, <3>1
  <2> QED
    BY <2>1, <2>2, <2>3
<1> HIDE DEF Last
<1>3. (CHOOSE m \in 1 .. Parts : Last(m)) = n
  BY <1>1, <1>2
<1> QED
  BY <1>3 DEF LastTransaction, Last

LEMMA LastTransactionType ==
  ASSUME NEW q
  PROVE  LastTransaction(q) \in 1 .. Parts
<1> DEFINE stop == {n \in 1 .. Parts : n = Parts \/ KbusErrorQueuePop(q, n)}
           free == {n \in Nat : \A i \in 1 .. n : i \notin stop}
<1>1. Parts \in stop
  BY PartsType
<1>2. 0 \in free
  OBVIOUS
<1>3. ~ (Nat \subseteq free)
  BY <1>1, PartsType
<1>4. PICK n \in Nat : n \in free /\ n + 1 \notin free
  BY <1>2, <1>3, NatInSet
<1>5. n + 1 \in stop
  <2>1. PICK i \in 1 .. n + 1 : i \in stop
    BY <1>4
  <2>2. i \notin 1 .. n
    BY <1>4, <2>1
  <2>3. i = n + 1
    BY <2>2
  <2> QED
    BY <2>1, <2>3
<1>6. /\ n + 1 \in 1 .. Parts
      /\ n + 1 = Parts \/ KbusErrorQueuePop(q, n + 1)
  BY <1>5
<1>7. ASSUME NEW i \in 1 .. (n + 1) - 1 PROVE ~KbusErrorQueuePop(q, i)
  <2>1. i \in 1 .. n /\ n + 1 <= Parts
    BY <1>6
  <2>2. i \in 1 .. Parts
    BY <2>1, PartsType
  <2> QED
    BY <1>4, <2>1, <2>2
<1>8. LastTransaction(q) = n + 1
  BY <1>6, <1>7, LastTransactionIs
<1> QED
  BY <1>6, <1>8

\* What an instruction of a co-simulation leaves of a queue.
LEMMA AfterIs ==
  ASSUME NEW S, NEW q \in Seq(S), NEW n \in Nat
  PROVE  After(q, <<>>, n) = SubSeq(q, n + 1, Len(q))
<1>1. (IF n < Len(<<>>) THEN n ELSE Len(<<>>)) = 0
  OBVIOUS
<1>2. SubSeq(<<>>, 1, 0) = <<>>
  OBVIOUS
<1>3. q \o <<>> = q
  BY ConcatEmptySeq
<1>4. Len(q) + 0 = Len(q)
  OBVIOUS
<1> QED
  BY <1>1, <1>2, <1>3, <1>4 DEF After

LEMMA AfterType ==
  ASSUME NEW S, NEW q \in Seq(S), NEW n \in Nat
  PROVE  After(q, <<>>, n) \in Seq(S)
<1>1. \A i \in n + 1 .. Len(q) : q[i] \in S
  OBVIOUS
<1>2. n + 1 \in Int /\ Len(q) \in Int
  OBVIOUS
<1>3. SubSeq(q, n + 1, Len(q)) \in Seq(S)
  BY <1>1, <1>2, SubSeqProperties
<1> QED
  BY <1>3, AfterIs

\* An instruction that pops the first part of a queue leaves the second.
LEMMA AfterFirst ==
  ASSUME NEW S, NEW s \in Seq(S), NEW t \in Seq(S)
  PROVE  After(s \o t, <<>>, Len(s)) = t
<1> DEFINE q == s \o t
           u == SubSeq(q, Len(s) + 1, Len(q))
<1>1. /\ q \in Seq(S) /\ Len(q) = Len(s) + Len(t)
      /\ Len(s) \in Nat /\ Len(t) \in Nat
      /\ \A i \in 1 .. Len(q) : q[i] = IF i <= Len(s) THEN s[i] ELSE t[i - Len(s)]
  BY ConcatProperties
<1> HIDE DEF q
<1>2. \A i \in Len(s) + 1 .. Len(q) : q[i] \in S
  BY <1>1
<1>3. /\ u \in Seq(S) /\ Len(u) = Len(t)
      /\ \A i \in 1 .. Len(t) : u[i] = q[Len(s) + 1 + i - 1]
  <2>1. Len(s) + 1 \in Int /\ Len(q) \in Int
    BY <1>1
  <2>2. /\ u \in Seq(S)
        /\ Len(u) = IF Len(s) + 1 <= Len(q) THEN Len(q) - (Len(s) + 1) + 1 ELSE 0
        /\ \A i \in 1 .. Len(q) - (Len(s) + 1) + 1 : u[i] = q[Len(s) + 1 + i - 1]
    BY <1>2, <2>1, SubSeqProperties
  <2> QED
    BY <1>1, <2>2
<1> HIDE DEF u
<1>4. ASSUME NEW i \in 1 .. Len(t) PROVE u[i] = t[i]
  <2>1. /\ Len(s) + 1 + i - 1 = Len(s) + i /\ Len(s) + i \in 1 .. Len(q)
        /\ ~ (Len(s) + i <= Len(s)) /\ (Len(s) + i) - Len(s) = i
    BY <1>1
  <2>2. u[i] = q[Len(s) + i]
    BY <1>3, <2>1
  <2>3. q[Len(s) + i] = t[(Len(s) + i) - Len(s)]
    BY <1>1, <2>1
  <2> QED
    BY <2>1, <2>2, <2>3
<1>5. u = t
  BY <1>3, <1>4, SeqEqual
<1> QED
  BY <1>1, <1>5, AfterIs DEF q, u
--------------------------------------------------------------------------------
(* The instructions the RTL is ahead *)

PendingFlags == [n \in DOMAIN pending |-> pending[n].flags]
PendingWords == [n \in DOMAIN pending |-> pending[n].words]

LEMMA FlagSeriesType ==
  ASSUME NEW f \in FlagSeries
  PROVE  /\ f \in Seq(BOOLEAN) /\ Len(f) \in 1 .. Parts
         /\ \A i \in 1 .. Len(f) - 1 : ~f[i]
         /\ Len(f) = Parts \/ f[Len(f)]
         /\ f = [i \in 1 .. Len(f) |-> f[i]]
<1>1. CASE f = [i \in 1 .. Parts |-> FALSE]
  <2>1. f \in Seq(BOOLEAN) /\ Len(f) = Parts
    BY <1>1, PartsType
  <2>2. \A i \in 1 .. Parts - 1 : ~f[i]
    BY <1>1, PartsType
  <2> QED
    BY <1>1, <2>1, <2>2, PartsType
<1>2. ASSUME NEW n \in 1 .. Parts, f = [i \in 1 .. n |-> i = n]
      PROVE  /\ f \in Seq(BOOLEAN) /\ Len(f) = n
             /\ \A i \in 1 .. n - 1 : ~f[i]
             /\ f[n]
  <2>1. n \in Nat /\ n \in 1 .. n
    BY PartsType
  <2>2. f \in Seq(BOOLEAN) /\ Len(f) = n
    BY <1>2, <2>1
  <2>3. ASSUME NEW i \in 1 .. n - 1 PROVE ~f[i]
    <3>1. i \in 1 .. n /\ i # n
      BY <2>1
    <3> QED
      BY <1>2, <3>1
  <2>4. f[n]
    BY <1>2, <2>1
  <2> QED
    BY <2>2, <2>3, <2>4
<1> QED
  BY <1>1, <1>2 DEF FlagSeries

\* What the RTL may have executed: the outcomes are of the transactions it made.
LEMMA RtlInstrType ==
  ASSUME NEW i \in RtlInstr
  PROVE  /\ i.op \in {"LDK", "STK", "KBO"} /\ i.op1 \in Regs
         /\ i.flags \in Seq(BOOLEAN) /\ i.words \in Seq(Word)
         /\ i.op # "KBO" => i.flags \in FlagSeries
         /\ i.op = "KBO" => Len(i.flags) = 1
         /\ i.op # "LDK" => i.words = <<>>
         /\ i.op = "LDK" => Len(i.words) = Len(i.flags)
<1>0. <<>> \in Seq(Word)
  OBVIOUS
<1>1. CASE i \in [op : {"KBO"}, op1 : Regs, flags : [1 .. 1 -> BOOLEAN], words : {<<>>}]
  <2>1. /\ i.op = "KBO" /\ i.op1 \in Regs /\ i.flags \in [1 .. 1 -> BOOLEAN]
        /\ i.words = <<>>
    BY <1>1
  <2>2. i.flags \in Seq(BOOLEAN) /\ Len(i.flags) = 1
    BY <2>1
  <2> QED
    BY <1>0, <2>1, <2>2
<1>2. CASE i \in [op : {"STK"}, op1 : Regs, flags : FlagSeries, words : {<<>>}]
  <2>1. /\ i.op = "STK" /\ i.op1 \in Regs /\ i.flags \in FlagSeries /\ i.words = <<>>
    BY <1>2
  <2> QED
    BY <1>0, <2>1, FlagSeriesType
<1>3. ASSUME NEW f \in FlagSeries,
             i \in [op : {"LDK"}, op1 : Regs, flags : {f}, words : [DOMAIN f -> Word]]
      PROVE  /\ i.op = "LDK" /\ i.op1 \in Regs /\ i.flags = f
             /\ i.words \in Seq(Word) /\ Len(i.words) = Len(f)
  <2>1. /\ i.op = "LDK" /\ i.op1 \in Regs /\ i.flags = f /\ i.words \in [DOMAIN f -> Word]
    BY <1>3
  <2>2. Len(f) \in Nat /\ DOMAIN f = 1 .. Len(f)
    BY FlagSeriesType
  <2> QED
    BY <2>1, <2>2
<1> QED
  BY <1>1, <1>2, <1>3, FlagSeriesType DEF RtlInstr

LEMMA PendingTypes ==
  ASSUME pending \in Seq(RtlInstr)
  PROVE  PendingFlags \in Seq(Seq(BOOLEAN)) /\ PendingWords \in Seq(Seq(Word))
<1>1. DOMAIN pending = 1 .. Len(pending) /\ Len(pending) \in Nat
  OBVIOUS
<1>2. ASSUME NEW n \in 1 .. Len(pending)
      PROVE  pending[n].flags \in Seq(BOOLEAN) /\ pending[n].words \in Seq(Word)
  BY <1>1, RtlInstrType
<1> QED
  BY <1>1, <1>2 DEF PendingFlags, PendingWords

LEMMA PendingAppend ==
  ASSUME pending \in Seq(RtlInstr), NEW i \in RtlInstr, pending' = Append(pending, i)
  PROVE  /\ PendingFlags' = Append(PendingFlags, i.flags)
         /\ PendingWords' = Append(PendingWords, i.words)
<1>1. /\ Len(pending) \in Nat /\ DOMAIN pending = 1 .. Len(pending)
      /\ DOMAIN pending' = 1 .. Len(pending) + 1
      /\ \A n \in 1 .. Len(pending) : pending'[n] = pending[n]
      /\ pending'[Len(pending) + 1] = i
  OBVIOUS
<1>2. /\ PendingFlags \in Seq(Seq(BOOLEAN)) /\ PendingWords \in Seq(Seq(Word))
      /\ i.flags \in Seq(BOOLEAN) /\ i.words \in Seq(Word)
  BY PendingTypes, RtlInstrType
<1>3. Len(PendingFlags) = Len(pending) /\ Len(PendingWords) = Len(pending)
  BY <1>1, <1>2 DEF PendingFlags, PendingWords
<1>4. pending' \in Seq(RtlInstr)
  OBVIOUS
<1>5. PendingFlags' \in Seq(Seq(BOOLEAN)) /\ PendingWords' \in Seq(Seq(Word))
  <2>1. ASSUME NEW n \in 1 .. Len(pending) + 1
        PROVE  pending'[n].flags \in Seq(BOOLEAN) /\ pending'[n].words \in Seq(Word)
    BY <1>1, RtlInstrType
  <2> QED
    BY <1>1, <2>1 DEF PendingFlags, PendingWords
<1>6. Len(PendingFlags') = Len(pending) + 1 /\ Len(PendingWords') = Len(pending) + 1
  BY <1>1, <1>5 DEF PendingFlags, PendingWords
<1>7. ASSUME NEW n \in 1 .. Len(pending) + 1
      PROVE  /\ PendingFlags'[n] = Append(PendingFlags, i.flags)[n]
             /\ PendingWords'[n] = Append(PendingWords, i.words)[n]
  <2>1. PendingFlags'[n] = pending'[n].flags /\ PendingWords'[n] = pending'[n].words
    BY <1>1 DEF PendingFlags, PendingWords
  <2>2. CASE n = Len(pending) + 1
    BY <1>1, <1>2, <1>3, <2>1, <2>2
  <2>3. CASE n \in 1 .. Len(pending)
    <3>1. /\ Append(PendingFlags, i.flags)[n] = PendingFlags[n]
          /\ Append(PendingWords, i.words)[n] = PendingWords[n]
      BY <1>2, <1>3, <2>3
    <3>2. /\ PendingFlags[n] = pending[n].flags /\ PendingWords[n] = pending[n].words
      BY <1>1, <2>3 DEF PendingFlags, PendingWords
    <3> QED
      BY <1>1, <2>1, <2>3, <3>1, <3>2
  <2> QED
    <3>1. n = Len(pending) + 1 \/ n \in 1 .. Len(pending)
      BY <1>1
    <3> QED
      BY <2>2, <2>3, <3>1
<1>8. /\ Append(PendingFlags, i.flags) \in Seq(Seq(BOOLEAN))
      /\ Append(PendingWords, i.words) \in Seq(Seq(Word))
      /\ Len(Append(PendingFlags, i.flags)) = Len(pending) + 1
      /\ Len(Append(PendingWords, i.words)) = Len(pending) + 1
  BY <1>2, <1>3
<1>9. PendingFlags' = Append(PendingFlags, i.flags)
  BY <1>5, <1>6, <1>7, <1>8, SeqEqual
<1>10. PendingWords' = Append(PendingWords, i.words)
  BY <1>5, <1>6, <1>7, <1>8, SeqEqual
<1> QED
  BY <1>9, <1>10

LEMMA PendingTail ==
  ASSUME pending \in Seq(RtlInstr), pending # <<>>, pending' = Tail(pending)
  PROVE  /\ PendingFlags # <<>> /\ PendingWords # <<>>
         /\ Head(PendingFlags) = Head(pending).flags
         /\ Head(PendingWords) = Head(pending).words
         /\ PendingFlags' = Tail(PendingFlags)
         /\ PendingWords' = Tail(PendingWords)
<1>1. /\ Len(pending) \in Nat /\ Len(pending) >= 1 /\ DOMAIN pending = 1 .. Len(pending)
      /\ pending' \in Seq(RtlInstr) /\ Len(pending') = Len(pending) - 1
      /\ DOMAIN pending' = 1 .. Len(pending) - 1
      /\ \A n \in 1 .. Len(pending) - 1 : pending'[n] = pending[n + 1]
      /\ Head(pending) = pending[1]
  OBVIOUS
<1>2. PendingFlags \in Seq(Seq(BOOLEAN)) /\ PendingWords \in Seq(Seq(Word))
  BY PendingTypes
<1>3. /\ Len(PendingFlags) = Len(pending) /\ Len(PendingWords) = Len(pending)
      /\ PendingFlags[1] = pending[1].flags /\ PendingWords[1] = pending[1].words
  BY <1>1, <1>2 DEF PendingFlags, PendingWords
<1>4. PendingFlags # <<>> /\ PendingWords # <<>>
  BY <1>1, <1>3
<1>5. /\ Head(PendingFlags) = PendingFlags[1] /\ Head(PendingWords) = PendingWords[1]
  BY <1>2, <1>4
<1>6. PendingFlags' \in Seq(Seq(BOOLEAN)) /\ PendingWords' \in Seq(Seq(Word))
  <2>1. ASSUME NEW n \in 1 .. Len(pending) - 1
        PROVE  pending'[n].flags \in Seq(BOOLEAN) /\ pending'[n].words \in Seq(Word)
    BY <1>1, RtlInstrType
  <2> QED
    BY <1>1, <2>1 DEF PendingFlags, PendingWords
<1>7. Len(PendingFlags') = Len(pending) - 1 /\ Len(PendingWords') = Len(pending) - 1
  BY <1>1, <1>6 DEF PendingFlags, PendingWords
<1>8. /\ Tail(PendingFlags) \in Seq(Seq(BOOLEAN))
      /\ Tail(PendingWords) \in Seq(Seq(Word))
      /\ Len(Tail(PendingFlags)) = Len(pending) - 1
      /\ Len(Tail(PendingWords)) = Len(pending) - 1
  BY <1>2, <1>3, <1>4
<1>9. ASSUME NEW n \in 1 .. Len(pending) - 1
      PROVE  /\ PendingFlags'[n] = Tail(PendingFlags)[n]
             /\ PendingWords'[n] = Tail(PendingWords)[n]
  <2>1. PendingFlags'[n] = pending'[n].flags /\ PendingWords'[n] = pending'[n].words
    BY <1>1 DEF PendingFlags, PendingWords
  <2>2. /\ Tail(PendingFlags)[n] = PendingFlags[n + 1]
        /\ Tail(PendingWords)[n] = PendingWords[n + 1]
    BY <1>2, <1>3, <1>4
  <2>3. n + 1 \in 1 .. Len(pending)
    BY <1>1
  <2>4. /\ PendingFlags[n + 1] = pending[n + 1].flags
        /\ PendingWords[n + 1] = pending[n + 1].words
    BY <1>1, <2>3 DEF PendingFlags, PendingWords
  <2> QED
    BY <1>1, <2>1, <2>2, <2>4
<1>10. PendingFlags' = Tail(PendingFlags)
  BY <1>6, <1>7, <1>8, <1>9, SeqEqual
<1>11. PendingWords' = Tail(PendingWords)
  BY <1>6, <1>7, <1>8, <1>9, SeqEqual
<1> QED
  BY <1>3, <1>4, <1>5, <1>10, <1>11
--------------------------------------------------------------------------------
(* The invariant *)

CosimInv == CosimTypeOK /\ QueuesMatchPending

LEMMA ZeroKeyType == ZeroKey \in Key
  BY WordsAssumption DEF ZeroKey, Key

LEMMA ModelExecutesType ==
  ASSUME KbusType, NEW op, NEW op1 \in Regs, ModelExecutes(op, op1)
  PROVE  KbusType'
<1>0. /\ gpr \in [Regs -> Key] /\ ldkQ \in Seq(Word) /\ kbusErrorQ \in Seq(BOOLEAN)
      /\ errorFlag \in BOOLEAN
  BY DEF KbusType
<1>1. kbusErrorQ \o <<>> = kbusErrorQ /\ ldkQ \o <<>> = ldkQ
  BY <1>0, ConcatEmptySeq
<1> DEFINE n == LastTransaction(kbusErrorQ)
<1>2. n \in 1 .. Parts /\ n \in Nat
  BY LastTransactionType, PartsType
<1>3. /\ After(kbusErrorQ, <<>>, n) \in Seq(BOOLEAN)
      /\ After(kbusErrorQ, <<>>, 1) \in Seq(BOOLEAN)
      /\ After(ldkQ, <<>>, n) \in Seq(Word)
  BY <1>0, <1>2, AfterType
<1>4. \A i \in Nat \ {0} : KbusErrorQueuePop(kbusErrorQ, i) \in BOOLEAN
  BY <1>0 DEF KbusErrorQueuePop
<1> HIDE DEF n
<1>5. CASE op = "LDK" /\ LDK(op1, <<>>, <<>>)
  <2>1. [i \in 1 .. Parts |-> LdkQueuePop(ldkQ, i)] \in Key
    BY <1>0, WordsAssumption DEF LdkQueuePop, Key
  <2>2. gpr' = gpr \/ gpr' = [gpr EXCEPT ![op1] = [i \in 1 .. Parts |-> LdkQueuePop(ldkQ, i)]]
    BY <1>1, <1>5 DEF LDK
  <2>3. gpr' \in [Regs -> Key]
    BY <1>0, <2>1, <2>2
  <2>4. /\ kbusErrorQ' = After(kbusErrorQ, <<>>, n)
        /\ ldkQ' = After(ldkQ, <<>>, n)
        /\ errorFlag' = KbusErrorQueuePop(kbusErrorQ, n)
    BY <1>1, <1>5 DEF LDK, n
  <2> QED
    BY <1>2, <1>3, <1>4, <2>3, <2>4 DEF KbusType
<1>6. CASE op = "STK" /\ STK(<<>>)
  <2>1. /\ kbusErrorQ' = After(kbusErrorQ, <<>>, n)
        /\ errorFlag' = KbusErrorQueuePop(kbusErrorQ, n)
        /\ UNCHANGED <<gpr, ldkQ>>
    BY <1>1, <1>6 DEF STK, n
  <2> QED
    BY <1>0, <1>2, <1>3, <1>4, <2>1 DEF KbusType
<1>7. CASE op = "KBO" /\ KBO(<<>>)
  <2>1. /\ kbusErrorQ' = After(kbusErrorQ, <<>>, 1)
        /\ errorFlag' = KbusErrorQueuePop(kbusErrorQ, 1)
        /\ UNCHANGED <<gpr, ldkQ>>
    BY <1>1, <1>7 DEF KBO
  <2> QED
    BY <1>0, <1>3, <1>4, <2>1 DEF KbusType
<1> QED
  BY <1>5, <1>6, <1>7 DEF ModelExecutes

\* While the queues match, the first instruction's results are at their front.
LEMMA FrontOfQueues ==
  ASSUME CosimInv, synced, pending # <<>>, pending' = Tail(pending)
  PROVE  /\ Head(pending) \in RtlInstr
         /\ Flatten(PendingFlags') \in Seq(BOOLEAN)
         /\ Flatten(PendingWords') \in Seq(Word)
         /\ kbusErrorQ = Head(pending).flags \o Flatten(PendingFlags')
         /\ ldkQ = Head(pending).words \o Flatten(PendingWords')
<1>1. pending \in Seq(RtlInstr) /\ Head(pending) \in RtlInstr
  BY DEF CosimInv, CosimTypeOK
<1>2. PendingFlags \in Seq(Seq(BOOLEAN)) /\ PendingWords \in Seq(Seq(Word))
  BY <1>1, PendingTypes
<1>3. /\ PendingFlags # <<>> /\ PendingWords # <<>>
      /\ Head(PendingFlags) = Head(pending).flags
      /\ Head(PendingWords) = Head(pending).words
      /\ PendingFlags' = Tail(PendingFlags)
      /\ PendingWords' = Tail(PendingWords)
  BY <1>1, PendingTail
<1>4. Tail(PendingFlags) \in Seq(Seq(BOOLEAN)) /\ Tail(PendingWords) \in Seq(Seq(Word))
  BY <1>2, <1>3
<1>5. kbusErrorQ = Flatten(PendingFlags) /\ ldkQ = Flatten(PendingWords)
  BY DEF CosimInv, QueuesMatchPending, PendingFlags, PendingWords
<1>6. /\ Flatten(PendingFlags) = Head(PendingFlags) \o Flatten(Tail(PendingFlags))
      /\ Flatten(PendingWords) = Head(PendingWords) \o Flatten(Tail(PendingWords))
  BY <1>2, <1>3, FlattenTail
<1> QED
  BY <1>1, <1>3, <1>4, <1>5, <1>6, FlattenType

\* The transactions an instruction makes are those it made in the RTL.
LEMMA LastOfSeries ==
  ASSUME NEW f \in FlagSeries, NEW rest \in Seq(BOOLEAN)
  PROVE  /\ LastTransaction(f \o rest) = Len(f)
         /\ KbusErrorQueuePop(f \o rest, Len(f)) = f[Len(f)]
<1> DEFINE q == f \o rest
<1>1. /\ f \in Seq(BOOLEAN) /\ Len(f) \in 1 .. Parts
      /\ \A i \in 1 .. Len(f) - 1 : ~f[i]
      /\ Len(f) = Parts \/ f[Len(f)]
  BY FlagSeriesType
<1>2. /\ Len(f) \in Nat /\ Len(rest) \in Nat /\ Len(f) >= 1
      /\ Len(q) = Len(f) + Len(rest)
      /\ \A i \in 1 .. Len(f) : q[i] = f[i] /\ f[i] \in BOOLEAN
  BY <1>1, PartsType
<1> HIDE DEF q
<1>3. \A i \in 1 .. Len(f) : KbusErrorQueuePop(q, i) = f[i]
  <2> TAKE i \in 1 .. Len(f)
  <2>1. i <= Len(q) /\ q[i] = f[i] /\ f[i] \in BOOLEAN
    BY <1>2
  <2> QED
    BY <2>1 DEF KbusErrorQueuePop
<1>4. Len(f) \in 1 .. Len(f) /\ \A i \in 1 .. Len(f) - 1 : i \in 1 .. Len(f)
  BY <1>2
<1>5. /\ Len(f) = Parts \/ KbusErrorQueuePop(q, Len(f))
      /\ \A i \in 1 .. Len(f) - 1 : ~KbusErrorQueuePop(q, i)
  BY <1>1, <1>3, <1>4
<1>6. LastTransaction(q) = Len(f)
  BY <1>1, <1>5, LastTransactionIs
<1> QED
  BY <1>3, <1>4, <1>6 DEF q

\* An instruction of the model takes its own results, all of them and no others,
\* and has the outcome they tell.
LEMMA ModelFollowsStep ==
  ASSUME CosimInv, synced, ModelFollows
  PROVE  LET i      == Head(pending)
             failed == i.flags[Len(i.flags)]
         IN /\ kbusErrorQ' = Flatten(PendingFlags')
            /\ ldkQ' = Flatten(PendingWords')
            /\ errorFlag' = failed
            /\ gpr' = IF i.op = "LDK" /\ ~failed
                      THEN [gpr EXCEPT ![i.op1] = i.words] ELSE gpr
<1> DEFINE i == Head(pending)
           f == i.flags
           w == i.words
           restF == Flatten(PendingFlags')
           restW == Flatten(PendingWords')
<1>1. /\ i \in RtlInstr /\ restF \in Seq(BOOLEAN) /\ restW \in Seq(Word)
      /\ kbusErrorQ = f \o restF /\ ldkQ = w \o restW
  BY FrontOfQueues DEF ModelFollows
<1>2. /\ i.op \in {"LDK", "STK", "KBO"} /\ i.op1 \in Regs
      /\ f \in Seq(BOOLEAN) /\ w \in Seq(Word)
      /\ i.op # "KBO" => f \in FlagSeries
      /\ i.op = "KBO" => Len(f) = 1
      /\ i.op # "LDK" => w = <<>>
      /\ i.op = "LDK" => Len(w) = Len(f)
  BY <1>1, RtlInstrType
<1>3. ModelExecutes(i.op, i.op1)
  BY DEF ModelFollows
<1> HIDE DEF i, f, w, restF, restW
<1>4. /\ kbusErrorQ \in Seq(BOOLEAN) /\ ldkQ \in Seq(Word)
      /\ kbusErrorQ \o <<>> = kbusErrorQ /\ ldkQ \o <<>> = ldkQ
  BY ConcatEmptySeq DEF CosimInv, CosimTypeOK, KbusType
<1>5. After(kbusErrorQ, <<>>, Len(f)) = restF
  BY <1>1, <1>2, AfterFirst
<1>6. i.op # "LDK" => ldkQ = restW
  BY <1>1, <1>2, ConcatEmptySeq
<1>7. i.op # "KBO" => /\ LastTransaction(kbusErrorQ) = Len(f)
                      /\ KbusErrorQueuePop(kbusErrorQ, Len(f)) = f[Len(f)]
  BY <1>1, <1>2, LastOfSeries
<1>8. CASE i.op = "LDK"
  <2>1. LDK(i.op1, <<>>, <<>>)
    BY <1>3, <1>8 DEF ModelExecutes
  <2>2. After(ldkQ, <<>>, Len(f)) = restW
    BY <1>1, <1>2, <1>8, AfterFirst
  <2>3. ~f[Len(f)] => [j \in 1 .. Parts |-> LdkQueuePop(ldkQ, j)] = w
    <3> SUFFICES ASSUME ~f[Len(f)]
                 PROVE  [j \in 1 .. Parts |-> LdkQueuePop(ldkQ, j)] = w
      OBVIOUS
    <3>1. Len(f) = Parts
      BY <1>2, <1>8, FlagSeriesType
    <3>2. Len(w) = Parts /\ w = [j \in 1 .. Parts |-> w[j]]
      BY <1>2, <1>8, <3>1
    <3>3. \A j \in 1 .. Parts : j <= Len(ldkQ) /\ ldkQ[j] = w[j]
      BY <1>1, <1>2, <3>2, PartsType
    <3>4. \A j \in 1 .. Parts : LdkQueuePop(ldkQ, j) = w[j]
      BY <3>3 DEF LdkQueuePop
    <3> QED
      BY <3>2, <3>4
  <2>4. /\ kbusErrorQ' = restF /\ ldkQ' = restW /\ errorFlag' = f[Len(f)]
        /\ gpr' = IF f[Len(f)] THEN gpr
                  ELSE [gpr EXCEPT ![i.op1] =
                          [j \in 1 .. Parts |-> LdkQueuePop(ldkQ, j)]]
    BY <1>4, <1>5, <1>7, <1>8, <2>1, <2>2 DEF LDK
  <2> QED
    BY <1>8, <2>3, <2>4 DEF i, f, w, restF, restW
<1>9. CASE i.op = "STK"
  <2>1. STK(<<>>)
    BY <1>3, <1>9 DEF ModelExecutes
  <2>2. /\ kbusErrorQ' = restF /\ ldkQ' = restW /\ errorFlag' = f[Len(f)]
        /\ gpr' = gpr
    BY <1>4, <1>5, <1>6, <1>7, <1>9, <2>1 DEF STK
  <2> QED
    BY <1>9, <2>2 DEF i, f, w, restF, restW
<1>10. CASE i.op = "KBO"
  <2>1. KBO(<<>>)
    BY <1>3, <1>10 DEF ModelExecutes
  <2>2. Len(f) = 1 /\ f[1] \in BOOLEAN
    BY SMTT(30), <1>2, <1>10
  <2>3. 1 <= Len(kbusErrorQ) /\ kbusErrorQ[1] = f[1]
    <3>1. /\ Len(f \o restF) = Len(f) + Len(restF) /\ Len(restF) \in Nat
          /\ \A j \in 1 .. Len(f) + Len(restF) :
               (f \o restF)[j] = IF j <= Len(f) THEN f[j] ELSE restF[j - Len(f)]
      BY <1>1, <1>2, ConcatProperties
    <3> QED
      BY <1>1, <2>2, <3>1
  <2>4. KbusErrorQueuePop(kbusErrorQ, 1) = f[1]
    BY <2>2, <2>3 DEF KbusErrorQueuePop
  <2>5. /\ kbusErrorQ' = restF /\ ldkQ' = restW /\ errorFlag' = f[Len(f)]
        /\ gpr' = gpr
    BY <1>4, <1>5, <1>6, <1>10, <2>1, <2>2, <2>4 DEF KBO
  <2> QED
    BY <1>10, <2>5 DEF i, f, w, restF, restW
<1> QED
  BY <1>2, <1>8, <1>9, <1>10

LEMMA NextInv == CosimInv /\ [CosimNext]_cosimVars => CosimInv'
<1> SUFFICES ASSUME CosimInv, [CosimNext]_cosimVars PROVE CosimInv'
  OBVIOUS
<1>0. /\ gpr \in [Regs -> Key] /\ ldkQ \in Seq(Word) /\ kbusErrorQ \in Seq(BOOLEAN)
      /\ errorFlag \in BOOLEAN /\ pending \in Seq(RtlInstr) /\ synced \in BOOLEAN
  BY DEF CosimInv, CosimTypeOK, KbusType
<1>1. synced => kbusErrorQ = Flatten(PendingFlags) /\ ldkQ = Flatten(PendingWords)
  BY DEF CosimInv, QueuesMatchPending, PendingFlags, PendingWords
<1>2. SUFFICES /\ CosimTypeOK'
               /\ synced' => /\ kbusErrorQ' = Flatten(PendingFlags')
                             /\ ldkQ' = Flatten(PendingWords')
  BY DEF CosimInv, QueuesMatchPending, PendingFlags, PendingWords
<1>3. ASSUME NEW i \in RtlInstr, RtlExecutes(i)
      PROVE  /\ CosimTypeOK'
             /\ synced' => /\ kbusErrorQ' = Flatten(PendingFlags')
                           /\ ldkQ' = Flatten(PendingWords')
  <2>1. i.flags \in Seq(BOOLEAN) /\ i.words \in Seq(Word)
    BY RtlInstrType
  <2>2. /\ pending' = Append(pending, i) /\ synced' = synced
        /\ kbusErrorQ' = kbusErrorQ \o i.flags
        /\ ldkQ' = ldkQ \o i.words
        /\ gpr' = gpr /\ errorFlag' = errorFlag
    BY <1>3 DEF RtlExecutes
  <2>3. CosimTypeOK'
    BY <1>0, <2>1, <2>2 DEF CosimTypeOK, KbusType
  <2>4. /\ PendingFlags' = Append(PendingFlags, i.flags)
        /\ PendingWords' = Append(PendingWords, i.words)
    BY <1>0, <2>2, PendingAppend
  <2>5. PendingFlags \in Seq(Seq(BOOLEAN)) /\ PendingWords \in Seq(Seq(Word))
    BY <1>0, PendingTypes
  <2>6. /\ Flatten(PendingFlags') = Flatten(PendingFlags) \o i.flags
        /\ Flatten(PendingWords') = Flatten(PendingWords) \o i.words
    BY <2>1, <2>4, <2>5, FlattenAppend
  <2> QED
    BY <1>1, <2>2, <2>3, <2>6
<1>4. ASSUME pending' = <<>>, kbusErrorQ' = <<>>, ldkQ' = <<>>
      PROVE  kbusErrorQ' = Flatten(PendingFlags') /\ ldkQ' = Flatten(PendingWords')
  <2>1. PendingFlags' = <<>> /\ PendingWords' = <<>>
    BY <1>4 DEF PendingFlags, PendingWords
  <2> QED
    BY <1>4, <2>1, FlattenEmpty
<1>5. CASE ModelFollows
  <2>1. CosimTypeOK'
    <3>1. KbusType /\ Head(pending).op1 \in Regs
      BY <1>0, <1>5, RtlInstrType DEF CosimInv, CosimTypeOK, ModelFollows
    <3>2. KbusType'
      BY <1>5, <3>1, ModelExecutesType DEF ModelFollows
    <3>3. pending' \in Seq(RtlInstr)
      BY <1>0, <1>5 DEF ModelFollows
    <3>4. synced' \in BOOLEAN
      BY <1>0, <1>5 DEF ModelFollows
    <3> QED
      BY <3>2, <3>3, <3>4 DEF CosimTypeOK
  <2>2. CASE synced
    BY <1>5, <2>1, <2>2, ModelFollowsStep
  <2>3. CASE ~synced /\ NothingLeft
    BY <1>4, <2>1, <2>3 DEF NothingLeft
  <2>4. CASE ~synced /\ ~NothingLeft
    BY <1>5, <2>1, <2>4 DEF ModelFollows
  <2> QED
    BY <2>2, <2>3, <2>4
<1>6. ASSUME UNCHANGED <<ldkQ, kbusErrorQ, pending, synced>>,
             gpr' \in [Regs -> Key], errorFlag' \in BOOLEAN
      PROVE  /\ CosimTypeOK'
             /\ synced' => /\ kbusErrorQ' = Flatten(PendingFlags')
                           /\ ldkQ' = Flatten(PendingWords')
  BY <1>0, <1>1, <1>6 DEF CosimTypeOK, KbusType, PendingFlags, PendingWords
<1>7. CASE BothReset
  <2>1. /\ gpr' = [r \in Regs |-> ZeroKey] /\ errorFlag' = FALSE
        /\ ldkQ' = ldkQ /\ kbusErrorQ' = kbusErrorQ /\ pending' = <<>>
        /\ synced' = (synced /\ pending = <<>>)
    BY <1>7 DEF BothReset, ResetKbus
  <2>2. CosimTypeOK'
    <3>1. pending' \in Seq(RtlInstr) /\ gpr' \in [Regs -> Key]
      BY <2>1, ZeroKeyType
    <3> QED
      BY <1>0, <2>1, <3>1 DEF CosimTypeOK, KbusType
  <2>3. ASSUME synced'
        PROVE  kbusErrorQ' = Flatten(PendingFlags') /\ ldkQ' = Flatten(PendingWords')
    <3>1. PendingFlags' = PendingFlags /\ PendingWords' = PendingWords
      BY <2>1, <2>3 DEF PendingFlags, PendingWords
    <3> QED
      BY <1>1, <2>1, <2>3, <3>1
  <2> QED
    BY <2>2, <2>3
<1> QED
  BY <1>0, <1>3, <1>5, <1>6, <1>7 DEF CosimNext, BothCompute, cosimVars, kbusVars

LEMMA CosimCorrect == CosimSpec => []CosimInv
<1>1. CosimInit => CosimInv
  <2> SUFFICES ASSUME CosimInit PROVE CosimInv
    OBVIOUS
  <2>1. pending = <<>> /\ kbusErrorQ = <<>> /\ ldkQ = <<>> /\ synced = TRUE
    BY DEF CosimInit, KbusInit
  <2>2. CosimTypeOK
    <3>1. gpr \in [Regs -> Key] /\ errorFlag \in BOOLEAN
      BY ZeroKeyType DEF CosimInit, KbusInit
    <3>2. \A S : <<>> \in Seq(S)
      OBVIOUS
    <3> QED
      BY <2>1, <3>1, <3>2 DEF CosimTypeOK, KbusType
  <2>3. PendingFlags = <<>> /\ PendingWords = <<>>
    BY <2>1 DEF PendingFlags, PendingWords
  <2>4. QueuesMatchPending
    BY <2>1, <2>3, FlattenEmpty DEF QueuesMatchPending, PendingFlags, PendingWords
  <2> QED
    BY <2>2, <2>4 DEF CosimInv
<1> QED
  BY <1>1, NextInv, PTL DEF CosimSpec

\* Queues, registers and history are well typed in every reachable state.
THEOREM CosimTypeCorrect == CosimSpec => []CosimTypeOK
  BY CosimCorrect, PTL DEF CosimInv

\* The queues hold the results of the instructions that the model has not executed
\* yet, in order, and only theirs: no instruction takes the flag or the word of
\* another one or leaves its own behind, however far the RTL is ahead.  Only a
\* reset while the RTL is ahead ends this (Reset does not empty the queues),
\* until the model has used up what was left.
THEOREM QueuesHoldPending == CosimSpec => []QueuesMatchPending
  BY CosimCorrect, PTL DEF CosimInv

\* So every key bus instruction of the model has the outcome it had in the RTL:
\* the error flag of its last transaction, and a register that is loaded whole
\* with the words of this instruction, or not at all.
THEOREM ModelFollowsTheRtl == CosimSpec => ModelFollowsRtl
<1>1. CosimInv /\ [CosimNext]_cosimVars =>
        [ModelFollows /\ synced =>
           LET i      == Head(pending)
               failed == i.flags[Len(i.flags)]
           IN /\ errorFlag' = failed
              /\ gpr' = IF i.op = "LDK" /\ ~failed
                        THEN [gpr EXCEPT ![i.op1] = i.words] ELSE gpr]_cosimVars
  BY ModelFollowsStep
<1> QED
  BY <1>1, CosimCorrect, PTL DEF CosimSpec, ModelFollowsRtl

================================================================================
