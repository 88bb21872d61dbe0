------------------------------ MODULE KbusQueues -------------------------------
(*****************************************************************************)
(* The processor's side of the key bus: the LDK, STK and KBO instructions,   *)
(* the queue of words that LDK consumes and the queue of error flags that    *)
(* every transaction consumes.  LDK and STK are a series of transactions     *)
(* that stops after the first one that fails.                                *)
(*                                                                           *)
(* The flags and words an instruction pushes itself while it runs (with the  *)
(* simulator's key memory attached) are parameters; in a co-simulation they  *)
(* are empty, and the testbench has pushed beforehand.                       *)
(*                                                                           *)
(* Abstracted: the slot and the key are parameters of the instruction, and   *)
(* the registers are those that hold keys.                                   *)
(*****************************************************************************)
EXTENDS KeyWords

CONSTANT Regs   \* registers that hold keys

VARIABLES
  gpr,         \* gpr_
  errorFlag,   \* flags_.error
  ldkQ,        \* ldk_q_
  kbusErrorQ   \* kbus_error_q_

kbusVars == <<gpr, errorFlag, ldkQ, kbusErrorQ>>

KbusType ==
  /\ gpr \in [Regs -> Key]
  /\ errorFlag \in BOOLEAN
  /\ ldkQ \in Seq(Word)
  /\ kbusErrorQ \in Seq(BOOLEAN)

KbusInit ==
  /\ gpr = [r \in Regs |-> ZeroKey]
  /\ errorFlag = FALSE
  /\ ldkQ = <<>> /\ kbusErrorQ = <<>>

\* The i-th pop from a queue; an empty queue gives no error, and zero.
KbusErrorQueuePop(q, i) == i <= Len(q) /\ q[i]
LdkQueuePop(q, i) == IF i <= Len(q) THEN q[i] ELSE Zero

\* Mutant: an error does not end the series.
LastTransactionAlways(errors) == Parts

\* The transaction after which an LDK or STK stops.
LastTransaction(errors) ==
  CHOOSE n \in 1 .. Parts :
    /\ n = Parts \/ KbusErrorQueuePop(errors, n)
    /\ \A i \in 1 .. n - 1 : ~KbusErrorQueuePop(errors, i)

\* Mutant: the entries of the transaction that failed stay in the queue.
AfterKeepsFailed(q, pushed, n) ==
  LET own == IF n < Len(pushed) THEN n ELSE Len(pushed)
  IN SubSeq(q \o SubSeq(pushed, 1, own), IF n < Parts THEN n ELSE n + 1, Len(q) + own)

\* A queue after n transactions, each of which pushed its entry, if it has one,
\* and popped the first.
After(q, pushed, n) ==
  LET own == IF n < Len(pushed) THEN n ELSE Len(pushed)
  IN SubSeq(q \o SubSeq(pushed, 1, own), n + 1, Len(q) + own)

--------------------------------------------------------------------------------

\* Mutant: the words that did arrive are stored when a transaction fails.
LDKPartial(op1, ownErrors, ownWords) ==
  LET errors == kbusErrorQ \o ownErrors
      words  == ldkQ \o ownWords
      n      == LastTransaction(errors)
  IN /\ kbusErrorQ' = After(kbusErrorQ, ownErrors, n)
     /\ ldkQ' = After(ldkQ, ownWords, n)
     /\ errorFlag' = KbusErrorQueuePop(errors, n)
     /\ gpr' = [gpr EXCEPT ![op1] = [i \in 1 .. Parts |-> LdkQueuePop(words, i)]]

\* Mutant: a transaction that fails leaves its upper words undefined.
LDKShort(op1, ownErrors, ownWords) ==
  LET errors == kbusErrorQ \o ownErrors
      words  == ldkQ \o ownWords
      n      == LastTransaction(errors)
  IN /\ kbusErrorQ' = After(kbusErrorQ, ownErrors, n)
     /\ ldkQ' = After(ldkQ, ownWords, n)
     /\ errorFlag' = KbusErrorQueuePop(errors, n)
     /\ gpr' = [gpr EXCEPT ![op1] = [i \in 1 .. n |-> LdkQueuePop(words, i)]]

LDK(op1, ownErrors, ownWords) ==
  LET errors == kbusErrorQ \o ownErrors
      words  == ldkQ \o ownWords
      n      == LastTransaction(errors)
      error  == KbusErrorQueuePop(errors, n)
  IN /\ kbusErrorQ' = After(kbusErrorQ, ownErrors, n)
     /\ ldkQ' = After(ldkQ, ownWords, n)
     /\ errorFlag' = error
     /\ gpr' = IF error THEN gpr
               ELSE [gpr EXCEPT ![op1] =
                       [i \in 1 .. Parts |-> LdkQueuePop(words, i)]]

\* The words of op1 that the transactions of an STK put on the bus.
StkWords(op1, ownErrors) ==
  SubSeq(gpr[op1], 1, LastTransaction(kbusErrorQ \o ownErrors))

STK(ownErrors) ==
  LET errors == kbusErrorQ \o ownErrors
      n      == LastTransaction(errors)
  IN /\ kbusErrorQ' = After(kbusErrorQ, ownErrors, n)
     /\ errorFlag' = KbusErrorQueuePop(errors, n)
     /\ UNCHANGED <<gpr, ldkQ>>

KBO(ownErrors) ==
  /\ kbusErrorQ' = After(kbusErrorQ, ownErrors, 1)
  /\ errorFlag' = KbusErrorQueuePop(kbusErrorQ \o ownErrors, 1)
  /\ UNCHANGED <<gpr, ldkQ>>

\* Reset of the processor; the queues and the key memory keep their contents.
ResetKbus ==
  /\ gpr' = [r \in Regs |-> ZeroKey]
  /\ errorFlag' = FALSE
  /\ UNCHANGED <<ldkQ, kbusErrorQ>>
================================================================================
