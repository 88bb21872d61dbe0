------------------------------- MODULE CosimKbus -------------------------------
(*****************************************************************************)
(* The key bus in a co-simulation: the RTL executes an instruction first,    *)
(* and the testbench puts the error flag, and for LDK the word, of each of   *)
(* its transactions into the model's queues.  The model executes the same    *)
(* instruction later, possibly after the RTL has gone on to others, and has  *)
(* no other way to know what the transactions did.                           *)
(*                                                                           *)
(* External: the RTL and the testbench, as the model's queues require them:  *)
(* the RTL stops at the first transaction that fails, and the testbench      *)
(* pushes what that one gave too.                                            *)
(*****************************************************************************)
EXTENDS KbusQueues

CONSTANTS
  MaxPending,  \* bound on instructions the RTL is ahead
  MaxQueue     \* bound on the entries of a queue

ASSUME CosimAssumption == MaxPending \in Nat /\ MaxQueue \in Nat

VARIABLES
  pending,  \* instructions of the RTL that the model has not executed
  synced    \* history: the queues hold nothing but results of these

cosimVars == <<kbusVars, pending, synced>>

\* Flags of the transactions of an LDK or STK: only the last one may be TRUE,
\* and must be when there are fewer than Parts.
FlagSeries ==
  {[i \in 1 .. Parts |-> FALSE]} \cup
  {[i \in 1 .. n |-> i = n] : n \in 1 .. Parts}

RtlInstr ==
  [op : {"KBO"}, op1 : Regs, flags : [1 .. 1 -> BOOLEAN], words : {<<>>}] \cup
  [op : {"STK"}, op1 : Regs, flags : FlagSeries, words : {<<>>}] \cup
  UNION {[op : {"LDK"}, op1 : Regs, flags : {f}, words : [DOMAIN f -> Word]] :
           f \in FlagSeries}

CosimTypeOK == KbusType /\ pending \in Seq(RtlInstr) /\ synced \in BOOLEAN

CosimInit == KbusInit /\ pending = <<>> /\ synced = TRUE

--------------------------------------------------------------------------------

RtlExecutes(i) ==
  /\ Len(pending) < MaxPending
  /\ Len(kbusErrorQ) + Len(i.flags) <= MaxQueue /\ Len(ldkQ) + Len(i.words) <= MaxQueue
  /\ pending' = Append(pending, i)
  /\ kbusErrorQ' = kbusErrorQ \o i.flags
  /\ ldkQ' = ldkQ \o i.words
  /\ UNCHANGED <<gpr, errorFlag, synced>>

ModelExecutes(op, op1) ==
  \/ op = "LDK" /\ LDK(op1, <<>>, <<>>)
  \/ op = "STK" /\ STK(<<>>)
  \/ op = "KBO" /\ KBO(<<>>)

\* Nothing that could be mistaken for another result is left.
NothingLeft == kbusErrorQ' = <<>> /\ ldkQ' = <<>> /\ pending' = <<>>

ModelFollows ==
  /\ pending # <<>>
  /\ ModelExecutes(Head(pending).op, Head(pending).op1)
  /\ pending' = Tail(pending)
  /\ synced' = (synced \/ NothingLeft)

\* Instructions that do not use the key bus, executed by both.
BothCompute ==
  /\ pending = <<>>
  /\ gpr' \in [Regs -> Key] /\ errorFlag' \in BOOLEAN
  /\ UNCHANGED <<ldkQ, kbusErrorQ, pending, synced>>

\* The RTL and the model are reset together.
BothReset ==
  /\ ResetKbus
  /\ pending' = <<>>
  /\ synced' = (synced /\ pending = <<>>)

CosimNext ==
  \/ \E i \in RtlInstr : RtlExecutes(i)
  \/ ModelFollows
  \/ BothCompute \/ BothReset

CosimSpec == CosimInit /\ [][CosimNext]_cosimVars

--------------------------------------------------------------------------------

Flatten(seqs) ==
  LET upTo[n \in 0 .. Len(seqs)] == IF n = 0 THEN <<>> ELSE upTo[n - 1] \o seqs[n]
  IN upTo[Len(seqs)]

\* The queues hold the results of the pending instructions, in order: none was
\* consumed by an earlier instruction, and none of an earlier one is left.
QueuesMatchPending ==
  synced =>
    /\ kbusErrorQ = Flatten([n \in DOMAIN pending |-> pending[n].flags])
    /\ ldkQ = Flatten([n \in DOMAIN pending |-> pending[n].words])

\* An instruction of the model has the outcome it had in the RTL: its flag is
\* that of the last transaction, and a register is loaded whole, with the words
\* of this instruction, or not at all.
ModelFollowsRtl ==
  [][ModelFollows /\ synced =>
       LET i      == Head(pending)
           failed == i.flags[Len(i.flags)]
       IN /\ errorFlag' = failed
          /\ gpr' = IF i.op = "LDK" /\ ~failed
                    THEN [gpr EXCEPT ![i.op1] = i.words] ELSE gpr]_cosimVars
================================================================================
