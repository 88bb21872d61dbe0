------------------------------- MODULE CallStack -------------------------------
(*****************************************************************************)
(* Subroutine calls as a programmer sees them, beside the RAR stack that     *)
(* CpuControl implements them with.  frames, intact and base are history     *)
(* variables: frames is the stack of return addresses that CALL and RET      *)
(* would keep if it were unbounded, intact says that it never grew beyond    *)
(* RarDepth nor was popped empty since it was last cleared, and base is the  *)
(* length frames had when the program was started.                           *)
(*****************************************************************************)
EXTENDS CpuControl

VARIABLES frames, intact, base

callVars == <<frames, intact, base>>

allVars == <<vars, callVars>>

CallInit == Init /\ frames = <<>> /\ intact = TRUE /\ base = 0

Clears ==
  \/ Reset
  \/ \E d \in WriteData : d[1] = 1 /\ ConfigWrite("COMMAND", d)

Launches ==
  \/ Start
  \/ \E d \in WriteData : d[0] = 1 /\ d[1] = 0 /\ ConfigWrite("COMMAND", d)

OtherHostCall ==
  \/ \E a \in ConfigAddr, d \in WriteData :
       /\ a = "COMMAND" => d[0] = 0 /\ d[1] = 0
       /\ ConfigWrite(a, d)
  \/ \E a \in InstrAddr, w \in Patches : StoreInstr(a, w)
  \/ \E a \in HostPcs : SetStartPc(a) \/ SetPc(a)
  \/ \E enable \in BOOLEAN : SetChangeReporting(enable)
  \/ ConsumeChange
  \/ \E n \in StepCounts : Step(n)

LoadFrames(c) ==
  /\ CmdStart(c)
  /\ intact' = (c.sp <= RarDepth)
  /\ frames' = IF intact' THEN [i \in 1 .. c.sp |-> c.rar[i - 1]] ELSE <<>>
  /\ base' = Len(frames')

Executes(op) == stepsLeft # 0 /\ ReadMemoryCoreFetch.op = op

PushFrame ==
  /\ Executes("CALL") /\ ExecCall
  /\ intact' = (intact /\ Len(frames) < RarDepth)
  /\ frames' = IF intact' THEN Append(frames, NextPc) ELSE <<>>
  /\ UNCHANGED base

PopFrame ==
  /\ Executes("RET") /\ ExecRet
  /\ intact' = (intact /\ frames # <<>>)
  /\ frames' = IF intact' THEN SubSeq(frames, 1, Len(frames) - 1) ELSE <<>>
  /\ UNCHANGED base

OtherInstr ==
  /\ ~Executes("CALL") /\ ~Executes("RET")
  /\ ExecuteNextInstruction

CallNext ==
  \/ Clears /\ frames' = <<>> /\ intact' = TRUE /\ base' = 0
  \/ Launches /\ UNCHANGED <<frames, intact>> /\ base' = Len(frames)
  \/ \E c \in Contexts : LoadFrames(c)
  \/ OtherHostCall /\ UNCHANGED callVars
  \/ PushFrame
  \/ PopFrame
  \/ OtherInstr /\ UNCHANGED callVars

CallSpec == CallInit /\ [][CallNext]_allVars

--------------------------------------------------------------------------------

\* As long as calls nest no deeper than RarDepth and no RET is unmatched, the
\* RAR stack holds exactly the return addresses of the open calls, whatever
\* stops, restarts, resets and context loads happen in between.
RarHoldsOpenCalls ==
  intact => /\ rarSp = Len(frames)
            /\ \A i \in 1 .. Len(frames) : rar[i - 1] = frames[i]

\* Every RET of such a program continues behind the CALL it belongs to.
ReturnsToCaller ==
  [][PopFrame /\ intact' => pc' = frames[Len(frames)]]_allVars

\* spect_iss_dpi.h, spect_dpi_get_rar_value: the top of the stack is at
\* N(CALL) - N(RET), counted since the start of the program.
RarSpCountsCalls == regs.idle = 0 /\ intact => rarSp = Len(frames) - base
================================================================================
