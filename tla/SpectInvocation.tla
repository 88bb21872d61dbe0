---------------------------- MODULE SpectInvocation ----------------------------
(*****************************************************************************)
(* What the host may rely on when it invokes SPECT: a machine that is in its *)
(* reset state, running, or finished, and a result that the STATUS register  *)
(* shows until the host acknowledges it, resets, or another result replaces  *)
(* it.  A launch alone does not take an old result away.                     *)
(*****************************************************************************)

VARIABLES
  phase,    \* "reset", "running" or "finished"
  result    \* what STATUS shows: "none", "done" or "err"

invocationVars == <<phase, result>>

InvocationInit == phase = "reset" /\ result = "none"

\* COMMAND[START], or the Start call.
Launch == phase' = "running" /\ UNCHANGED result

\* The debugger's start and run commands reset first.
FreshLaunch == phase' = "running" /\ result' = "none"

SoftReset == phase' = "reset" /\ result' = "none"

\* One executed instruction, valid or not, ended the program.  The machine does
\* not insist on having been launched, and a finished one can be stepped again.
Conclude ==
  /\ phase' = "finished"
  /\ result' \in {"done", "err"}

\* The host writes ones to STATUS.
Acknowledge == result' = "none" /\ UNCHANGED phase

InvocationNext ==
  Launch \/ FreshLaunch \/ SoftReset \/ Conclude \/ Acknowledge

InvocationSpec == InvocationInit /\ [][InvocationNext]_invocationVars
================================================================================
