------------------------------- MODULE SpectRegs -------------------------------
(*****************************************************************************)
(* The configuration register block of SPECT as the generated register model *)
(* (ordt_pio) implements it: which bits exist, their reset values, and what a *)
(* bus write does to each of them.  The two interrupt outputs are a function  *)
(* of these bits.                                                             *)
(*                                                                            *)
(* Abstracted: BLOCK_ID is read-only and never changes, so only the address   *)
(* is kept; a write is the function of the three bit positions that some      *)
(* field decodes.  A misaligned address selects no register.                  *)
(*****************************************************************************)
EXTENDS Naturals

Bit == {0, 1}

WriteData == [0..2 -> Bit]

ConfigAddr == {"BLOCK_ID", "COMMAND", "STATUS", "INT_ENA", "MISALIGNED"}

Registers ==
  [start : Bit, soft_reset : Bit,           \* COMMAND
   idle : Bit, done : Bit, err : Bit,       \* STATUS
   done_en : Bit, err_en : Bit]             \* INT_ENA

ResetRegisters ==
  [start |-> 0, soft_reset |-> 0, idle |-> 1, done |-> 0, err |-> 0,
   done_en |-> 0, err_en |-> 0]

\* Mutant: writing 1 to a clear-on-1 field stores the 1.
FieldWriteStores(mode, old, b) == IF mode = "w_none" THEN old ELSE b

\* What a write of bit b leaves in a field that holds old.
FieldWrite(mode, old, b) ==
  CASE mode = "w_std"  -> b
    [] mode = "w_1set" -> IF b = 1 THEN 1 ELSE old
    [] mode = "w_1clr" -> IF b = 1 THEN 0 ELSE old
    [] mode = "w_none" -> old

WriteCommand(r, d) ==
  [r EXCEPT !.start      = FieldWrite("w_1set", @, d[0]),
            !.soft_reset = FieldWrite("w_std",  @, d[1])]

WriteStatus(r, d) ==
  [r EXCEPT !.idle = FieldWrite("w_none", @, d[0]),
            !.done = FieldWrite("w_1clr", @, d[1]),
            !.err  = FieldWrite("w_1clr", @, d[2])]

WriteIntEna(r, d) ==
  [r EXCEPT !.done_en = FieldWrite("w_std", @, d[0]),
            !.err_en  = FieldWrite("w_std", @, d[1])]

WriteRegister(r, a, d) ==
  CASE a = "COMMAND" -> WriteCommand(r, d)
    [] a = "STATUS"  -> WriteStatus(r, d)
    [] a = "INT_ENA" -> WriteIntEna(r, d)
    [] OTHER         -> r

--------------------------------------------------------------------------------

Lines == {"INT_DONE", "INT_ERR"}

\* The interrupt outputs that UpdateInterrupts drives for register contents r.
Level(r) ==
  [l \in Lines |->
     IF \/ l = "INT_DONE" /\ r.done_en = 1 /\ r.done = 1
        \/ l = "INT_ERR" /\ r.err_en = 1 /\ r.err = 1
     THEN 1 ELSE 0]
================================================================================
