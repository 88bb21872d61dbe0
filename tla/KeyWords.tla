-------------------------------- MODULE KeyWords -------------------------------
(* The shape of the 256-bit values that registers and key slots hold.         *)
EXTENDS Naturals, Sequences

CONSTANTS
  Parts,  \* 32-bit words of a value
  Word,   \* values of a word
  Zero    \* 0

ASSUME WordsAssumption == Parts \in Nat \ {0} /\ Zero \in Word

Key == [1 .. Parts -> Word]

ZeroKey == [i \in 1 .. Parts |-> Zero]
================================================================================
