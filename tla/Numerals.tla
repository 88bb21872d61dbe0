-------------------------------- MODULE Numerals --------------------------------
(*****************************************************************************)
(* How the programs read and write numbers.  Four readers share one          *)
(* notation: the assembler's ParseValue (std::stoi), the debugger's stoint   *)
(* (std::stoul), uint256_t(string) for registers and masks, and the same     *)
(* with "0x" put in front for a context file.                                *)
(*                                                                           *)
(* A character is a number: 0 .. 15 the hexadecimal digits, in either case,  *)
(* so that the b of "0b1" is 11; X, Plus, Minus, Tick and Other are the rest.*)
(* Limbs are left out: WideInt shows that they do not matter.                *)
(*****************************************************************************)
EXTENDS Integers, SequencesExt

CONSTANTS RegisterBits,   \* 256 in the code, a multiple of 4
          WordBits,       \* 32
          IntMax          \* the largest int

X == 16
Plus == 17
Minus == 18
Tick == 19
Other == 20
Char == 0 .. Other

B == 11      \* the letter b
Register == 0 .. 2^RegisterBits - 1
Word == 0 .. 2^WordBits - 1

Drop(text, n) == SubSeq(text, n + 1, Len(text))
Digits(text, base) == \A i \in DOMAIN text : text[i] < base

\* The value of the digits of a text, without a limit.
ValueOf(text, base) == FoldLeft(LAMBDA v, d : v * base + d, 0, text)

\* What a text denotes: hexadecimal after 0x, binary after 0b, decimal otherwise, as
\* the NUM_REGEX of the debugger and the assembler has it.
Hexadecimal(text) == Len(text) > 2 /\ text[1] = 0 /\ text[2] = X /\ Digits(Drop(text, 2), 16)
Binary(text) == Len(text) > 2 /\ text[1] = 0 /\ text[2] = B /\ Digits(Drop(text, 2), 2)
Decimal(text) == text # <<>> /\ Digits(text, 10)
Numeral(text) == Hexadecimal(text) \/ Binary(text) \/ Decimal(text)

Denoted(text) ==
  CASE Hexadecimal(text) -> ValueOf(Drop(text, 2), 16)
    [] Binary(text) -> ValueOf(Drop(text, 2), 2)
    [] OTHER -> ValueOf(text, 10)

--------------------------------------------------------------------------------
(* The C library *)

\* The longest prefix of digits, and its value; the rest of the text is ignored.
Prefix(text, base) ==
  LET good == {n \in 0 .. Len(text) : Digits(SubSeq(text, 1, n), base)}
  IN SubSeq(text, 1, Max(good))

\* strtol: an optional sign, an optional 0x for base 16 and digits.  No 0b for base 2: that
\* came with glibc 2.38, and the repository's Dockerfile builds with Ubuntu 22.04 (2.35).
\* No digits at all, <<>> here, is an exception of std::stoi and std::stoul.
Strtol(text, base) ==
  LET unsigned == IF text # <<>> /\ text[1] \in {Plus, Minus} THEN Tail(text) ELSE text
      prefixed == base = 16 /\ Len(unsigned) > 2 /\ unsigned[1] = 0 /\ unsigned[2] = X
                  /\ unsigned[3] < 16
      digits == Prefix(IF prefixed THEN Drop(unsigned, 2) ELSE unsigned, base)
  IN IF digits = <<>> THEN <<>>
     ELSE <<IF text[1] = Minus THEN -ValueOf(digits, base) ELSE ValueOf(digits, base)>>

Base(text) ==
  CASE Len(text) >= 2 /\ text[1] = 0 /\ text[2] = X -> 16
    [] Len(text) >= 2 /\ text[1] = 0 /\ text[2] = B -> 2
    [] OTHER -> 10

--------------------------------------------------------------------------------
(* The readers *)

NoNumber == -1

\* A leading 0 that begins neither 0x nor 0b leaves the result 0.  A value beyond int is
\* an exception nobody catches.
ParseValue(text) ==
  IF Len(text) >= 2 /\ text[1] = 0 /\ Base(text) = 10 THEN 0
  ELSE LET n == Strtol(text, Base(text))
       IN IF n = <<>> \/ n[1] > IntMax THEN NoNumber ELSE n[1]

\* A leading 0 is decimal here.  The value is cut to the word.
Stoint(text) ==
  LET n == Strtol(text, Base(text)) IN IF n = <<>> THEN NoNumber ELSE n[1] % 2^WordBits

\* d in the lowest digit of a value shifted by "bits", which has room for it or not.
OrDigit(v, bits, d) ==
  LET s == v * 2^bits
  IN IF d < 2^bits THEN s + d ELSE s + (IF (s \div d) % 2 = 0 THEN d ELSE 0)

\* rd_string: base 8 after a 0 before 0 .. 8, 16 after 0x; apostrophes are skipped.  The
\* value is <<>> from the first character on that is no digit.
ReadString(text) ==
  LET signed == text # <<>> /\ text[1] \in {Plus, Minus}
      number == IF signed THEN Tail(text) ELSE text
      leading == Len(number) >= 2 /\ number[1] = 0
      base == CASE leading /\ number[2] <= 8 -> 8
                [] leading /\ number[2] = X -> 16
                [] OTHER -> 10
      digits == Drop(number, CASE base = 8 -> 1 [] base = 16 -> 2 [] OTHER -> 0)
      next(v, d) ==
        CASE v = <<>> -> v
          [] v # <<>> /\ d = Tick -> v
          [] v # <<>> /\ base = 8 /\ d <= 8 -> <<OrDigit(v[1], 3, d) % 2^RegisterBits>>
          [] v # <<>> /\ base # 8 /\ d < base -> <<(v[1] * base + d) % 2^RegisterBits>>
          [] OTHER -> <<>>
      value == FoldLeft(next, <<0>>, digits)
  IN IF value # <<>> /\ signed /\ number # text /\ text[1] = Minus
     THEN <<(2^RegisterBits - value[1]) % 2^RegisterBits>> ELSE value

\* The constructor: a text that is no number is the largest one.
Uint256(text) == IF ReadString(text) = <<>> THEN 2^RegisterBits - 1 ELSE ReadString(text)[1]

--------------------------------------------------------------------------------
(* The writer *)

\* The digits of a value from the lowest, until nothing is left.
ExtractHexDigits(v) ==
  LET used == {i \in 0 .. RegisterBits \div 4 - 1 : v \div 16^i # 0}
  IN [k \in 1 .. Cardinality(used) |-> (v \div 16^(Cardinality(used) - k)) % 16]

Zeros(n) == [k \in 1 .. Max({0, n}) |-> 0]

\* wr_string in base 16 without its base, filled with 0 up to the width of the field.
HexText(v, width) ==
  LET digits == IF v = 0 THEN <<0>> ELSE ExtractHexDigits(v)
  IN Zeros(width - Len(digits)) \o digits

Tohexs(v) == <<0, X>> \o HexText(v, RegisterBits \div 4)
=================================================================================
