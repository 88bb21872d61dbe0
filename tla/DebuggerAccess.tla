----------------------------- MODULE DebuggerAccess -----------------------------
(*****************************************************************************)
(* The debugger's get and set, and the constants of the assembler: a text is *)
(* typed and given to one of the readers.  get prints one word after the     *)
(* other; its loop is taken step by step, since its address has 16 bits.     *)
(*****************************************************************************)
EXTENDS Numerals

CONSTANTS AddrBits,    \* 16 in the code
          Typed,       \* the characters that are typed
          MaxText      \* bound on the length of a text

VARIABLES text,      \* what has been typed
          gpr,       \* the register
          mem,       \* the word of a memory
          const,     \* the constant .eq defines, or NoNumber when the compiler was left
          showing,   \* the addresses a get has still to show: from, and the end of the loop
          shown,     \* the addresses it has shown
          asked      \* what it was asked for: address and number
vars == <<text, gpr, mem, const, showing, shown, asked>>

\* Bound: one number is read in a session.
Fresh == gpr = 0 /\ mem = 0 /\ const = 0

Addr == {a \in 0 .. 2^AddrBits - 1 : a % 4 = 0}
Idle == <<>>

Init ==
  /\ text = <<>> /\ gpr = 0 /\ mem = 0 /\ const = 0
  /\ showing = Idle /\ shown = <<>> /\ asked = <<>>

Type ==
  /\ Len(text) < MaxText /\ showing = Idle /\ Fresh
  /\ \E c \in Typed : text' = Append(text, c)
  /\ UNCHANGED <<gpr, mem, const, showing, shown, asked>>

\* set RX <value>: the value is not checked.
CmdSetGpr ==
  /\ text # <<>> /\ showing = Idle
  /\ gpr' = Uint256(text)
  /\ text' = <<>>
  /\ UNCHANGED <<mem, const, showing, shown, asked>>

\* set mem[...] <value>: an exception leaves the command before memory is written.
CmdSetMem ==
  /\ text # <<>> /\ showing = Idle /\ Stoint(text) # NoNumber
  /\ mem' = Stoint(text)
  /\ text' = <<>>
  /\ UNCHANGED <<gpr, const, showing, shown, asked>>

\* name .eq <value>, for the texts that are numerals; another one is an error.
ParseConstant ==
  /\ Numeral(text) /\ showing = Idle
  /\ const' = ParseValue(text)
  /\ text' = <<>>
  /\ UNCHANGED <<gpr, mem, showing, shown, asked>>

\* get mem[a]+n; without +n one word is shown.
CmdGetMem ==
  /\ text = <<>> /\ showing = Idle
  /\ \E a \in Addr, n \in 1 .. 3 :
       /\ showing' = [at |-> a, end |-> a + 4 * n]
       /\ asked' = [addr |-> a, n |-> n]
  /\ shown' = <<>>
  /\ UNCHANGED <<text, gpr, mem, const>>

\* Mutant: the end is included.
ShowWordInclusive ==
  /\ showing # Idle
  /\ showing.at <= showing.end
  /\ shown' = IF showing.at \in Range(shown) THEN shown ELSE Append(shown, showing.at)
  /\ showing' = [showing EXCEPT !.at = (@ + 4) % 2^AddrBits]
  /\ UNCHANGED <<text, gpr, mem, const, asked>>

\* addr is a uint16_t and wraps, the end of the loop is an int and does not.  An address
\* that comes again is listed once.
ShowWord ==
  /\ showing # Idle
  /\ showing.at < showing.end
  /\ shown' = IF showing.at \in Range(shown) THEN shown ELSE Append(shown, showing.at)
  /\ showing' = [showing EXCEPT !.at = (@ + 4) % 2^AddrBits]
  /\ UNCHANGED <<text, gpr, mem, const, asked>>

Shown ==
  /\ showing # Idle
  /\ showing.at >= showing.end
  /\ showing' = Idle
  /\ UNCHANGED <<text, gpr, mem, const, shown, asked>>

Next == Type \/ CmdSetGpr \/ CmdSetMem \/ ParseConstant \/ CmdGetMem \/ ShowWord \/ Shown
Spec == Init /\ [][Next]_vars /\ WF_vars(ShowWord \/ Shown)

--------------------------------------------------------------------------------
(* Properties *)

TypeOK ==
  /\ text \in Seq(Char) /\ gpr \in Register /\ mem \in Word
  /\ const \in Int
  /\ showing = Idle \/ showing.at \in Addr
  /\ Range(shown) \subseteq Addr

\* What get, the context file and the log print of a register, read by the next set or
\* load, is the same register: padded or not, with a digit in every place or not.
TextReadsBack ==
  \A width \in {0, RegisterBits \div 4} :
    /\ Uint256(<<0, X>> \o HexText(gpr, width)) = gpr
    /\ Len(HexText(gpr, width)) >= width

\* A numeral, a leading 0 of a decimal one left out.
Plain == Numeral(text) /\ (Hexadecimal(text) \/ Binary(text) \/ text[1] # 0 \/ Len(text) = 1)

\* A hexadecimal numeral, and a decimal one that does not begin with 0, is one number to
\* the debugger's register, the debugger's memory and the assembler, each within its width.
ReadersAgree ==
  Plain /\ ~ Binary(text) =>
    /\ Uint256(text) = Denoted(text) % 2^RegisterBits
    /\ Stoint(text) = Denoted(text) % 2^WordBits
    /\ ParseValue(text) = IF Denoted(text) > IntMax THEN NoNumber ELSE Denoted(text)

\* A get has shown the words from the address on, in order: when it is over all it was asked
\* for, and never more, so that it ends if its last word is not that of the address space.
GetShowsAsked ==
  LET words(n) == [k \in 1 .. n |-> asked.addr + 4 * (k - 1)] IN
    /\ showing = Idle /\ asked # <<>> => shown = words(asked.n)
    /\ showing # Idle /\ asked.addr + 4 * asked.n < 2^AddrBits =>
         Len(shown) <= asked.n /\ shown = words(Len(shown)) /\ showing.at = asked.addr + 4 * Len(shown)

\* The programmer's guide: constants are decimal, hexadecimal or binary.  The assembler
\* reads a numeral of each of the three notations as the number it denotes.
ConstantDenotes ==
  [][ParseConstant /\ Plain /\ Denoted(text) <= IntMax => const' = Denoted(text)]_vars

\* The debugger's help: set RX <value> sets the register to the value, for the numerals
\* the debugger takes everywhere else.
SetTakesValue ==
  [][CmdSetGpr /\ Plain /\ Denoted(text) \in Register => gpr' = Denoted(text)]_vars

\* The debugger's help: get mem[address]+X shows the address and X next addresses.
NextAddressesShown ==
  showing = Idle /\ asked # <<>> /\ asked.n > 1 => Len(shown) = asked.n + 1

\* A get comes back to the prompt.
GetEnds == (showing # Idle) ~> (showing = Idle)
=================================================================================
