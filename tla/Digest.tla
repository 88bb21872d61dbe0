--------------------------------- MODULE Digest ---------------------------------
(*****************************************************************************)
(* What a hash of blocks promises: however a message arrives, its digest is  *)
(* the chain of the blocks of the padded message: one bit, zeros up to the   *)
(* border of a block, and the length in bits in the last bytes.              *)
(* The compression of a block is a free function: a chain is the sequence of *)
(* blocks it was computed from.                                              *)
(*****************************************************************************)
EXTENDS Integers, SequencesExt

CONSTANTS Block,      \* bytes of a block, 128
          Reserve,    \* bytes the padding takes at least, 17
          MaxMessage  \* bound on the length of a message

\* A byte of the message is the place it was sent at, so that no two are alike.
Bit1 == "10000000"
Bit0 == "00000000"
Pending == <<>>

VARIABLES message, digest
vars == <<message, digest>>

Chunk(n) == [i \in 1 .. n |-> Len(message) + i]

Padded(m) ==
  LET zeros == (-(Len(m) + Reserve)) % Block
  IN m \o <<Bit1>> \o [i \in 1 .. zeros + Reserve - 2 |-> Bit0] \o <<8 * Len(m)>>

Blocks(m) == [k \in 1 .. Len(m) \div Block |-> SubSeq(m, Block * (k - 1) + 1, Block * k)]

Init == message = <<>> /\ digest = Pending

Restart == message' = <<>> /\ digest' = Pending

Update ==
  /\ digest = Pending
  /\ \E n \in 0 .. MaxMessage - Len(message) : message' = message \o Chunk(n)
  /\ UNCHANGED digest

Final == digest = Pending /\ digest' = Blocks(Padded(message)) /\ message' = <<>>

Next == Restart \/ Update \/ Final
Spec == Init /\ [][Next]_vars
===============================================================================
