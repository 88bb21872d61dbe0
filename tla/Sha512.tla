--------------------------------- MODULE Sha512 ---------------------------------
(*****************************************************************************)
(* The buffering of the SHA-512 object: a block is transformed when it is    *)
(* full, straight from the message where it can be, and final pads in the    *)
(* buffer, which holds two blocks for a message that leaves no room.         *)
(* The length has 16 bytes of which the code writes the last; it is one      *)
(* entry here.                                                               *)
(*****************************************************************************)
EXTENDS Integers, SequencesExt

CONSTANTS Block, Reserve, MaxMessage   \* as in Digest

ASSUME Sha512Assumption == Block \in Nat /\ Reserve \in 2 .. Block /\ MaxMessage \in Nat

Bit1 == "10000000"
Bit0 == "00000000"
Pending == <<>>

VARIABLES m_h,        \* the chain: the blocks it was transformed with
          m_block,    \* the buffer
          m_len,      \* bytes in it
          m_tot_len,  \* bytes transformed
          digest      \* what final has written
vars == <<m_h, m_block, m_len, m_tot_len, digest>>

Buffer == 1 .. 2 * Block

\* memcpy(&buffer[to], bytes, n)
Copied(buffer, to, bytes) ==
  [i \in Buffer |-> IF i - to \in DOMAIN bytes THEN bytes[i - to] ELSE buffer[i]]

transform(h, bytes, block_nb) ==
  h \o [k \in 1 .. block_nb |-> SubSeq(bytes, Block * (k - 1) + 1, Block * k)]

\* The object is not initialised before init, which leaves the buffer as it is.
Init ==
  /\ m_h = <<>> /\ m_len = 0 /\ m_tot_len = 0
  /\ m_block = [i \in Buffer |-> Bit0] /\ digest = Pending

init ==
  /\ m_h' = <<>> /\ m_len' = 0 /\ m_tot_len' = 0 /\ digest' = Pending
  /\ UNCHANGED m_block

update(bytes) ==
  LET len == Len(bytes)
      rem == Min({len, Block - m_len})
      new == len - rem
      block_nb == new \div Block
      shifted == SubSeq(bytes, rem + 1, len)
      filled == Copied(m_block, m_len, SubSeq(bytes, 1, rem))
  IN IF m_len + len < Block
     THEN m_block' = filled /\ m_len' = m_len + len /\ UNCHANGED <<m_h, m_tot_len>>
     ELSE /\ m_h' = transform(transform(m_h, filled, 1), shifted, block_nb)
          /\ m_block' = Copied(filled, 0, SubSeq(shifted, Block * block_nb + 1, new))
          /\ m_len' = new % Block
          /\ m_tot_len' = m_tot_len + Block * (block_nb + 1)

\* Mutant: one byte more is left for the message.
finalTight ==
  LET block_nb == 1 + (IF Block - Reserve + 1 < m_len % Block THEN 1 ELSE 0)
      padded == [i \in Buffer |->
                   CASE i <= m_len -> m_block[i]
                     [] i = Block * block_nb -> 8 * (m_tot_len + m_len)
                     [] i = m_len + 1 /\ i # Block * block_nb -> Bit1
                     [] OTHER -> Bit0]
  IN /\ digest' = transform(m_h, padded, block_nb)
     /\ m_h' = digest' /\ m_block' = padded
     /\ UNCHANGED <<m_len, m_tot_len>>

\* A second block when bit and length do not fit the first.
final ==
  LET block_nb == 1 + (IF Block - Reserve < m_len % Block THEN 1 ELSE 0)
      padded == [i \in Buffer |->
                   CASE i <= m_len -> m_block[i]
                     [] i = Block * block_nb -> 8 * (m_tot_len + m_len)
                     [] i = m_len + 1 /\ i # Block * block_nb -> Bit1
                     [] i > m_len + 1 /\ i < Block * block_nb -> Bit0
                     [] OTHER -> m_block[i]]
  IN /\ digest' = transform(m_h, padded, block_nb)
     /\ m_h' = digest' /\ m_block' = padded
     /\ UNCHANGED <<m_len, m_tot_len>>

Update ==
  /\ digest = Pending
  /\ \E n \in 0 .. MaxMessage - (m_tot_len + m_len) :
       update([i \in 1 .. n |-> m_tot_len + m_len + i])
  /\ UNCHANGED digest

Final == digest = Pending /\ final

Next == init \/ Update \/ Final
Spec == Init /\ [][Next]_vars

--------------------------------------------------------------------------------
(* Properties *)

\* The message so far: the blocks of the chain, and what waits in the buffer.
Received == FlattenSeq(m_h) \o SubSeq(m_block, 1, m_len)

Abstract == INSTANCE Digest
  WITH message <- IF digest = Pending THEN Received ELSE <<>>, digest <- digest

\* However a message is cut into updates, and whatever an earlier message has left in
\* the buffer, the digest is that of the padded message.
DigestOfMessage == Abstract!Spec

\* The buffer never holds a whole block: after whole blocks, as the HASH instruction sends
\* them, nothing waits and the context it reads is that of all it has sent.
TypeOK ==
  /\ m_len \in 0 .. Block - 1
  /\ m_tot_len % Block = 0
  /\ digest = Pending => Len(m_h) * Block = m_tot_len
===============================================================================
