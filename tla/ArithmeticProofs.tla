----------------------------- MODULE ArithmeticProofs -----------------------------
(*****************************************************************************)
(* Proofs about the computations of MCArithmetic.  First Sha512, for blocks  *)
(* and messages of any size: the object implements Digest.  A byte is the    *)
(* place it was sent at, so the chain and the first bytes of the buffer are  *)
(* together the first numbers.  Then the instructions on registers of any    *)
(* width: what powers of two are, what the bits of a number are and that     *)
(* they determine it, which bits each operation of WordArith gives, and the  *)
(* promises of the instruction set from the bits.                            *)
(*****************************************************************************)
EXTENDS MCArithmetic, SequenceTheorems, WellFoundedInduction, TLAPS

--------------------------------------------------------------------------------
(* Numbers and sequences *)

\* A set of numbers that holds 0 and, with a number, the next one holds all.
LEMMA NatInSet ==
  ASSUME NEW S, 0 \in S, \A n \in Nat : n \in S => n + 1 \in S
  PROVE  Nat \subseteq S
<1> DEFINE bad == Nat \ S
<1> SUFFICES ASSUME bad # {} PROVE FALSE
  OBVIOUS
<1>1. PICK x \in bad : \A y \in bad : ~ (<<y, x>> \in OpToRel(<, Nat))
  <2>1. bad \in SUBSET Nat
    OBVIOUS
  <2> HIDE DEF bad
  <2> QED
    BY <2>1, NatLessThanWellFounded, WFMin
<1>2. x \in Nat /\ x # 0 /\ x - 1 \in Nat /\ (x - 1) + 1 = x
  OBVIOUS
<1>3. x - 1 \in bad
  BY <1>2
<1>4. <<x - 1, x>> \in OpToRel(<, Nat)
  <2>1. <<x - 1, x>> \in Nat \X Nat /\ <<x - 1, x>>[1] < <<x - 1, x>>[2]
    BY <1>2
  <2> QED
    BY <2>1, Zenon DEF OpToRel
<1> QED
  BY <1>1, <1>3, <1>4

\* f concatenates the first sequences of s.
Concatenates(f, s, m) == f = [i \in 1 .. m |-> IF i = 1 THEN s[i] ELSE f[i - 1] \o s[i]]

LEMMA ConcatenationExists ==
  ASSUME NEW s, NEW m \in Nat
  PROVE  \E f : Concatenates(f, s, m)
<1> DEFINE good == {k \in Nat : \E f : Concatenates(f, s, k)}
<1>1. 0 \in good
  <2>1. Concatenates([i \in 1 .. 0 |-> <<>>], s, 0)
    BY DEF Concatenates
  <2> QED
    BY <2>1
<1>2. ASSUME NEW k \in Nat, k \in good PROVE k + 1 \in good
  <2>1. PICK f : Concatenates(f, s, k)
    BY <1>2
  <2>0. PICK last : last = IF k = 0 THEN s[1] ELSE f[k] \o s[k + 1]
    OBVIOUS
  <2> DEFINE g == [i \in 1 .. k + 1 |-> IF i = k + 1 THEN last ELSE f[i]]
  <2>2. g[k + 1] = last /\ \A i \in 1 .. k : g[i] = f[i]
    OBVIOUS
  <2>3. \A i \in 1 .. k : f[i] = IF i = 1 THEN s[i] ELSE f[i - 1] \o s[i]
    BY <2>1 DEF Concatenates
  <2>4. g = [i \in 1 .. k + 1 |-> g[i]]
    OBVIOUS
  <2> HIDE DEF g
  <2>5. ASSUME NEW i \in 1 .. k + 1
        PROVE  g[i] = IF i = 1 THEN s[i] ELSE g[i - 1] \o s[i]
    <3>1. CASE i = k + 1
      <4>1. CASE k = 0
        BY <2>0, <2>2, <3>1, <4>1
      <4>2. CASE k # 0
        <5>1. k \in 1 .. k /\ i # 1 /\ i - 1 = k
          BY <3>1, <4>2
        <5>2. g[i] = f[k] \o s[k + 1]
          BY <2>0, <2>2, <3>1, <4>2
        <5>3. f[k] = g[k]
          BY <2>2, <5>1
        <5> QED
          BY <3>1, <5>1, <5>2, <5>3
      <4> QED
        BY <4>1, <4>2
    <3>2. CASE i # k + 1
      <4>1. i \in 1 .. k /\ (i # 1 => i - 1 \in 1 .. k)
        BY <3>2
      <4> QED
        BY <2>2, <2>3, <4>1
    <3> QED
      BY <3>1, <3>2
  <2>6. Concatenates(g, s, k + 1)
    BY <2>4, <2>5 DEF Concatenates
  <2> QED
    BY <2>6
<1> HIDE DEF good
<1>3. m \in good
  BY <1>1, <1>2, NatInSet
<1> QED
  BY <1>3 DEF good

LEMMA FlattenSeqIs ==
  ASSUME NEW s, Len(s) \in Nat, Len(s) >= 1
  PROVE  \E f : Concatenates(f, s, Len(s)) /\ FlattenSeq(s) = f[Len(s)]
<1> DEFINE f == CHOOSE g : Concatenates(g, s, Len(s))
<1>1. Concatenates(f, s, Len(s))
  BY ConcatenationExists
<1>2. FlattenSeq(s) = f[Len(s)]
  BY DEF FlattenSeq, Concatenates
<1> QED
  BY <1>1, <1>2

LEMMA SubSeqIs ==
  ASSUME NEW s, NEW a \in Int, NEW b \in Int, b >= a - 1
  PROVE  SubSeq(s, a, b) = [i \in 1 .. b - a + 1 |-> s[a + i - 1]]
<1> DEFINE S == {s[i] : i \in a .. b}
<1>1. \A i \in a .. b : s[i] \in S
  OBVIOUS
<1> HIDE DEF S
<1>2. PICK q : q = SubSeq(s, a, b)
  OBVIOUS
<1>3. /\ q \in Seq(S) /\ Len(q) = b - a + 1
      /\ \A i \in 1 .. b - a + 1 : q[i] = s[a + i - 1]
  BY <1>1, <1>2, SubSeqProperties
<1>4. q = [i \in 1 .. b - a + 1 |-> q[i]]
  BY <1>3
<1> QED
  BY <1>2, <1>3, <1>4

LEMMA ConcatIs ==
  ASSUME NEW n \in Nat, NEW m \in Nat, NEW s, NEW t,
         s = [i \in 1 .. n |-> s[i]], t = [i \in 1 .. m |-> t[i]]
  PROVE  s \o t = [i \in 1 .. n + m |-> IF i <= n THEN s[i] ELSE t[i - n]]
<1> DEFINE U == {s[i] : i \in 1 .. n} \cup {t[i] : i \in 1 .. m}
<1>0. s \in [1 .. n -> U] /\ t \in [1 .. m -> U]
  OBVIOUS
<1> HIDE DEF U
<1>1. s \in Seq(U) /\ t \in Seq(U) /\ Len(s) = n /\ Len(t) = m
  BY <1>0
<1>2. PICK q : q = s \o t
  OBVIOUS
<1>3. /\ q \in Seq(U) /\ Len(q) = n + m
      /\ \A i \in 1 .. n + m : q[i] = IF i <= n THEN s[i] ELSE t[i - n]
  <2>1. q \in Seq(U) /\ Len(q) = Len(s) + Len(t)
    BY <1>1, <1>2, ConcatProperties
  <2>2. Len(q) = n + m
    BY <1>1, <2>1
  <2>3. ASSUME NEW i \in 1 .. n + m PROVE q[i] = IF i <= n THEN s[i] ELSE t[i - n]
    <3>1. i \in 1 .. Len(s) + Len(t)
      BY <1>1
    <3>2. (s \o t)[i] = IF i <= Len(s) THEN s[i] ELSE t[i - Len(s)]
      BY <1>1, <3>1, ConcatProperties
    <3> QED
      BY <1>1, <1>2, <3>2
  <2> QED
    BY <2>1, <2>2, <2>3
<1>4. q = [i \in 1 .. n + m |-> q[i]]
  BY <1>3
<1> QED
  BY <1>2, <1>3, <1>4

LEMMA MinIs ==
  ASSUME NEW a \in Int, NEW b \in Int
  PROVE  Min({a, b}) = IF a <= b THEN a ELSE b
<1>1. PICK m : m = IF a <= b THEN a ELSE b
  OBVIOUS
<1>2. m \in {a, b} /\ \A y \in {a, b} : m <= y
  BY <1>1
<1>3. \A x \in {a, b} : (\A y \in {a, b} : x <= y) => x = m
  BY <1>2
<1> QED
  BY <1>1, <1>2, <1>3 DEF Min

LEMMA DivMod ==
  ASSUME NEW b \in Nat, b > 0, NEW q \in Int, NEW r \in 0 .. b - 1, NEW x \in Int,
         x = b * q + r
  PROVE  x \div b = q /\ x % b = r
<1>1. PICK d, e : d = x \div b /\ e = x % b
  OBVIOUS
<1>2. d \in Int /\ e \in 0 .. b - 1 /\ x = b * d + e
  BY <1>1
<1>3. b * (d - q) = r - e
  BY <1>2
<1>4. -b < r - e /\ r - e < b
  BY <1>2
<1>5. d = q
  <2>1. PICK k : k = d - q
    OBVIOUS
  <2>2. PICK m : m = b * k
    OBVIOUS
  <2>3. k \in Int /\ m \in Int /\ -b < m /\ m < b
    BY <1>2, <1>3, <1>4, <2>1, <2>2
  <2>4. CASE k >= 1
    <3>1. m >= b
      BY <2>2, <2>3, <2>4
    <3> QED
      BY <2>3, <3>1
  <2>5. CASE k <= -1
    <3>1. m <= -b
      BY <2>2, <2>3, <2>5
    <3> QED
      BY <2>3, <3>1
  <2> QED
    BY <1>2, <2>1, <2>3, <2>4, <2>5
<1> QED
  BY <1>1, <1>2, <1>5

--------------------------------------------------------------------------------
(* The bytes of the message, each the place it was sent at *)

\* The first n bytes of a message, and its first n blocks.
Places(n) == [i \in 1 .. n |-> i]
BlockAt(k) == [i \in 1 .. Block |-> Block * (k - 1) + i]
Chain(n) == [k \in 1 .. n |-> BlockAt(k)]

LEMMA BlockIsNat == Block \in Nat /\ Block >= 2 /\ Reserve \in 2 .. Block /\ MaxMessage \in Nat
  BY Sha512Assumption

\* The borders of block k among q blocks.
LEMMA Borders ==
  ASSUME NEW q \in Nat, NEW k \in 1 .. q
  PROVE  /\ Block * (k - 1) \in Nat /\ Block * k = Block * (k - 1) + Block
         /\ Block * q \in Nat /\ Block * k <= Block * q
         /\ Block * k - (Block * (k - 1) + 1) + 1 = Block
<1>1. Block * k = Block * (k - 1) + Block
  BY BlockIsNat
<1>2. k - 1 \in Nat /\ q - k \in Nat
  OBVIOUS
<1>3. Block * (k - 1) \in Nat /\ Block * q \in Nat /\ Block * (q - k) \in Nat
  BY <1>2, BlockIsNat
<1>4. Block * q = Block * k + Block * (q - k)
  BY BlockIsNat
<1> QED
  BY <1>1, <1>3, <1>4, BlockIsNat

\* What transform takes of bytes as block k.
LEMMA BlockOf ==
  ASSUME NEW q \in Nat, NEW k \in 1 .. q, NEW bytes
  PROVE  SubSeq(bytes, Block * (k - 1) + 1, Block * k)
           = [i \in 1 .. Block |-> bytes[Block * (k - 1) + i]]
<1>1. PICK a, b : a = Block * (k - 1) + 1 /\ b = Block * k
  OBVIOUS
<1>2. a \in Int /\ b \in Int /\ b - a + 1 = Block /\ b >= a - 1
  BY <1>1, Borders, BlockIsNat
<1>3. SubSeq(bytes, a, b) = [i \in 1 .. Block |-> bytes[a + i - 1]]
  BY <1>2, SubSeqIs
<1>4. \A i \in 1 .. Block : a + i - 1 = Block * (k - 1) + i
  BY <1>1, Borders, BlockIsNat
<1> QED
  BY <1>1, <1>3, <1>4

\* Blocks that continue a chain.
LEMMA ChainGrows ==
  ASSUME NEW n \in Nat, NEW q \in Nat, NEW bytes, NEW m \in Nat, Block * q <= m,
         \A i \in 1 .. m : bytes[i] = Block * n + i
  PROVE  transform(Chain(n), bytes, q) = Chain(n + q)
<1> DEFINE more == [k \in 1 .. q |-> SubSeq(bytes, Block * (k - 1) + 1, Block * k)]
<1>1. ASSUME NEW k \in 1 .. q PROVE more[k] = BlockAt(n + k)
  <2>1. PICK c : c = Block * (k - 1)
    OBVIOUS
  <2>2. c \in Nat /\ c + Block <= m
    BY <2>1, Borders, BlockIsNat
  <2>3. Block * ((n + k) - 1) = Block * n + c
    BY <2>1, BlockIsNat
  <2>4. Block * n \in Nat
    BY BlockIsNat
  <2>5. ASSUME NEW i \in 1 .. Block PROVE bytes[c + i] = Block * ((n + k) - 1) + i
    <3>1. c + i \in 1 .. m
      BY <2>2, BlockIsNat
    <3>2. bytes[c + i] = Block * n + (c + i)
      BY <3>1
    <3> QED
      BY <2>2, <2>3, <2>4, <3>2, BlockIsNat
  <2>6. more[k] = [i \in 1 .. Block |-> bytes[Block * (k - 1) + i]]
    BY BlockOf
  <2>7. \A i \in 1 .. Block : bytes[Block * (k - 1) + i] = Block * ((n + k) - 1) + i
    BY <2>1, <2>5
  <2> QED
    BY <2>6, <2>7 DEF BlockAt
<1>2. Chain(n) = [k \in 1 .. n |-> Chain(n)[k]] /\ \A k \in 1 .. n : Chain(n)[k] = BlockAt(k)
  BY DEF Chain
<1>3. more = [k \in 1 .. q |-> more[k]]
  OBVIOUS
<1>4. transform(Chain(n), bytes, q) = Chain(n) \o more
  BY DEF transform
<1> HIDE DEF more
<1>5. PICK h : h = Chain(n)
  OBVIOUS
<1>6. h \o more = [k \in 1 .. n + q |-> IF k <= n THEN h[k] ELSE more[k - n]]
  BY <1>2, <1>3, <1>5, ConcatIs
<1>7. ASSUME NEW k \in 1 .. n + q
      PROVE  (IF k <= n THEN h[k] ELSE more[k - n]) = BlockAt(k)
  <2>1. CASE k <= n
    BY <1>2, <1>5, <2>1
  <2>2. CASE ~(k <= n)
    <3>1. k - n \in 1 .. q /\ n + (k - n) = k
      BY <2>2
    <3> QED
      BY <1>1, <2>2, <3>1
  <2> QED
    BY <2>1, <2>2
<1> QED
  BY <1>4, <1>5, <1>6, <1>7 DEF Chain

LEMMA FlattenChain ==
  ASSUME NEW n \in Nat
  PROVE  FlattenSeq(Chain(n)) = Places(Block * n)
<1>1. PICK h : h = Chain(n)
  OBVIOUS
<1>2. Len(h) = n /\ \A k \in 1 .. n : h[k] = BlockAt(k)
  BY <1>1 DEF Chain
<1>3. CASE n = 0
  <2>1. Block * n = 0 /\ FlattenSeq(h) = h
    BY <1>2, <1>3, BlockIsNat DEF FlattenSeq
  <2>2. h = Places(0)
    BY <1>1, <1>3 DEF Chain, Places
  <2> QED
    BY <1>1, <2>1, <2>2
<1>4. CASE n # 0
  <2>1. PICK f : Concatenates(f, h, n) /\ FlattenSeq(h) = f[n]
    BY <1>2, <1>4, FlattenSeqIs
  <2>2. \A k \in 1 .. n : f[k] = IF k = 1 THEN h[k] ELSE f[k - 1] \o h[k]
    BY <2>1 DEF Concatenates
  <2> DEFINE good == {k \in Nat : k + 1 <= n => f[k + 1] = Places(Block * (k + 1))}
  <2>3. 0 \in good
    <3>1. f[1] = BlockAt(1)
      BY <1>2, <1>4, <2>2
    <3>2. BlockAt(1) = Places(Block * 1)
      BY BlockIsNat DEF BlockAt, Places
    <3> QED
      BY <3>1, <3>2
  <2>4. ASSUME NEW k \in Nat, k \in good PROVE k + 1 \in good
    <3> SUFFICES ASSUME k + 2 <= n PROVE f[k + 2] = Places(Block * (k + 2))
      OBVIOUS
    <3>1. k + 2 \in 1 .. n /\ k + 2 # 1 /\ (k + 2) - 1 = k + 1
      OBVIOUS
    <3>2. f[k + 2] = f[k + 1] \o BlockAt(k + 2)
      BY <1>2, <2>2, <3>1
    <3>3. PICK m : m = Block * (k + 1)
      OBVIOUS
    <3>4. m \in Nat /\ Block * (k + 2) = m + Block /\ Block * ((k + 2) - 1) = m
      BY <3>3, BlockIsNat
    <3>5. f[k + 1] = Places(m)
      BY <2>4, <3>3
    <3>6. PICK s, t : s = Places(m) /\ t = BlockAt(k + 2)
      OBVIOUS
    <3>7. s = [i \in 1 .. m |-> i] /\ t = [i \in 1 .. Block |-> m + i]
      BY <3>4, <3>6 DEF Places, BlockAt
    <3>8. s = [i \in 1 .. m |-> s[i]] /\ t = [i \in 1 .. Block |-> t[i]]
      BY <3>7
    <3>9. s \o t = [i \in 1 .. m + Block |-> IF i <= m THEN s[i] ELSE t[i - m]]
      <4>1. PICK b : b = Block
        OBVIOUS
      <4>2. m \in Nat /\ b \in Nat
        BY <3>4, <4>1, BlockIsNat
      <4>3. s = [i \in 1 .. m |-> s[i]]
        BY <3>8
      <4>4. t = [i \in 1 .. b |-> t[i]]
        BY <3>8, <4>1
      <4>5. s \o t = [i \in 1 .. m + b |-> IF i <= m THEN s[i] ELSE t[i - m]]
        BY <4>2, <4>3, <4>4, ConcatIs, SMTT(60)
      <4> QED
        BY <4>1, <4>5
    <3>10. ASSUME NEW i \in 1 .. m + Block PROVE (IF i <= m THEN s[i] ELSE t[i - m]) = i
      <4>1. CASE i <= m
        BY <3>4, <3>7, <4>1
      <4>2. CASE ~(i <= m)
        <5>1. i - m \in 1 .. Block /\ m + (i - m) = i
          BY <3>4, <4>2, BlockIsNat
        <5> QED
          BY <3>7, <4>2, <5>1
      <4> QED
        BY <4>1, <4>2
    <3>11. s \o t = Places(m + Block)
      BY <3>9, <3>10 DEF Places
    <3> QED
      BY <3>2, <3>4, <3>5, <3>6, <3>11
  <2> HIDE DEF good
  <2>5. n - 1 \in good
    BY <1>4, <2>3, <2>4, NatInSet
  <2>6. f[n] = Places(Block * n)
    <3>1. n - 1 \in Nat /\ (n - 1) + 1 = n
      BY <1>4
    <3> QED
      BY <2>5, <3>1 DEF good
  <2> QED
    BY <1>1, <2>1, <2>6
<1> QED
  BY <1>3, <1>4

--------------------------------------------------------------------------------
(* The invariant *)

\* While the message is open, the chain and the buffer hold its bytes in order.
Open(n) ==
  /\ m_tot_len = Block * n /\ m_h = Chain(n)
  /\ \A i \in 1 .. m_len : m_block[i] = m_tot_len + i

HashInv ==
  /\ m_len \in 0 .. Block - 1
  /\ m_tot_len \in Nat /\ m_tot_len % Block = 0
  /\ m_block = [i \in Buffer |-> m_block[i]]
  /\ digest = Pending => \E n \in Nat : Open(n)

\* The place of the last byte of the message so far.
Sent == m_tot_len + m_len

LEMMA ReceivedIs ==
  ASSUME HashInv, digest = Pending
  PROVE  Received = Places(Sent)
<1>1. PICK n \in Nat : Open(n)
  BY DEF HashInv
<1>2. PICK m, l : m = Block * n /\ l = m_len
  OBVIOUS
<1>3. m \in Nat /\ l \in Nat /\ m_tot_len = m
  BY <1>1, <1>2, BlockIsNat DEF HashInv, Open
<1>4. PICK s, t : s = FlattenSeq(m_h) /\ t = SubSeq(m_block, 1, m_len)
  OBVIOUS
<1>5. s = [i \in 1 .. m |-> i]
  BY <1>1, <1>2, <1>4, FlattenChain DEF Open, Places
<1>6. t = [i \in 1 .. l |-> m_block[i]]
  <2>1. l >= 1 - 1 /\ l - 1 + 1 = l /\ 1 \in Int /\ l \in Int
    BY <1>3
  <2>2. t = [i \in 1 .. l - 1 + 1 |-> m_block[1 + i - 1]]
    BY <1>2, <1>4, <2>1, SubSeqIs
  <2>3. \A i \in 1 .. l : 1 + i - 1 = i
    OBVIOUS
  <2> QED
    BY <2>1, <2>2, <2>3
<1>7. \A i \in 1 .. l : t[i] = m + i
  BY <1>1, <1>2, <1>3, <1>6 DEF Open
<1>8. s = [i \in 1 .. m |-> s[i]] /\ t = [i \in 1 .. l |-> t[i]]
  BY <1>5, <1>6
<1>9. s \o t = [i \in 1 .. m + l |-> IF i <= m THEN s[i] ELSE t[i - m]]
  BY <1>3, <1>8, ConcatIs
<1>10. ASSUME NEW i \in 1 .. m + l PROVE (IF i <= m THEN s[i] ELSE t[i - m]) = i
  <2>1. CASE i <= m
    BY <1>3, <1>5, <2>1
  <2>2. CASE ~(i <= m)
    <3>1. i - m \in 1 .. l /\ m + (i - m) = i
      BY <1>3, <2>2
    <3> QED
      BY <1>7, <2>2, <3>1
  <2> QED
    BY <2>1, <2>2
<1>11. s \o t = Places(m + l)
  BY <1>9, <1>10 DEF Places
<1> QED
  BY <1>2, <1>3, <1>4, <1>11 DEF Received, Sent

LEMMA HashInitInv == Init => HashInv
<1> SUFFICES ASSUME Init PROVE HashInv
  OBVIOUS
<1>1. Block * 0 = 0 /\ 0 % Block = 0
  BY BlockIsNat
<1>2. m_h = Chain(0)
  BY DEF Init, Chain
<1>3. Open(0)
  BY <1>1, <1>2 DEF Init, Open
<1> QED
  BY <1>1, <1>3, BlockIsNat DEF Init, HashInv

\* The first n bytes of s are those behind base.
InOrder(s, n, base) == \A i \in 1 .. n : s[i] = base + i
Entries(s, S) == s = [i \in S |-> s[i]]

Joined(r, s, n, t, m) == r = [i \in 1 .. n + m |-> IF i <= n THEN s[i] ELSE t[i - n]]

LEMMA ConcatEntries ==
  ASSUME NEW n \in Nat, NEW m \in Nat, NEW s, NEW t, Entries(s, 1 .. n), Entries(t, 1 .. m)
  PROVE  Joined(s \o t, s, n, t, m)
<1>1. s = [i \in 1 .. n |-> s[i]] /\ t = [i \in 1 .. m |-> t[i]]
  BY Zenon DEF Entries
<1>2. s \o t = [i \in 1 .. n + m |-> IF i <= n THEN s[i] ELSE t[i - n]]
  BY <1>1, ConcatIs
<1> QED
  BY <1>2, Zenon DEF Joined

\* Bytes copied behind those in order continue their order.
LEMMA CopiedInOrder ==
  ASSUME NEW buffer, NEW to \in Nat, NEW n \in Nat, NEW bytes, NEW base \in Nat,
         to + n <= 2 * Block, Entries(bytes, 1 .. n),
         InOrder(buffer, to, base), InOrder(bytes, n, base + to)
  PROVE  /\ Entries(Copied(buffer, to, bytes), Buffer)
         /\ InOrder(Copied(buffer, to, bytes), to + n, base)
<1>0. /\ bytes = [i \in 1 .. n |-> bytes[i]]
      /\ \A i \in 1 .. to : buffer[i] = base + i
      /\ \A i \in 1 .. n : bytes[i] = base + to + i
  BY DEF InOrder, Entries
<1>1. PICK d : d = DOMAIN bytes
  OBVIOUS
<1>2. d = 1 .. n
  BY <1>0, <1>1
<1>3. PICK c : c = [i \in Buffer |-> IF i - to \in d THEN bytes[i - to] ELSE buffer[i]]
  OBVIOUS
<1>4. Copied(buffer, to, bytes) = c
  BY <1>1, <1>3 DEF Copied
<1>5. c = [i \in Buffer |-> c[i]]
  BY <1>3
<1>6. ASSUME NEW i \in 1 .. to + n PROVE c[i] = base + i
  <2>1. i \in Buffer /\ i \in Int
    BY BlockIsNat DEF Buffer
  <2>2. CASE i <= to
    <3>1. i \in 1 .. to /\ ~(i - to \in d)
      BY <1>2, <2>2
    <3> QED
      BY <1>0, <1>3, <2>1, <3>1
  <2>3. CASE ~(i <= to)
    <3>1. PICK j : j = i - to
      OBVIOUS
    <3>2. j \in 1 .. n /\ base + to + j = base + i
      BY <2>3, <3>1
    <3> QED
      BY <1>0, <1>2, <1>3, <2>1, <3>1, <3>2
  <2> QED
    BY <2>2, <2>3
<1> QED
  BY <1>4, <1>5, <1>6 DEF InOrder, Entries

\* What a part of a sequence of places holds.
LEMMA PartInOrder ==
  ASSUME NEW bytes, NEW n \in Nat, NEW base \in Nat, InOrder(bytes, n, base),
         NEW a \in Nat, NEW b \in Nat, a <= b, b <= n
  PROVE  /\ Entries(SubSeq(bytes, a + 1, b), 1 .. b - a)
         /\ InOrder(SubSeq(bytes, a + 1, b), b - a, base + a)
<1>1. PICK c, q : c = a + 1 /\ q = SubSeq(bytes, c, b)
  OBVIOUS
<1>2. c \in Int /\ b \in Int /\ b >= c - 1 /\ b - c + 1 = b - a
  BY <1>1
<1>3. q = [i \in 1 .. b - c + 1 |-> bytes[c + i - 1]]
  BY <1>1, <1>2, SubSeqIs
<1>4. q = [i \in 1 .. b - a |-> q[i]]
  BY <1>2, <1>3
<1>5. ASSUME NEW i \in 1 .. b - a PROVE q[i] = base + a + i
  <2>1. c + i - 1 = a + i /\ a + i \in 1 .. n
    BY <1>1
  <2>2. bytes[a + i] = base + (a + i)
    BY <2>1 DEF InOrder
  <2>3. i \in 1 .. b - c + 1
    BY <1>2
  <2>4. q[i] = bytes[c + i - 1]
    BY <1>3, <2>3
  <2> QED
    BY <2>1, <2>2, <2>4
<1> QED
  BY <1>1, <1>4, <1>5 DEF InOrder, Entries

\* A piece that does not fill the buffer waits in it.
LEMMA ShortUpdate ==
  ASSUME HashInv, digest = Pending, UNCHANGED digest, NEW n \in Nat, m_len + n < Block,
         update([i \in 1 .. n |-> m_tot_len + m_len + i])
  PROVE  HashInv' /\ Sent' = Sent + n
<1>1. PICK q \in Nat : Open(q)
  BY DEF HashInv
<1>2. PICK tot, l : tot = m_tot_len /\ l = m_len
  OBVIOUS
<1>3. /\ tot \in Nat /\ l \in 0 .. Block - 1 /\ l + n < Block
      /\ InOrder(m_block, l, tot)
  BY <1>1, <1>2 DEF HashInv, Open, InOrder
<1>4. PICK bytes : bytes = [i \in 1 .. n |-> m_tot_len + m_len + i]
  OBVIOUS
<1>5. \A i \in 1 .. n : bytes[i] = tot + l + i
  BY <1>2, <1>4
<1>6. Len(bytes) = n
  BY <1>4
<1>7. Min({n, Block - l}) = n
  <2>1. PICK b : b = Block - l
    OBVIOUS
  <2>2. n \in Int /\ b \in Int /\ n <= b
    BY <1>3, <2>1, BlockIsNat
  <2> QED
    BY <2>1, <2>2, MinIs
<1>8. PICK part, filled : part = SubSeq(bytes, 1, n) /\ filled = Copied(m_block, l, part)
  OBVIOUS
<1>9. m_block' = filled /\ m_len' = l + n /\ m_tot_len' = tot /\ m_h' = m_h
  <2>1. update(bytes)
    BY <1>4
  <2> QED
    BY <1>2, <1>3, <1>6, <1>7, <1>8, <2>1 DEF update
<1>10. Entries(part, 1 .. n) /\ InOrder(part, n, tot + l)
  <2>1. PICK base : base = tot + l
    OBVIOUS
  <2>2. base \in Nat /\ InOrder(bytes, n, base)
    BY <1>3, <1>5, <2>1 DEF InOrder
  <2>3. 0 \in Nat /\ 0 <= n /\ n <= n /\ 0 + 1 = 1 /\ n - 0 = n /\ base + 0 = base
    BY <2>2
  <2>4. /\ Entries(SubSeq(bytes, 0 + 1, n), 1 .. n - 0)
        /\ InOrder(SubSeq(bytes, 0 + 1, n), n - 0, base + 0)
    BY <2>2, <2>3, PartInOrder
  <2> QED
    BY <1>8, <2>1, <2>3, <2>4
<1>11. Entries(filled, Buffer) /\ InOrder(filled, l + n, tot)
  <2>1. l \in Nat /\ l + n <= 2 * Block
    BY <1>3, BlockIsNat
  <2> QED
    BY <1>3, <1>8, <1>10, <2>1, CopiedInOrder
<1>12. Open(q)'
  BY <1>1, <1>2, <1>9, <1>11 DEF Open, Chain, BlockAt, InOrder
<1>13. HashInv'
  <2>1. l + n \in 0 .. Block - 1
    BY <1>3, BlockIsNat
  <2>2. m_tot_len' % Block = 0 /\ m_tot_len' \in Nat
    BY <1>2, <1>9 DEF HashInv
  <2>3. m_block' = [i \in Buffer' |-> m_block'[i]]
    BY <1>9, <1>11 DEF Entries, Buffer
  <2> QED
    BY <1>9, <1>12, <2>1, <2>2, <2>3 DEF HashInv
<1> QED
  BY <1>2, <1>3, <1>9, <1>13 DEF Sent

\* A piece that fills it is transformed as far as it makes whole blocks, the rest waits.
LEMMA LongUpdate ==
  ASSUME HashInv, digest = Pending, UNCHANGED digest, NEW n \in Nat, ~(m_len + n < Block),
         update([i \in 1 .. n |-> m_tot_len + m_len + i])
  PROVE  HashInv' /\ Sent' = Sent + n
<1>1. PICK q \in Nat : Open(q)
  BY DEF HashInv
<1>2. PICK tot, l : tot = m_tot_len /\ l = m_len
  OBVIOUS
<1>3. /\ tot \in Nat /\ l \in 0 .. Block - 1 /\ ~(l + n < Block) /\ tot = Block * q
      /\ InOrder(m_block, l, tot)
  BY <1>1, <1>2 DEF HashInv, Open, InOrder
<1>4. PICK bytes : bytes = [i \in 1 .. n |-> m_tot_len + m_len + i]
  OBVIOUS
<1>5. Len(bytes) = n /\ \A i \in 1 .. n : bytes[i] = tot + l + i
  BY <1>2, <1>4
<1>6. PICK rem : rem = Block - l
  OBVIOUS
<1>7. rem \in 1 .. Block /\ rem <= n /\ l + rem = Block
  BY <1>3, <1>6, BlockIsNat
<1>8. Min({n, rem}) = rem
  BY <1>7, BlockIsNat, MinIs
<1>9. PICK new, nb, left : new = n - rem /\ nb = new \div Block /\ left = new % Block
  OBVIOUS
<1>10. /\ new \in Nat /\ nb \in Nat /\ left \in 0 .. Block - 1 /\ new = Block * nb + left
       /\ Block * nb \in Nat
  <2>1. new \in Nat
    BY <1>7, <1>9
  <2>2. nb \in Int /\ left \in 0 .. Block - 1 /\ new = Block * nb + left
    BY <1>9, <2>1, BlockIsNat
  <2>3. nb >= 0
    <3>1. CASE nb <= -1
      <4>1. Block * nb <= -Block
        BY <2>2, <3>1, BlockIsNat
      <4> QED
        BY <2>1, <2>2, <4>1, BlockIsNat
    <3> QED
      BY <2>2, <3>1
  <2> QED
    BY <2>1, <2>2, <2>3, BlockIsNat
<1>11. PICK part, filled : part = SubSeq(bytes, 1, rem) /\ filled = Copied(m_block, l, part)
  OBVIOUS
<1>12. PICK shifted, waits :
         shifted = SubSeq(bytes, rem + 1, n) /\ waits = SubSeq(shifted, Block * nb + 1, new)
  OBVIOUS
<1>13. /\ m_h' = transform(transform(m_h, filled, 1), shifted, nb)
       /\ m_block' = Copied(filled, 0, waits)
       /\ m_len' = left /\ m_tot_len' = tot + Block * (nb + 1)
  <2>1. update(bytes)
    BY <1>4
  <2>2. Min({Len(bytes), Block - m_len}) = rem
    BY <1>2, <1>5, <1>6, <1>8
  <2> QED
    BY <1>2, <1>3, <1>5, <1>9, <1>11, <1>12, <2>1, <2>2 DEF update
<1>14. PICK base : base = tot + l
  OBVIOUS
<1>15. base \in Nat /\ InOrder(bytes, n, base)
  BY <1>3, <1>5, <1>14 DEF InOrder
<1>16. Entries(part, 1 .. rem) /\ InOrder(part, rem, tot + l)
  <2>1. 0 \in Nat /\ rem \in Nat /\ 0 <= rem /\ rem <= n /\ 0 + 1 = 1 /\ rem - 0 = rem /\ base + 0 = base
    BY <1>7, <1>15
  <2>2. /\ Entries(SubSeq(bytes, 0 + 1, rem), 1 .. rem - 0)
        /\ InOrder(SubSeq(bytes, 0 + 1, rem), rem - 0, base + 0)
    BY <1>15, <2>1, PartInOrder
  <2> QED
    BY <1>11, <1>14, <2>1, <2>2
<1>17. InOrder(filled, Block, tot)
  <2>1. l \in Nat /\ rem \in Nat /\ l + rem <= 2 * Block
    BY <1>3, <1>7, BlockIsNat
  <2>2. InOrder(filled, l + rem, tot)
    BY <1>3, <1>11, <1>16, <2>1, CopiedInOrder
  <2> QED
    BY <1>7, <2>2
<1>18. PICK start : start = tot + Block
  OBVIOUS
<1>19. start \in Nat /\ start = Block * (q + 1)
  BY <1>3, <1>18, BlockIsNat
<1>20. Entries(shifted, 1 .. new) /\ InOrder(shifted, new, start)
  <2>1. rem \in Nat /\ n \in Nat /\ rem <= n /\ n <= n /\ n - rem = new /\ base + rem = start
    BY <1>3, <1>7, <1>9, <1>14, <1>18, BlockIsNat
  <2>2. /\ Entries(SubSeq(bytes, rem + 1, n), 1 .. n - rem)
        /\ InOrder(SubSeq(bytes, rem + 1, n), n - rem, base + rem)
    BY <1>15, <2>1, PartInOrder
  <2> QED
    BY <1>12, <2>1, <2>2
<1>21. PICK done : done = Block * nb
  OBVIOUS
<1>22. Entries(waits, 1 .. left) /\ InOrder(waits, left, start + done)
  <2>1. done \in Nat /\ done <= new /\ new <= new /\ new - done = left
    BY <1>10, <1>21
  <2>2. /\ Entries(SubSeq(shifted, done + 1, new), 1 .. new - done)
        /\ InOrder(SubSeq(shifted, done + 1, new), new - done, start + done)
    BY <1>10, <1>19, <1>20, <2>1, PartInOrder
  <2> QED
    BY <1>12, <1>21, <2>1, <2>2
<1>23. PICK tot2, blocks : tot2 = start + done /\ blocks = q + 1 + nb
  OBVIOUS
<1>24. tot2 \in Nat /\ blocks \in Nat /\ tot2 = Block * blocks /\ m_tot_len' = tot2
  <2>1. done \in Nat /\ tot2 = Block * (q + 1) + Block * nb
    BY <1>10, <1>19, <1>21, <1>23
  <2>2. Block * (q + 1) + Block * nb = Block * (q + 1 + nb)
    BY <1>10, BlockIsNat
  <2>3. tot + Block * (nb + 1) = start + Block * nb
    BY <1>3, <1>10, <1>18, BlockIsNat, SMTT(60)
  <2>4. tot2 \in Nat /\ blocks \in Nat /\ blocks = q + 1 + nb
    <3>1. start \in Nat /\ nb \in Nat /\ done \in Nat
      BY <1>10, <1>19, <2>1, Zenon
    <3> QED
      BY <1>23, <3>1
  <2>5. tot2 = Block * blocks
    BY <2>1, <2>2, <2>4
  <2>6. tot2 = tot + Block * (nb + 1)
    BY <1>21, <1>23, <2>3, Zenon
  <2>7. m_tot_len' = tot2
    BY <1>13, <2>6
  <2> QED
    BY <2>4, <2>5, <2>7
<1>25. Entries(m_block', Buffer) /\ InOrder(m_block', left, tot2)
  <2>1. PICK copied : copied = Copied(filled, 0, waits)
    OBVIOUS
  <2>2. 0 \in Nat /\ left \in Nat /\ 0 + left <= 2 * Block /\ 0 + left = left
    BY <1>10, BlockIsNat
  <2>3. InOrder(filled, 0, tot2)
    BY DEF InOrder
  <2>4. InOrder(waits, left, tot2 + 0)
    <3>1. tot2 + 0 = start + done
      BY <1>23, <1>24
    <3> QED
      BY <1>22, <3>1
  <2>5. Entries(copied, Buffer) /\ InOrder(copied, 0 + left, tot2)
    BY <1>22, <1>24, <2>1, <2>2, <2>3, <2>4, CopiedInOrder
  <2> QED
    BY <1>13, <2>1, <2>2, <2>5
<1>26. m_h' = Chain(blocks)
  <2>1. Block \in Nat /\ 1 \in Nat /\ Block * 1 <= Block
    BY BlockIsNat
  <2>2. \A i \in 1 .. Block : filled[i] = Block * q + i
    BY <1>3, <1>17 DEF InOrder
  <2>3. PICK h : h = transform(Chain(q), filled, 1)
    OBVIOUS
  <2>4. h = Chain(q + 1)
    BY <2>1, <2>2, <2>3, ChainGrows
  <2>5. PICK p : p = q + 1
    OBVIOUS
  <2>6. p \in Nat /\ Block * nb <= new /\ \A i \in 1 .. new : shifted[i] = Block * p + i
    BY <1>10, <1>19, <1>20, <2>5 DEF InOrder
  <2>7. transform(Chain(p), shifted, nb) = Chain(p + nb)
    BY <1>10, <2>6, ChainGrows
  <2>8. m_h = Chain(q)
    BY <1>1 DEF Open
  <2> QED
    BY <1>13, <1>23, <2>3, <2>4, <2>5, <2>7, <2>8
<1>27. Open(blocks)'
  BY <1>13, <1>24, <1>25, <1>26 DEF Open, Chain, BlockAt, InOrder
<1>28. HashInv'
  <2>1. tot2 % Block = 0
    <3>1. tot2 = Block * blocks + 0 /\ 0 \in 0 .. Block - 1 /\ Block > 0
      BY <1>24, BlockIsNat
    <3> QED
      BY <1>24, <3>1, BlockIsNat, DivMod
  <2> QED
    BY <1>10, <1>13, <1>24, <1>25, <1>27, <2>1 DEF HashInv, Buffer, Entries
<1>29. tot2 + left = tot + l + n
  <2>1. tot2 = tot + Block + done /\ n - rem = done + left /\ rem = Block - l /\ done \in Nat
    BY <1>6, <1>9, <1>10, <1>18, <1>21, <1>23
  <2> QED
    BY <1>3, <1>7, <1>10, <2>1, BlockIsNat
<1> QED
  BY <1>2, <1>13, <1>24, <1>28, <1>29 DEF Sent

--------------------------------------------------------------------------------
(* The padding *)

\* The places of the bytes of a padded message of n whole blocks and l bytes: n + b blocks.
PaddedPlaces(L, W) ==
  [i \in 1 .. W |-> IF i <= L THEN i
                    ELSE IF i = L + 1 THEN Bit1 ELSE IF i < W THEN Bit0 ELSE 8 * L]

\* The blocks the code pads to, and the zeros between the bit and the length.
PadBlocks(l) == 1 + (IF Block - Reserve < l THEN 1 ELSE 0)

LEMMA PadZeros ==
  ASSUME NEW q \in Nat, NEW l \in 0 .. Block - 1, NEW b, b = PadBlocks(l),
         NEW L, L = Block * q + l, NEW W, W = Block * (q + b)
  PROVE  /\ b \in {1, 2} /\ L \in Nat /\ W \in Nat /\ Block * q \in Nat
         /\ W = Block * q + Block * b
         /\ W \div Block = q + b
         /\ (-(L + Reserve)) % Block = W - L - Reserve
         /\ L + Reserve <= W
<1>1. b \in {1, 2} /\ Block * q \in Nat /\ W = Block * q + Block * b
  BY BlockIsNat DEF PadBlocks
<1>2. Block * b \in Nat /\ W \in Nat /\ L \in Nat
  BY <1>1, BlockIsNat
<1>3. W \div Block = q + b
  <2>1. PICK c : c = q + b
    OBVIOUS
  <2>2. c \in Int /\ W = Block * c + 0 /\ 0 \in 0 .. Block - 1 /\ Block > 0
    BY <1>1, <1>2, <2>1, BlockIsNat
  <2> QED
    BY <1>2, <2>1, <2>2, BlockIsNat, DivMod
<1>4. PICK z : z = Block * b - l - Reserve
  OBVIOUS
<1>5. z \in 0 .. Block - 1
  <2>1. CASE Block - Reserve < l
    <3>1. Block * b = Block + Block
      BY <2>1, BlockIsNat DEF PadBlocks
    <3> QED
      BY <1>4, <2>1, <3>1, BlockIsNat
  <2>2. CASE ~(Block - Reserve < l)
    <3>1. Block * b = Block
      BY <2>2, BlockIsNat DEF PadBlocks
    <3> QED
      BY <1>4, <2>2, <3>1, BlockIsNat
  <2> QED
    BY <2>1, <2>2
<1>6. z = W - L - Reserve
  BY <1>1, <1>2, <1>4, BlockIsNat
<1>7. (-(L + Reserve)) % Block = z
  <2>1. PICK c, x, bl : c = -(q + b) /\ x = -(L + Reserve) /\ bl = Block
    OBVIOUS
  <2>2. Block * c = -W
    BY <1>1, <2>1, BlockIsNat
  <2>3. c \in Int /\ x \in Int /\ x = Block * c + z
    BY <1>1, <1>2, <1>6, <2>1, <2>2, BlockIsNat
  <2>4. /\ bl \in Nat /\ bl > 0 /\ c \in Int /\ z \in 0 .. bl - 1 /\ x \in Int
        /\ x = bl * c + z
    BY <1>5, <2>1, <2>3, BlockIsNat
  <2>5. x % bl = z
    BY <2>4, DivMod, Zenon
  <2> QED
    BY <2>1, <2>5
<1> QED
  BY <1>1, <1>2, <1>3, <1>5, <1>6, <1>7, BlockIsNat

LEMMA PaddedIs ==
  ASSUME NEW q \in Nat, NEW l \in 0 .. Block - 1, NEW b, b = PadBlocks(l),
         NEW L, L = Block * q + l, NEW W, W = Block * (q + b)
  PROVE  Abstract!Padded(Places(L)) = PaddedPlaces(L, W)
<1>1. /\ L \in Nat /\ W \in Nat /\ L + Reserve <= W
      /\ (-(L + Reserve)) % Block = W - L - Reserve
  BY PadZeros
<1>2. PICK z : z = W - L - 2
  OBVIOUS
<1>3. z \in Nat
  BY <1>1, <1>2, BlockIsNat
<1>4. PICK m, one, zeros, length :
        m = Places(L) /\ one = <<Bit1>> /\ zeros = [i \in 1 .. z |-> Bit0] /\ length = <<8 * L>>
  OBVIOUS
<1>5. Len(m) = L
  BY <1>1, <1>4 DEF Places
<1>6. Abstract!Padded(m) = ((m \o one) \o zeros) \o length
  <2>1. (W - L - Reserve) + Reserve - 2 = z
    BY <1>1, <1>2, BlockIsNat
  <2> QED
    BY <1>1, <1>4, <1>5, <2>1 DEF Abstract!Padded, Abstract!Bit0, Abstract!Bit1, Bit0, Bit1
<1>7. /\ m = [i \in 1 .. L |-> m[i]] /\ one = [i \in 1 .. 1 |-> one[i]]
      /\ zeros = [i \in 1 .. z |-> zeros[i]] /\ length = [i \in 1 .. 1 |-> length[i]]
  BY <1>4 DEF Places
<1>8. /\ \A i \in 1 .. L : m[i] = i
      /\ one[1] = Bit1 /\ length[1] = 8 * L /\ \A i \in 1 .. z : zeros[i] = Bit0
  BY <1>4 DEF Places
<1>9. PICK s1, n1 : s1 = m \o one /\ n1 = L + 1
  OBVIOUS
<1>10. n1 \in Nat /\ s1 = [i \in 1 .. n1 |-> IF i <= L THEN m[i] ELSE one[i - L]]
  BY <1>1, <1>7, <1>9, ConcatIs
<1>11. s1 = [i \in 1 .. n1 |-> s1[i]]
  BY <1>10
<1>12. PICK s2, n2 : s2 = s1 \o zeros /\ n2 = n1 + z
  OBVIOUS
<1>13. n2 \in Nat /\ s2 = [i \in 1 .. n2 |-> IF i <= n1 THEN s1[i] ELSE zeros[i - n1]]
  <2>1. Entries(zeros, 1 .. z) /\ Entries(s1, 1 .. n1)
    BY <1>7, <1>11, Zenon DEF Entries
  <2>2. s1 \o zeros = [i \in 1 .. n1 + z |-> IF i <= n1 THEN s1[i] ELSE zeros[i - n1]]
    <3>1. n1 \in Nat
      BY <1>10
    <3>2. Joined(s1 \o zeros, s1, n1, zeros, z)
      BY <1>3, <2>1, <3>1, ConcatEntries
    <3> QED
      BY <3>2, Zenon DEF Joined
  <2>3. n2 \in Nat
    BY <1>3, <1>10, <1>12
  <2>4. n2 = n1 + z
    BY <1>12
  <2>5. s2 = [i \in 1 .. n1 + z |-> IF i <= n1 THEN s1[i] ELSE zeros[i - n1]]
    BY <1>12, <2>2, Zenon
  <2>6. s2 = [i \in 1 .. n2 |-> IF i <= n1 THEN s1[i] ELSE zeros[i - n1]]
    BY <2>4, <2>5, Zenon
  <2> QED
    BY <2>3, <2>6
<1>14. s2 = [i \in 1 .. n2 |-> s2[i]]
  BY <1>13
<1>15. PICK s3 : s3 = s2 \o length
  OBVIOUS
<1>16. s3 = [i \in 1 .. n2 + 1 |-> IF i <= n2 THEN s2[i] ELSE length[i - n2]]
  BY <1>7, <1>13, <1>14, <1>15, ConcatIs
<1>17. n2 + 1 = W /\ n1 = L + 1 /\ n2 = L + 1 + z
  <2>1. L \in Nat /\ W \in Nat
    BY <1>1
  <2>2. n1 = L + 1 /\ n2 = n1 + z /\ z = W - L - 2
    BY <1>2, <1>9, <1>12
  <2> QED
    BY <2>1, <2>2
<1>18. ASSUME NEW i \in 1 .. W PROVE s3[i] = PaddedPlaces(L, W)[i]
  <2>0. PaddedPlaces(L, W)[i] = IF i <= L THEN i ELSE IF i = L + 1 THEN Bit1
                                ELSE IF i < W THEN Bit0 ELSE 8 * L
    BY DEF PaddedPlaces
  <2>1. CASE i <= L
    <3>1. i \in 1 .. L /\ i \in 1 .. n1 /\ i \in 1 .. n2 /\ i \in 1 .. n2 + 1 /\ i <= n1 /\ i <= n2
      BY <1>1, <1>3, <1>17, <2>1
    <3>2. s3[i] = s2[i] /\ s2[i] = s1[i] /\ s1[i] = m[i] /\ m[i] = i
      BY <1>8, <1>10, <1>13, <1>16, <2>1, <3>1
    <3> QED
      BY <2>0, <2>1, <3>2
  <2>2. CASE i = L + 1
    <3>1. /\ i \in 1 .. n1 /\ i \in 1 .. n2 /\ i \in 1 .. n2 + 1 /\ i <= n1 /\ i <= n2
          /\ ~(i <= L) /\ i - L = 1
      BY <1>1, <1>3, <1>17, <2>2
    <3>2. s3[i] = s2[i] /\ s2[i] = s1[i] /\ s1[i] = one[1]
      BY <1>10, <1>13, <1>16, <3>1
    <3> QED
      BY <1>8, <2>0, <2>2, <3>1, <3>2
  <2>3. CASE i > L + 1 /\ i < W
    <3>1. /\ i \in 1 .. n2 /\ i \in 1 .. n2 + 1 /\ i <= n2 /\ ~(i <= n1) /\ i - n1 \in 1 .. z
          /\ ~(i <= L) /\ i # L + 1
      BY <1>1, <1>3, <1>17, <2>3
    <3>2. s3[i] = s2[i] /\ s2[i] = zeros[i - n1] /\ zeros[i - n1] = Bit0
      BY <1>8, <1>13, <1>16, <3>1
    <3> QED
      BY <2>0, <2>3, <3>1, <3>2
  <2>4. CASE ~(i <= L) /\ i # L + 1 /\ ~(i > L + 1 /\ i < W)
    <3>1. i = W /\ i \in 1 .. n2 + 1 /\ ~(i <= n2) /\ i - n2 = 1
      BY <1>1, <1>3, <1>17, <2>4
    <3>2. s3[i] = length[1]
      BY <1>16, <3>1
    <3> QED
      BY <1>8, <2>0, <2>4, <3>2
  <2> QED
    BY <2>1, <2>2, <2>3, <2>4
<1>19. s3 = [i \in 1 .. W |-> s3[i]]
  BY <1>16, <1>17
<1>20. PICK p : p = PaddedPlaces(L, W)
  OBVIOUS
<1>21. p = [i \in 1 .. W |-> p[i]]
  BY <1>20 DEF PaddedPlaces
<1>22. s3 = p
  BY <1>18, <1>19, <1>20, <1>21
<1> QED
  BY <1>4, <1>6, <1>9, <1>12, <1>15, <1>20, <1>22

\* What final hands to transform.
LEMMA FinalIs ==
  ASSUME HashInv, digest = Pending, final,
         NEW q \in Nat, Open(q), NEW l, l = m_len, NEW b, b = PadBlocks(l),
         NEW L, L = Block * q + l, NEW W, W = Block * (q + b)
  PROVE  \E padded :
           /\ m_block' = padded /\ Entries(padded, Buffer)
           /\ digest' = transform(Chain(q), padded, b)
           /\ \A i \in 1 .. Block * b : padded[i] = PaddedPlaces(L, W)[Block * q + i]
<1>1. l \in 0 .. Block - 1 /\ l % Block = l
  BY BlockIsNat DEF HashInv
<1>2. /\ b \in {1, 2} /\ L \in Nat /\ W \in Nat /\ Block * q \in Nat
      /\ W = Block * q + Block * b /\ L + Reserve <= W
  BY <1>1, PadZeros
<1>3. PICK tot, last : tot = Block * q /\ last = Block * b
  OBVIOUS
<1>4. /\ tot \in Nat /\ last \in Nat /\ last <= 2 * Block /\ W = tot + last /\ L = tot + l
      /\ l + Reserve <= last
  BY <1>1, <1>2, <1>3, BlockIsNat
<1>5. m_tot_len = tot /\ \A i \in 1 .. l : m_block[i] = tot + i
  BY <1>3 DEF Open
<1>6. PICK padded :
        padded = [i \in Buffer |-> CASE i <= l -> m_block[i]
                                     [] i = last -> 8 * (tot + l)
                                     [] i = l + 1 /\ i # last -> Bit1
                                     [] i > l + 1 /\ i < last -> Bit0
                                     [] OTHER -> m_block[i]]
  OBVIOUS
<1>7. m_block' = padded /\ digest' = transform(m_h, padded, b)
  <2>1. 1 + (IF Block - Reserve < m_len % Block THEN 1 ELSE 0) = b
    BY <1>1 DEF PadBlocks
  <2> QED
    BY <1>3, <1>5, <1>6, <2>1 DEF final
<1>8. Entries(padded, Buffer)
  BY <1>6 DEF Entries
<1>9. m_h = Chain(q)
  BY DEF Open
<1>10. ASSUME NEW i \in 1 .. last PROVE padded[i] = PaddedPlaces(L, W)[tot + i]
  <2>1. i \in Buffer /\ tot + i \in 1 .. W /\ i \in Int
    BY <1>4, BlockIsNat DEF Buffer
  <2>2. PaddedPlaces(L, W)[tot + i]
          = IF tot + i <= L THEN tot + i ELSE IF tot + i = L + 1 THEN Bit1
            ELSE IF tot + i < W THEN Bit0 ELSE 8 * L
    BY <2>1 DEF PaddedPlaces
  <2>3. padded[i] = CASE i <= l -> m_block[i]
                      [] i = last -> 8 * (tot + l)
                      [] i = l + 1 /\ i # last -> Bit1
                      [] i > l + 1 /\ i < last -> Bit0
                      [] OTHER -> m_block[i]
    BY <1>6, <2>1
  <2>4. l \in Nat
    BY <1>1
  <2>5. CASE i <= l
    <3>1. /\ ~(i = last) /\ ~(i = l + 1 /\ i # last) /\ ~(i > l + 1 /\ i < last)
          /\ tot + i <= L /\ i \in 1 .. l
      BY <1>4, <2>1, <2>4, <2>5, BlockIsNat
    <3> QED
      BY <1>5, <2>2, <2>3, <2>5, <3>1
  <2>6. CASE i = last
    <3>1. /\ ~(i <= l) /\ ~(i = l + 1 /\ i # last) /\ ~(i > l + 1 /\ i < last)
          /\ ~(tot + i <= L) /\ tot + i # L + 1 /\ ~(tot + i < W) /\ tot + l = L
      BY <1>4, <2>1, <2>4, <2>6, BlockIsNat
    <3> QED
      BY <2>2, <2>3, <2>6, <3>1
  <2>7. CASE i = l + 1
    <3>1. ~(i <= l) /\ i # last /\ ~(i > l + 1) /\ ~(tot + i <= L) /\ tot + i = L + 1
      BY <1>4, <2>1, <2>4, <2>7, BlockIsNat
    <3> QED
      BY <2>2, <2>3, <2>7, <3>1
  <2>8. CASE i > l + 1 /\ i < last
    <3>1. /\ ~(i <= l) /\ i # last /\ i # l + 1
          /\ ~(tot + i <= L) /\ tot + i # L + 1 /\ tot + i < W
      BY <1>4, <2>1, <2>4, <2>8, BlockIsNat
    <3> QED
      BY <2>2, <2>3, <2>8, <3>1
  <2> QED
    BY <1>4, <2>1, <2>4, <2>5, <2>6, <2>7, <2>8
<1> QED
  BY <1>3, <1>7, <1>8, <1>9, <1>10

\* The digest is the chain of the blocks of the padded message.
LEMMA DigestIs ==
  ASSUME HashInv, digest = Pending, final
  PROVE  /\ digest' = Abstract!Blocks(Abstract!Padded(Places(Sent)))
         /\ digest' # <<>> /\ Entries(m_block', Buffer)
<1>1. PICK q \in Nat : Open(q)
  BY DEF HashInv
<1>2. PICK l, b, L, W : l = m_len /\ b = PadBlocks(l) /\ L = Block * q + l /\ W = Block * (q + b)
  OBVIOUS
<1>3. l \in 0 .. Block - 1
  BY <1>2 DEF HashInv
<1>4. /\ b \in {1, 2} /\ L \in Nat /\ W \in Nat /\ Block * q \in Nat
      /\ W = Block * q + Block * b /\ W \div Block = q + b /\ L + Reserve <= W
  BY <1>2, <1>3, PadZeros
<1>5. PICK p : p = PaddedPlaces(L, W)
  OBVIOUS
<1>6. Sent = L /\ Abstract!Padded(Places(L)) = p
  BY <1>1, <1>2, <1>3, <1>5, PaddedIs DEF Sent, Open
<1>7. Len(p) = W /\ \A i \in 1 .. L : p[i] = i
  <2>1. p = [i \in 1 .. W |-> p[i]] /\ W \in Nat
    BY <1>4, <1>5 DEF PaddedPlaces
  <2>2. Len(p) = W
    BY <2>1
  <2>3. \A i \in 1 .. L : i \in 1 .. W /\ i <= L
    BY <1>4, BlockIsNat
  <2> QED
    BY <1>5, <2>2, <2>3 DEF PaddedPlaces
<1>8. PICK padded : /\ m_block' = padded /\ Entries(padded, Buffer)
                    /\ digest' = transform(Chain(q), padded, b)
                    /\ \A i \in 1 .. Block * b : padded[i] = p[Block * q + i]
  BY <1>1, <1>2, <1>5, FinalIs
<1>9. PICK h, tail : /\ h = Chain(q)
                     /\ tail = [k \in 1 .. b |-> SubSeq(padded, Block * (k - 1) + 1, Block * k)]
  OBVIOUS
<1>10. digest' = h \o tail
  BY <1>8, <1>9 DEF transform
<1>11. h = [k \in 1 .. q |-> h[k]] /\ tail = [k \in 1 .. b |-> tail[k]]
  BY <1>9 DEF Chain
<1>12. b \in Nat
  BY <1>4
<1>13. h \o tail = [k \in 1 .. q + b |-> IF k <= q THEN h[k] ELSE tail[k - q]]
  BY <1>11, <1>12, ConcatIs
<1>14. ASSUME NEW k \in 1 .. q + b
       PROVE  (IF k <= q THEN h[k] ELSE tail[k - q])
                = SubSeq(p, Block * (k - 1) + 1, Block * k)
  <2>1. PICK x : x = SubSeq(p, Block * (k - 1) + 1, Block * k)
    OBVIOUS
  <2>2. PICK n : n = q + b
    OBVIOUS
  <2>3. n \in Nat /\ k \in 1 .. n
    BY <1>12, <2>2
  <2>4. x = [i \in 1 .. Block |-> p[Block * (k - 1) + i]]
    BY <2>1, <2>3, BlockOf
  <2>5. CASE k <= q
    <3>1. PICK c : c = Block * (k - 1)
      OBVIOUS
    <3>2. k \in 1 .. q
      BY <2>5
    <3>3. c \in Nat /\ c + Block <= Block * q
      BY <3>1, <3>2, Borders, BlockIsNat
    <3>4. \A i \in 1 .. Block : c + i \in 1 .. L
      BY <1>2, <1>3, <1>4, <3>3, BlockIsNat
    <3>5. \A i \in 1 .. Block : p[c + i] = c + i
      BY <1>7, <3>4
    <3>6. x = BlockAt(k)
      BY <2>4, <3>1, <3>5 DEF BlockAt
    <3>7. h[k] = BlockAt(k)
      BY <1>9, <3>2 DEF Chain
    <3> QED
      BY <2>1, <2>5, <3>6, <3>7
  <2>6. CASE ~(k <= q)
    <3>1. PICK j : j = k - q
      OBVIOUS
    <3>2. j \in 1 .. b /\ k = q + j
      BY <1>12, <2>6, <3>1
    <3>3. PICK c, y : c = Block * (j - 1) /\ y = SubSeq(padded, Block * (j - 1) + 1, Block * j)
      OBVIOUS
    <3>4. y = [i \in 1 .. Block |-> padded[Block * (j - 1) + i]]
      BY <1>12, <3>2, <3>3, BlockOf
    <3>5. c \in Nat /\ c + Block <= Block * b
      BY <1>12, <3>2, <3>3, Borders, BlockIsNat
    <3>6. Block * (k - 1) = Block * q + c
      BY <1>12, <3>2, <3>3, BlockIsNat
    <3>7. ASSUME NEW i \in 1 .. Block PROVE padded[c + i] = p[Block * (k - 1) + i]
      <4>1. c + i \in 1 .. Block * b
        BY <1>4, <1>12, <3>5, BlockIsNat
      <4>2. padded[c + i] = p[Block * q + (c + i)]
        BY <1>8, <4>1
      <4>3. Block * q + (c + i) = Block * (k - 1) + i
        BY <1>4, <3>5, <3>6
      <4> QED
        BY <4>2, <4>3
    <3>8. x = y
      BY <2>4, <3>3, <3>4, <3>7
    <3>9. tail[j] = y
      BY <1>9, <3>2, <3>3
    <3> QED
      BY <2>1, <2>6, <3>1, <3>8, <3>9
  <2> QED
    BY <2>5, <2>6
<1>15. Abstract!Blocks(p) = [k \in 1 .. q + b |-> SubSeq(p, Block * (k - 1) + 1, Block * k)]
  BY <1>4, <1>7 DEF Abstract!Blocks
<1>16. digest' = Abstract!Blocks(p)
  BY <1>10, <1>13, <1>14, <1>15
<1>17. digest' # <<>>
  <2>1. PICK d, n : d = digest' /\ n = q + b
    OBVIOUS
  <2>2. d = [k \in 1 .. n |-> d[k]] /\ n \in Nat /\ n # 0
    <3>1. d = [k \in 1 .. n |-> IF k <= q THEN h[k] ELSE tail[k - q]]
      BY <1>10, <1>13, <2>1
    <3>2. n \in Nat /\ n # 0
      BY <1>4, <2>1
    <3> QED
      BY <3>1, <3>2
  <2>3. Len(d) = n
    BY <2>2
  <2>4. Len(<<>>) = 0
    OBVIOUS
  <2> QED
    BY <2>1, <2>2, <2>3, <2>4
<1> QED
  BY <1>6, <1>8, <1>16, <1>17

--------------------------------------------------------------------------------
(* The theorems *)

LEMMA UpdateStep ==
  ASSUME HashInv, digest = Pending, UNCHANGED digest, NEW n \in Nat,
         update([i \in 1 .. n |-> m_tot_len + m_len + i])
  PROVE  HashInv' /\ Sent' = Sent + n
<1>1. CASE m_len + n < Block
  BY <1>1, ShortUpdate
<1>2. CASE ~(m_len + n < Block)
  BY <1>2, LongUpdate
<1> QED
  BY <1>1, <1>2

LEMMA SentIsNat == ASSUME HashInv PROVE Sent \in Nat
  BY BlockIsNat DEF HashInv, Sent

LEMMA HashStep == HashInv /\ [Next]_vars => HashInv'
<1> SUFFICES ASSUME HashInv, [Next]_vars PROVE HashInv'
  OBVIOUS
<1>1. CASE init
  <2>1. Block * 0 = 0 /\ 0 % Block = 0
    BY BlockIsNat
  <2>2. <<>> = Chain(0)
    BY DEF Chain
  <2>3. Open(0)'
    BY <1>1, <2>1, <2>2 DEF init, Open, Chain, BlockAt
  <2>4. m_len' = 0 /\ m_tot_len' = 0 /\ m_block' = m_block
    BY <1>1 DEF init
  <2>5. m_block' = [i \in Buffer' |-> m_block'[i]]
    BY <2>4 DEF HashInv, Buffer
  <2> QED
    BY <2>1, <2>3, <2>4, <2>5, BlockIsNat DEF HashInv
<1>2. CASE Update
  <2>1. PICK n \in 0 .. MaxMessage - (m_tot_len + m_len) :
          update([i \in 1 .. n |-> m_tot_len + m_len + i])
    BY <1>2 DEF Update
  <2>2. n \in Nat
    OBVIOUS
  <2>3. digest = Pending /\ UNCHANGED digest
    BY <1>2 DEF Update
  <2> QED
    BY <2>1, <2>2, <2>3, UpdateStep
<1>3. CASE Final
  <2>1. digest = Pending /\ final
    BY <1>3 DEF Final
  <2>2. digest' # Pending /\ Entries(m_block', Buffer)
    BY <2>1, DigestIs DEF Pending
  <2>3. UNCHANGED <<m_len, m_tot_len>>
    BY <2>1 DEF final
  <2>4. m_block' = [i \in Buffer' |-> m_block'[i]]
    BY <2>2 DEF Entries, Buffer
  <2>5. digest' = Pending' => \E n \in Nat : Open(n)'
    BY <2>2 DEF Pending
  <2> QED
    BY <2>3, <2>4, <2>5 DEF HashInv
<1>4. CASE UNCHANGED vars
  BY <1>4 DEF vars, HashInv, Open, Chain, BlockAt, Buffer, Pending
<1> QED
  BY <1>1, <1>2, <1>3, <1>4 DEF Next

\* The buffer of SHA-512 never holds a whole block (TypeOK): its first bytes are fewer than
\* a block, and the chain has one entry for each block counted as transformed.
THEOREM HashBuffer == Spec => []TypeOK
<1>1. HashInv => TypeOK
  <2> SUFFICES ASSUME HashInv PROVE TypeOK
    OBVIOUS
  <2>1. ASSUME digest = Pending PROVE Len(m_h) * Block = m_tot_len
    <3>1. PICK n \in Nat : Open(n)
      BY <2>1 DEF HashInv
    <3>2. Len(Chain(n)) = n
      BY DEF Chain
    <3> QED
      BY <3>1, <3>2, BlockIsNat DEF Open
  <2> QED
    BY <2>1 DEF HashInv, TypeOK
<1> QED
  BY <1>1, HashInitInv, HashStep, PTL DEF Spec

LEMMA ReceivedInv == HashInv => (digest = Pending => Received = Places(Sent))
  BY ReceivedIs

LEMMA ReceivedNext == HashInv' => (digest' = Pending => Received' = Places(Sent'))
<1>1. (HashInv => (digest = Pending => Received = Places(Sent)))'
  BY ReceivedInv, PTL
<1> QED
  BY <1>1 DEF Pending, Places

\* However a message is cut into updates, and whatever earlier messages have left in the
\* buffer, SHA-512 computes the digest of the padded message: it implements Digest.
THEOREM DigestRefinement == Spec => DigestOfMessage
<1>1. Init => Abstract!Init
  <2> SUFFICES ASSUME Init PROVE Abstract!Init
    OBVIOUS
  <2>1. HashInv /\ digest = Pending
    BY HashInitInv DEF Init
  <2>2. Block * 0 = 0
    BY BlockIsNat
  <2>3. Sent = 0 /\ Places(0) = <<>>
    BY DEF Init, Sent, Places
  <2>4. Received = <<>>
    BY <2>1, <2>3, ReceivedIs
  <2> QED
    BY <2>1, <2>4 DEF Abstract!Init, Abstract!Pending, Pending
<1>2. HashInv /\ HashInv' /\ [Next]_vars => [Abstract!Next]_(Abstract!vars)
  <2> SUFFICES ASSUME HashInv, HashInv', [Next]_vars PROVE [Abstract!Next]_(Abstract!vars)
    OBVIOUS
  <2>0. Abstract!Pending = Pending /\ Pending = <<>>
    BY DEF Abstract!Pending, Pending
  <2>1. CASE init
    <3>1. digest' = Pending /\ Sent' = 0
      BY <2>1 DEF init, Sent
    <3>2. Received' = <<>>
      BY <3>1, ReceivedNext DEF Places
    <3>3. Abstract!Restart
      BY <2>0, <3>1, <3>2 DEF Abstract!Restart, Abstract!Pending, Pending
    <3> QED
      BY <3>3 DEF Abstract!Next
  <2>2. CASE Update
    <3>1. PICK n \in 0 .. MaxMessage - (m_tot_len + m_len) :
            update([i \in 1 .. n |-> m_tot_len + m_len + i])
      BY <2>2 DEF Update
    <3>2. digest = Pending /\ digest' = digest
      BY <2>2 DEF Update
    <3>3. PICK t : t = Sent
      OBVIOUS
    <3>4. t \in Nat /\ n \in Nat /\ n \in 0 .. MaxMessage - t
      BY <3>3, SentIsNat DEF Sent
    <3>5. Sent' = t + n
      BY <3>1, <3>2, <3>3, <3>4, UpdateStep
    <3>6. Received = Places(t) /\ Received' = Places(t + n)
      BY <3>2, <3>3, <3>5, ReceivedIs, ReceivedNext DEF Places
    <3>7. PICK m, c : m = Places(t) /\ c = [i \in 1 .. n |-> t + i]
      OBVIOUS
    <3>8. m = [i \in 1 .. t |-> m[i]] /\ c = [i \in 1 .. n |-> c[i]] /\ Len(m) = t
      BY <3>4, <3>7 DEF Places
    <3>9. m \o c = [i \in 1 .. t + n |-> IF i <= t THEN m[i] ELSE c[i - t]]
      BY <3>4, <3>8, ConcatIs
    <3>10. ASSUME NEW i \in 1 .. t + n PROVE (IF i <= t THEN m[i] ELSE c[i - t]) = i
      <4>1. CASE i <= t
        BY <3>4, <3>7, <4>1 DEF Places
      <4>2. CASE ~(i <= t)
        <5>1. i - t \in 1 .. n /\ t + (i - t) = i
          BY <3>4, <4>2
        <5> QED
          BY <3>7, <4>2, <5>1
      <4> QED
        BY <4>1, <4>2
    <3>11. m \o c = Places(t + n)
      BY <3>9, <3>10 DEF Places
    <3>12. Abstract!Update
      BY <2>0, <3>2, <3>4, <3>6, <3>7, <3>8, <3>11
         DEF Abstract!Update, Abstract!Chunk, Abstract!Pending, Pending
    <3> QED
      BY <3>12 DEF Abstract!Next
  <2>3. CASE Final
    <3>1. digest = Pending /\ final
      BY <2>3 DEF Final
    <3>2. /\ digest' = Abstract!Blocks(Abstract!Padded(Places(Sent)))
          /\ digest' # <<>>
      BY <3>1, DigestIs
    <3>3. Received = Places(Sent)
      BY <3>1, ReceivedIs
    <3>4. Abstract!Final
      BY <2>0, <3>1, <3>2, <3>3 DEF Abstract!Final, Pending
    <3> QED
      BY <3>4 DEF Abstract!Next
  <2>4. CASE UNCHANGED vars
    BY <2>4 DEF vars, Abstract!vars, Received, Pending
  <2> QED
    BY <2>1, <2>2, <2>3, <2>4 DEF Next
<1> QED
  BY <1>1, <1>2, HashInitInv, HashStep, PTL DEF Spec, DigestOfMessage, Abstract!Spec

--------------------------------------------------------------------------------
(* Powers of two *)

RegBits == Reg!W
Top == 2 * Reg!W
Pow == [n \in 0 .. Top |-> 2^n]

LEMMA Widths ==
  /\ Words \in Nat /\ WordBits \in Nat /\ ByteBits \in Nat /\ ImmBits \in Nat
  /\ Words >= 2 /\ WordBits >= 1 /\ ByteBits >= 1 /\ ImmBits >= 1 /\ ImmBits <= WordBits
  BY ArithmeticAssumption DEF Reg!WidthAssumption

LEMMA RegisterWidth ==
  /\ RegBits \in Nat /\ RegBits >= 2 /\ Top \in Nat /\ Top = 2 * RegBits
  /\ WordBits + 1 <= RegBits
<1>1. RegBits = Words * WordBits
  BY DEF RegBits, Reg!W
<1>2. RegBits \in Nat
  BY <1>1, Widths
<1>3. Words * WordBits >= 2 * WordBits
  BY Widths
<1> QED
  BY <1>1, <1>2, <1>3, Widths DEF Top, RegBits

LEMMA PowFirst == Pow[0] = 1
<1>1. 2^0 = 1
  BY ArithmeticAssumption DEF Reg!PowersAssumption
<1>2. 0 \in 0 .. Top
  BY RegisterWidth
<1> QED
  BY <1>1, <1>2 DEF Pow

LEMMA PowNext ==
  ASSUME NEW n \in Nat, n + 1 <= Top
  PROVE  Pow[n + 1] = 2 * Pow[n]
<1>1. \A i \in 0 .. 2 * Reg!W - 1 : 2^(i + 1) = 2 * 2^i
  BY ArithmeticAssumption DEF Reg!PowersAssumption
<1>2. n \in 0 .. 2 * Reg!W - 1 /\ n \in 0 .. Top /\ n + 1 \in 0 .. Top
  BY RegisterWidth DEF Top
<1>3. 2^(n + 1) = 2 * 2^n
  BY <1>1, <1>2
<1>4. Pow[n] = 2^n /\ Pow[n + 1] = 2^(n + 1)
  BY <1>2 DEF Pow
<1> QED
  BY <1>3, <1>4

LEMMA PowNat ==
  ASSUME NEW n \in Nat, n <= Top
  PROVE  Pow[n] \in Nat /\ Pow[n] >= 1
<1> DEFINE good == {i \in Nat : i <= Top => Pow[i] \in Nat /\ Pow[i] >= 1}
<1>1. 0 \in good
  BY PowFirst
<1>2. ASSUME NEW i \in Nat, i \in good PROVE i + 1 \in good
  <2>1. CASE i + 1 <= Top
    <3>1. i <= Top
      BY <2>1, RegisterWidth
    <3>2. Pow[i] \in Nat /\ Pow[i] >= 1
      BY <1>2, <3>1
    <3>3. Pow[i + 1] = 2 * Pow[i]
      BY <2>1, PowNext
    <3> QED
      BY <3>2, <3>3
  <2> QED
    BY <2>1
<1>3. Nat \subseteq good
  <2> HIDE DEF good
  <2> QED
    BY <1>1, <1>2, NatInSet
<1> QED
  BY <1>3

LEMMA PowAdd ==
  ASSUME NEW m \in Nat, NEW n \in Nat, m + n <= Top
  PROVE  Pow[m + n] = Pow[m] * Pow[n]
<1> DEFINE good == {i \in Nat : m + i <= Top => Pow[m + i] = Pow[m] * Pow[i]}
<1>1. 0 \in good
  <2>1. CASE m <= Top
    <3>1. Pow[m] \in Nat
      BY <2>1, PowNat
    <3>2. Pow[m] * 1 = Pow[m] /\ m + 0 = m
      BY <3>1
    <3> QED
      BY <3>2, PowFirst
  <2> QED
    BY <2>1
<1>2. ASSUME NEW i \in Nat, i \in good PROVE i + 1 \in good
  <2>1. CASE m + (i + 1) <= Top
    <3>1. m <= Top /\ i <= Top /\ m + i <= Top /\ i + 1 <= Top /\ m + i \in Nat
          /\ m + (i + 1) = (m + i) + 1
      BY <2>1, RegisterWidth
    <3>2. PICK u, v, w : u = Pow[m] /\ v = Pow[i] /\ w = Pow[m + i]
      OBVIOUS
    <3>3. u \in Nat /\ v \in Nat /\ w \in Nat
      BY <3>1, <3>2, PowNat
    <3>4. w = u * v
      BY <1>2, <3>1, <3>2
    <3>5. Pow[i + 1] = 2 * v
      BY <3>1, <3>2, PowNext
    <3>6. Pow[m + (i + 1)] = 2 * w
      <4>1. PICK n1 : n1 = m + i
        OBVIOUS
      <4>2. n1 \in Nat /\ n1 + 1 <= Top /\ m + (i + 1) = n1 + 1
        BY <2>1, <3>1, <4>1
      <4>3. Pow[n1 + 1] = 2 * Pow[n1]
        BY <4>2, PowNext
      <4> QED
        BY <3>2, <4>1, <4>2, <4>3
    <3>7. 2 * w = u * (2 * v)
      BY <3>3, <3>4
    <3> QED
      BY <3>2, <3>5, <3>6, <3>7
  <2> QED
    BY <2>1
<1>3. Nat \subseteq good
  <2> HIDE DEF good
  <2> QED
    BY <1>1, <1>2, NatInSet
<1> QED
  BY <1>3

\* A larger power is a multiple of a smaller one.
LEMMA PowSplit ==
  ASSUME NEW i \in Nat, NEW n \in Nat, i <= n, n <= Top
  PROVE  Pow[n] = Pow[i] * Pow[n - i]
<1>1. n - i \in Nat /\ i + (n - i) = n
  OBVIOUS
<1>2. Pow[i + (n - i)] = Pow[i] * Pow[n - i]
  BY <1>1, PowAdd
<1> QED
  BY <1>1, <1>2

LEMMA PowUp ==
  ASSUME NEW i \in Nat, NEW n \in Nat, i <= n, n <= Top
  PROVE  Pow[i] <= Pow[n]
<1>1. PICK u, v, w : u = Pow[i] /\ v = Pow[n - i] /\ w = Pow[n]
  OBVIOUS
<1>2. u \in Nat /\ v \in Nat /\ v >= 1 /\ w \in Nat
  BY <1>1, PowNat, RegisterWidth
<1>3. w = u * v
  BY <1>1, PowSplit
<1>4. u * v >= u
  BY <1>2
<1> QED
  BY <1>1, <1>2, <1>3, <1>4

--------------------------------------------------------------------------------
(* Bits *)

\* v has the bit c at place i, with r below it.
HasBit(v, i, r, c, q) ==
  /\ r \in 0 .. Pow[i] - 1 /\ c \in {0, 1} /\ q \in Nat
  /\ v = r + Pow[i] * (c + 2 * q)

LEMMA BitIs ==
  ASSUME NEW v, NEW i \in 0 .. Top
  PROVE  Reg!Bit(v, i) = (v \div Pow[i]) % 2
  BY DEF Pow, Reg!Bit

LEMMA BitOf ==
  ASSUME NEW v, NEW i \in Nat, i <= Top, NEW r, NEW c, NEW q, HasBit(v, i, r, c, q)
  PROVE  Reg!Bit(v, i) = c
<1>1. PICK u, d : u = Pow[i] /\ d = c + 2 * q
  OBVIOUS
<1>2. u \in Nat /\ u >= 1
  BY <1>1, PowNat
<1>3. c \in {0, 1} /\ q \in Nat /\ r \in 0 .. u - 1 /\ v = r + u * d
  BY <1>1 DEF HasBit
<1>4. d \in Int /\ v \in Int /\ v = u * d + r
  BY <1>1, <1>2, <1>3
<1>5. v \div u = d
  BY <1>2, <1>3, <1>4, DivMod
<1>6. d % 2 = c
  BY <1>1, <1>3
<1>7. i \in 0 .. Top
  BY RegisterWidth
<1> QED
  BY <1>1, <1>5, <1>6, <1>7, BitIs

LEMMA BitSplit ==
  ASSUME NEW v \in Nat, NEW i \in Nat, i <= Top
  PROVE  \E r, q : HasBit(v, i, r, Reg!Bit(v, i), q)
<1>0. PICK u : u = Pow[i]
  OBVIOUS
<1>2. u \in Nat /\ u >= 1
  BY <1>0, PowNat
<1>1. PICK d, r : d = v \div u /\ r = v % u
  OBVIOUS
<1>3. d \in Int /\ r \in 0 .. u - 1 /\ v = u * d + r
  BY <1>1, <1>2
<1>4. d \in Nat
  <2>1. PICK m : m = u * d
    OBVIOUS
  <2>2. m \in Int /\ m > -u
    BY <1>2, <1>3, <2>1
  <2>3. CASE d <= -1
    <3>1. m <= -u
      BY <1>2, <1>3, <2>1, <2>3
    <3> QED
      BY <1>2, <2>2, <3>1
  <2> QED
    BY <1>3, <2>3
<1>5. PICK q, c : q = d \div 2 /\ c = d % 2
  OBVIOUS
<1>6. q \in Nat /\ c \in {0, 1} /\ d = c + 2 * q
  BY <1>4, <1>5
<1>7. Reg!Bit(v, i) = c
  BY <1>0, <1>1, <1>5, BitIs, RegisterWidth
<1>8. v = r + Pow[i] * (c + 2 * q)
  BY <1>0, <1>2, <1>3, <1>6
<1> QED
  BY <1>0, <1>3, <1>6, <1>7, <1>8 DEF HasBit

LEMMA BitType ==
  ASSUME NEW v \in Nat, NEW i \in Nat, i <= Top
  PROVE  Reg!Bit(v, i) \in {0, 1}
  BY BitSplit DEF HasBit

\* A multiple of a larger power changes no bit below it.
LEMMA BitBelow ==
  ASSUME NEW v \in Nat, NEW k \in Nat, NEW i \in Nat, NEW n \in Nat, i < n, n <= Top
  PROVE  Reg!Bit(v + Pow[n] * k, i) = Reg!Bit(v, i)
<1>1. PICK c : c = Reg!Bit(v, i)
  OBVIOUS
<1>2. i <= Top /\ i + 1 <= Top /\ n - (i + 1) \in Nat /\ n - (i + 1) <= Top
  BY RegisterWidth
<1>3. PICK r, q : HasBit(v, i, r, c, q)
  BY <1>1, <1>2, BitSplit
<1>4. PICK u, z, m : u = Pow[i] /\ z = Pow[n - (i + 1)] /\ m = q + z * k
  OBVIOUS
<1>5. u \in Nat /\ z \in Nat
  BY <1>2, <1>4, PowNat
<1>6. Pow[n] = (2 * u) * z
  <2>1. i + 1 \in Nat /\ i + 1 <= n
    OBVIOUS
  <2>2. Pow[n] = Pow[i + 1] * Pow[n - (i + 1)]
    BY <2>1, PowSplit
  <2> QED
    BY <1>2, <1>4, <2>2, PowNext
<1>7. m \in Nat
  BY <1>3, <1>4, <1>5 DEF HasBit
<1>8. c \in {0, 1} /\ q \in Nat /\ r \in 0 .. u - 1 /\ v = r + u * (c + 2 * q)
  BY <1>3, <1>4 DEF HasBit
<1>9. v + ((2 * u) * z) * k = r + u * (c + 2 * m)
  <2>1. PICK zk : zk = z * k
    OBVIOUS
  <2>2. zk \in Nat
    BY <1>5, <2>1
  <2>3. ((2 * u) * z) * k = (2 * u) * zk
    BY <1>5, <2>1
  <2>4. m = q + zk
    BY <1>4, <2>1
  <2> QED
    BY <1>5, <1>8, <2>2, <2>3, <2>4
<1>10. HasBit(v + Pow[n] * k, i, r, c, m)
  BY <1>4, <1>6, <1>7, <1>8, <1>9 DEF HasBit
<1> QED
  BY <1>1, <1>2, <1>10, BitOf

\* The bits of k follow n lower ones.
LEMMA BitAbove ==
  ASSUME NEW n \in Nat, NEW i \in Nat, n <= i, i <= Top, NEW r \in 0 .. Pow[n] - 1, NEW k \in Nat
  PROVE  Reg!Bit(r + Pow[n] * k, i) = Reg!Bit(k, i - n)
<1>1. PICK c, j : c = Reg!Bit(k, i - n) /\ j = i - n
  OBVIOUS
<1>2. j \in Nat /\ j <= Top /\ n <= Top
  BY <1>1, RegisterWidth
<1>3. PICK s, q : HasBit(k, j, s, c, q)
  BY <1>1, <1>2, BitSplit
<1>4. PICK u, w, d : u = Pow[n] /\ w = Pow[j] /\ d = c + 2 * q
  OBVIOUS
<1>5. u \in Nat /\ w \in Nat
  BY <1>2, <1>4, PowNat
<1>6. Pow[i] = u * w
  BY <1>1, <1>2, <1>4, PowSplit
<1>7. c \in {0, 1} /\ q \in Nat /\ s \in 0 .. w - 1 /\ k = s + w * d /\ r \in 0 .. u - 1
      /\ d \in Nat
  BY <1>3, <1>4 DEF HasBit
<1>8. PICK t : t = r + u * s
  OBVIOUS
<1>9. t \in 0 .. u * w - 1
  <2>1. t \in Nat
    BY <1>5, <1>7, <1>8
  <2>2. t < u * (s + 1)
    BY <1>5, <1>7, <1>8
  <2>3. u * (s + 1) <= u * w
    BY <1>5, <1>7
  <2>4. u * (s + 1) \in Nat /\ u * w \in Nat
    BY <1>5, <1>7
  <2> QED
    BY <2>1, <2>2, <2>3, <2>4
<1>10. r + u * k = t + (u * w) * d
  <2>1. u * k = u * s + u * (w * d)
    BY <1>5, <1>7
  <2>2. u * (w * d) = (u * w) * d
    BY <1>5, <1>7
  <2> QED
    BY <1>5, <1>7, <1>8, <2>1, <2>2
<1>11. HasBit(r + Pow[n] * k, i, t, c, q)
  BY <1>4, <1>6, <1>7, <1>9, <1>10 DEF HasBit
<1> QED
  BY <1>1, <1>11, BitOf

LEMMA BitBeyond ==
  ASSUME NEW n \in Nat, NEW i \in Nat, n <= i, i <= Top, NEW v \in 0 .. Pow[n] - 1
  PROVE  Reg!Bit(v, i) = 0
<1>1. PICK u, w : u = Pow[n] /\ w = Pow[i]
  OBVIOUS
<1>2. u \in Nat /\ w \in Nat /\ u <= w
  BY <1>1, PowNat, PowUp, RegisterWidth
<1>3. v \in 0 .. u - 1 /\ v = v + w * (0 + 2 * 0)
  BY <1>1, <1>2
<1>4. HasBit(v, i, v, 0, 0)
  BY <1>1, <1>2, <1>3 DEF HasBit
<1> QED
  BY <1>4, BitOf

\* The two parts of a number at place n.
LEMMA Halves ==
  ASSUME NEW n \in Nat, n + 1 <= Top, NEW v \in 0 .. Pow[n + 1] - 1
  PROVE  \E r \in 0 .. Pow[n] - 1 : v = r + Pow[n] * Reg!Bit(v, n)
<1>1. PICK c : c = Reg!Bit(v, n)
  OBVIOUS
<1>2. n <= Top /\ Pow[n + 1] = 2 * Pow[n]
  BY PowNext, RegisterWidth
<1>3. PICK r, q : HasBit(v, n, r, c, q)
  BY <1>1, <1>2, BitSplit
<1>4. PICK u : u = Pow[n]
  OBVIOUS
<1>5. u \in Nat /\ u >= 1
  BY <1>2, <1>4, PowNat
<1>6. c \in {0, 1} /\ q \in Nat /\ r \in 0 .. u - 1 /\ v = r + u * (c + 2 * q) /\ v <= 2 * u - 1
  BY <1>2, <1>3, <1>4 DEF HasBit
<1>7. q = 0
  <2>1. CASE q >= 1
    <3>1. PICK d : d = c + 2 * q
      OBVIOUS
    <3>2. d \in Nat /\ d >= 2
      BY <1>6, <2>1, <3>1
    <3>3. u * d >= u * 2
      BY <1>5, <3>2
    <3>4. u * d \in Nat /\ v = r + u * d
      BY <1>5, <1>6, <3>1, <3>2
    <3> QED
      BY <1>5, <1>6, <3>3, <3>4
  <2> QED
    BY <1>6, <2>1
<1> QED
  BY <1>1, <1>4, <1>6, <1>7

SameBits(v, w, n) == \A i \in 0 .. n - 1 : Reg!Bit(v, i) = Reg!Bit(w, i)

\* Numbers of n bits with the same bits are the same.
LEMMA BitsDetermine ==
  ASSUME NEW n \in Nat, n <= Top, NEW v \in 0 .. Pow[n] - 1, NEW w \in 0 .. Pow[n] - 1,
         SameBits(v, w, n)
  PROVE  v = w
<1> DEFINE same(i) == \A x, y \in 0 .. Pow[i] - 1 : SameBits(x, y, i) => x = y
           good == {i \in Nat : i <= Top => same(i)}
<1>1. 0 \in good
  BY PowFirst
<1>2. ASSUME NEW i \in Nat, i \in good PROVE i + 1 \in good
  <2> SUFFICES ASSUME i + 1 <= Top, NEW x \in 0 .. Pow[i + 1] - 1, NEW y \in 0 .. Pow[i + 1] - 1,
                      SameBits(x, y, i + 1)
               PROVE  x = y
    OBVIOUS
  <2>1. i <= Top /\ same(i)
    BY <1>2, RegisterWidth
  <2>2. PICK r \in 0 .. Pow[i] - 1 : x = r + Pow[i] * Reg!Bit(x, i)
    BY Halves
  <2>3. PICK s \in 0 .. Pow[i] - 1 : y = s + Pow[i] * Reg!Bit(y, i)
    BY Halves
  <2>4. PICK c : c = Reg!Bit(x, i)
    OBVIOUS
  <2>5. c = Reg!Bit(y, i)
    BY <2>4 DEF SameBits
  <2>6. Pow[i] \in Nat /\ Pow[i + 1] \in Nat
    BY <2>1, PowNat
  <2>7. c \in Nat /\ r \in Nat /\ s \in Nat /\ x \in Nat
    <3>1. c \in {0, 1}
      BY <2>1, <2>4, <2>6, BitType
    <3> QED
      BY <2>6, <3>1
  <2>8. SameBits(r, s, i)
    <3> SUFFICES ASSUME NEW j \in 0 .. i - 1 PROVE Reg!Bit(r, j) = Reg!Bit(s, j)
      BY DEF SameBits
    <3>1. j \in Nat /\ j < i /\ j \in 0 .. (i + 1) - 1
      OBVIOUS
    <3>2. Reg!Bit(r + Pow[i] * c, j) = Reg!Bit(r, j)
      BY <2>1, <2>7, <3>1, BitBelow
    <3>3. Reg!Bit(s + Pow[i] * c, j) = Reg!Bit(s, j)
      BY <2>1, <2>7, <3>1, BitBelow
    <3>4. Reg!Bit(x, j) = Reg!Bit(y, j)
      BY <3>1 DEF SameBits
    <3> QED
      BY <2>2, <2>3, <2>4, <2>5, <3>2, <3>3, <3>4
  <2>9. r = s
    BY <2>1, <2>8
  <2> QED
    BY <2>2, <2>3, <2>4, <2>5, <2>9
<1>3. Nat \subseteq good
  <2> HIDE DEF good
  <2> QED
    BY <1>1, <1>2, NatInSet
<1> QED
  BY <1>3

LEMMA OneBit ==
  ASSUME NEW c \in {0, 1}
  PROVE  Reg!Bit(c, 0) = c
<1>1. HasBit(c, 0, 0, c, 0)
  BY PowFirst DEF HasBit
<1> QED
  BY <1>1, BitOf, RegisterWidth

--------------------------------------------------------------------------------
(* Bitwise operations *)

\* f adds up the first terms of t.
Sums(f, t, n) == f = [i \in 0 .. n |-> IF i = 0 THEN 0 ELSE f[i - 1] + t[i - 1]]

LEMMA SumsExist ==
  ASSUME NEW t, NEW n \in Nat
  PROVE  \E f : Sums(f, t, n)
<1> DEFINE good == {k \in Nat : \E f : Sums(f, t, k)}
<1>1. 0 \in good
  <2> DEFINE f == [i \in 0 .. 0 |-> 0]
  <2>1. Sums(f, t, 0)
    BY DEF Sums
  <2> QED
    BY <2>1
<1>2. ASSUME NEW k \in Nat, k \in good PROVE k + 1 \in good
  <2>1. PICK f : Sums(f, t, k)
    BY <1>2
  <2>2. PICK last : last = f[k] + t[k]
    OBVIOUS
  <2> DEFINE g == [i \in 0 .. k + 1 |-> IF i = k + 1 THEN last ELSE f[i]]
  <2>3. g[k + 1] = last /\ \A i \in 0 .. k : g[i] = f[i]
    OBVIOUS
  <2>4. \A i \in 0 .. k : f[i] = IF i = 0 THEN 0 ELSE f[i - 1] + t[i - 1]
    BY <2>1 DEF Sums
  <2>5. g = [i \in 0 .. k + 1 |-> g[i]]
    OBVIOUS
  <2> HIDE DEF g
  <2>6. ASSUME NEW i \in 0 .. k + 1
        PROVE  g[i] = IF i = 0 THEN 0 ELSE g[i - 1] + t[i - 1]
    <3>1. CASE i = k + 1
      <4>1. i # 0 /\ i - 1 = k /\ k \in 0 .. k
        BY <3>1
      <4> QED
        BY <2>2, <2>3, <3>1, <4>1
    <3>2. CASE i # k + 1
      <4>1. i \in 0 .. k /\ (i # 0 => i - 1 \in 0 .. k)
        BY <3>2
      <4> QED
        BY <2>3, <2>4, <4>1
    <3> QED
      BY <3>1, <3>2
  <2>7. Sums(g, t, k + 1)
    BY <2>5, <2>6 DEF Sums
  <2> QED
    BY <2>7
<1> HIDE DEF good
<1>3. n \in good
  BY <1>1, <1>2, NatInSet
<1> QED
  BY <1>3 DEF good

\* What op makes of the two bits at place i.
Pair(op, v, w, i) == op[<<Reg!Bit(v, i), Reg!Bit(w, i)>>]

\* The function Bitwise is defined with.
Combines(f, op, n, v, w) ==
  f = [i \in 0 .. n |->
         IF i = 0 THEN 0 ELSE f[i - 1] + 2^(i - 1) * op[Reg!Bit(v, i - 1), Reg!Bit(w, i - 1)]]

LEMMA BitwiseIs ==
  ASSUME NEW op, NEW n \in Nat, NEW v, NEW w
  PROVE  \E f : Combines(f, op, n, v, w) /\ Reg!Bitwise(op, n, v, w) = f[n]
<1> DEFINE f == CHOOSE g : Combines(g, op, n, v, w)
<1>1. \E g : Combines(g, op, n, v, w)
  <2> DEFINE t == [j \in 0 .. n - 1 |-> 2^j * Pair(op, v, w, j)]
  <2>1. PICK g : Sums(g, t, n)
    BY SumsExist
  <2>2. g = [i \in 0 .. n |-> IF i = 0 THEN 0 ELSE g[i - 1] + t[i - 1]]
    BY <2>1 DEF Sums
  <2>3. ASSUME NEW i \in 0 .. n, i # 0
        PROVE  t[i - 1] = 2^(i - 1) * Pair(op, v, w, i - 1)
    <3>1. i - 1 \in 0 .. n - 1
      BY <2>3
    <3> QED
      BY <3>1
  <2> HIDE DEF t
  <2>4. g = [i \in 0 .. n |->
               IF i = 0 THEN 0
               ELSE g[i - 1] + 2^(i - 1) * Pair(op, v, w, i - 1)]
    BY <2>2, <2>3
  <2> QED
    BY <2>4, Zenon DEF Combines, Pair
<1>2. Combines(f, op, n, v, w)
  BY <1>1
<1>3. Reg!Bitwise(op, n, v, w) = f[n]
  BY Zenon DEF Reg!Bitwise, Combines
<1> QED
  BY <1>2, <1>3

BitFunction == [Reg!BitPair -> {0, 1}]

LEMMA PairType ==
  ASSUME NEW op \in BitFunction, NEW v, NEW w, NEW i,
         Reg!Bit(v, i) \in {0, 1}, Reg!Bit(w, i) \in {0, 1}
  PROVE  Pair(op, v, w, i) \in {0, 1}
  BY DEF Pair, BitFunction, Reg!BitPair

\* z has n bits, those op makes of v and w.
BitByBit(z, op, n, v, w) ==
  /\ z \in 0 .. Pow[n] - 1
  /\ \A i \in 0 .. n - 1 : Reg!Bit(z, i) = Pair(op, v, w, i)

LEMMA BitwiseBits ==
  ASSUME NEW op \in BitFunction, NEW n \in Nat, n <= Top, NEW v \in Nat, NEW w \in Nat
  PROVE  BitByBit(Reg!Bitwise(op, n, v, w), op, n, v, w)
<1>1. PICK f : Combines(f, op, n, v, w) /\ Reg!Bitwise(op, n, v, w) = f[n]
  BY BitwiseIs
<1> DEFINE right(k) == /\ f[k] \in 0 .. Pow[k] - 1
                       /\ \A i \in 0 .. k - 1 : Reg!Bit(f[k], i) = Pair(op, v, w, i)
           good == {k \in Nat : k <= n => right(k)}
<1>2. f[0] = 0
  <2>1. f = [i \in 0 .. n |-> IF i = 0 THEN 0 ELSE f[i - 1] + 2^(i - 1) * Pair(op, v, w, i - 1)]
    BY <1>1, Zenon DEF Combines, Pair
  <2>2. 0 \in 0 .. n
    OBVIOUS
  <2> QED
    BY <2>1, <2>2
<1>3. ASSUME NEW k \in Nat, k + 1 <= n
      PROVE  f[k + 1] = f[k] + Pow[k] * Pair(op, v, w, k)
  <2>1. PICK j : j = k + 1
    OBVIOUS
  <2>2. j \in 0 .. n /\ j # 0 /\ j - 1 = k /\ k \in 0 .. Top
    BY <1>3, <2>1, RegisterWidth
  <2>3. f[j] = f[j - 1] + 2^(j - 1) * Pair(op, v, w, j - 1)
    <3>1. f = [i \in 0 .. n |-> IF i = 0 THEN 0 ELSE f[i - 1] + 2^(i - 1) * Pair(op, v, w, i - 1)]
      BY <1>1, Zenon DEF Combines, Pair
    <3> QED
      BY <2>2, <3>1
  <2>4. Pow[k] = 2^k
    BY <2>2 DEF Pow
  <2> QED
    BY <2>1, <2>2, <2>3, <2>4
<1>4. 0 \in good
  BY <1>2, PowFirst
<1>5. ASSUME NEW k \in Nat, k \in good PROVE k + 1 \in good
  <2> SUFFICES ASSUME k + 1 <= n PROVE right(k + 1)
    OBVIOUS
  <2>1. right(k) /\ k <= Top /\ k + 1 <= Top
    BY <1>5, RegisterWidth
  <2>2. PICK c, u, x : c = Pair(op, v, w, k) /\ u = Pow[k] /\ x = f[k]
    OBVIOUS
  <2>3. c \in {0, 1}
    <3>1. Reg!Bit(v, k) \in {0, 1} /\ Reg!Bit(w, k) \in {0, 1}
      BY <2>1, BitType
    <3> QED
      BY <2>2, <3>1, PairType
  <2>4. u \in Nat /\ x \in 0 .. u - 1 /\ Pow[k + 1] = 2 * u /\ f[k + 1] = x + u * c
    BY <1>3, <2>1, <2>2, PowNat, PowNext
  <2>5. f[k + 1] \in 0 .. Pow[k + 1] - 1
    BY <2>3, <2>4
  <2>6. ASSUME NEW i \in 0 .. k
        PROVE  Reg!Bit(x + u * c, i) = Pair(op, v, w, i)
    <3>1. CASE i = k
      <4>1. Reg!Bit(x + Pow[k] * c, k) = Reg!Bit(c, k - k)
        <5>1. x \in 0 .. Pow[k] - 1
          BY <2>2, <2>4, Zenon
        <5>2. c \in Nat
          BY <2>3
        <5>3. k <= k
          OBVIOUS
        <5> QED
          BY <2>1, <5>1, <5>2, <5>3, BitAbove
      <4>2. Reg!Bit(c, 0) = c
        BY <2>3, OneBit
      <4>3. k - k = 0
        OBVIOUS
      <4> QED
        BY <2>2, <3>1, <4>1, <4>2, <4>3
    <3>2. CASE i # k
      <4>1. i \in Nat /\ i < k /\ i \in 0 .. k - 1 /\ x \in Nat /\ c \in Nat
        BY <2>3, <2>4, <3>2
      <4>2. Reg!Bit(x + Pow[k] * c, i) = Reg!Bit(x, i)
        BY <2>1, <4>1, BitBelow
      <4> QED
        BY <2>1, <2>2, <4>1, <4>2
    <3> QED
      BY <3>1, <3>2
  <2>7. \A i \in 0 .. (k + 1) - 1 :
          Reg!Bit(f[k + 1], i) = Pair(op, v, w, i)
    BY <2>4, <2>6
  <2> QED
    BY <2>5, <2>7
<1>6. n \in good
  <2> HIDE DEF good
  <2> QED
    BY <1>4, <1>5, NatInSet
<1> QED
  BY <1>1, <1>6 DEF BitByBit

\* And, or, exclusive or and not of two bits.
LEMMA BitFunctions ==
  ASSUME NEW v, NEW w, NEW i, NEW c \in {0, 1}, NEW d \in {0, 1},
         c = Reg!Bit(v, i), d = Reg!Bit(w, i)
  PROVE  /\ Pair(Reg!BitAnd, v, w, i) = IF c = 1 /\ d = 1 THEN 1 ELSE 0
         /\ Pair(Reg!BitOr, v, w, i) = IF c = 0 /\ d = 0 THEN 0 ELSE 1
         /\ Pair(Reg!BitXor, v, w, i) = IF c = d THEN 0 ELSE 1
         /\ Pair(Reg!BitNot, v, w, i) = IF c = 0 THEN 1 ELSE 0
<1>1. Pair(Reg!BitAnd, v, w, i) = IF c = 1 /\ d = 1 THEN 1 ELSE 0
  BY DEF Pair, Reg!BitAnd, Reg!BitPair
<1>2. Pair(Reg!BitOr, v, w, i) = IF c = 0 /\ d = 0 THEN 0 ELSE 1
  BY DEF Pair, Reg!BitOr, Reg!BitPair
<1>3. Pair(Reg!BitXor, v, w, i) = IF c = d THEN 0 ELSE 1
  BY DEF Pair, Reg!BitXor, Reg!BitPair
<1>4. Pair(Reg!BitNot, v, w, i) = IF c = 0 THEN 1 ELSE 0
  BY DEF Pair, Reg!BitNot, Reg!BitPair
<1> QED
  BY <1>1, <1>2, <1>3, <1>4

LEMMA BitFunctionTypes ==
  Reg!BitAnd \in BitFunction /\ Reg!BitOr \in BitFunction
  /\ Reg!BitXor \in BitFunction /\ Reg!BitNot \in BitFunction
<1>1. Reg!BitAnd \in BitFunction
  <2>1. \A c \in {0, 1}, d \in {0, 1} : c * d \in {0, 1}
    OBVIOUS
  <2> QED
    BY <2>1 DEF Reg!BitAnd, BitFunction, Reg!BitPair
<1>2. Reg!BitOr \in BitFunction
  BY DEF Reg!BitOr, BitFunction, Reg!BitPair
<1>3. Reg!BitXor \in BitFunction
  BY DEF Reg!BitXor, BitFunction, Reg!BitPair
<1>4. Reg!BitNot \in BitFunction
  BY DEF Reg!BitNot, BitFunction, Reg!BitPair
<1> QED
  BY <1>1, <1>2, <1>3, <1>4

Gprs == 0 .. Pow[RegBits] - 1
BitPlaces == 0 .. RegBits - 1

LEMMA RegisterPower ==
  /\ Pow[RegBits] = 2^Reg!W /\ Pow[RegBits] \in Nat /\ Pow[RegBits] >= 4 /\ Reg!Gpr = Gprs
<1>1. RegBits \in 0 .. Top /\ RegBits <= Top
  BY RegisterWidth
<1>2. Pow[RegBits] = 2^Reg!W
  BY <1>1 DEF Pow, RegBits
<1>3. Pow[2] = 4
  <2>1. Pow[0 + 1] = 2 * Pow[0] /\ Pow[1 + 1] = 2 * Pow[1]
    BY RegisterWidth, PowNext
  <2> QED
    BY <2>1, PowFirst
<1>4. Pow[2] <= Pow[RegBits] /\ Pow[RegBits] \in Nat
  BY RegisterWidth, PowUp, PowNat
<1> QED
  BY <1>2, <1>3, <1>4 DEF Gprs, Reg!Gpr

LEMMA OrBits ==
  ASSUME NEW v \in Nat, NEW w \in Nat, NEW z, z = Reg!Or(v, w)
  PROVE  /\ z \in Gprs
         /\ \A i \in BitPlaces :
              Reg!Bit(z, i) = IF Reg!Bit(v, i) = 0 /\ Reg!Bit(w, i) = 0 THEN 0 ELSE 1
<1>0. Reg!BitOr \in BitFunction
  BY BitFunctionTypes
<1>1. z = Reg!Bitwise(Reg!BitOr, RegBits, v, w)
  BY DEF Reg!Or, RegBits
<1>2. RegBits \in Nat /\ RegBits <= Top
  BY RegisterWidth
<1>3. BitByBit(z, Reg!BitOr, RegBits, v, w)
  BY <1>0, <1>1, <1>2, BitwiseBits
<1>4. ASSUME NEW i \in BitPlaces
      PROVE  Reg!Bit(z, i) = IF Reg!Bit(v, i) = 0 /\ Reg!Bit(w, i) = 0 THEN 0 ELSE 1
  <2>1. PICK c, d : c = Reg!Bit(v, i) /\ d = Reg!Bit(w, i)
    OBVIOUS
  <2>2. c \in {0, 1} /\ d \in {0, 1}
    <3>1. i \in Nat /\ i <= Top
      BY <1>2, RegisterWidth DEF BitPlaces
    <3> QED
      BY <2>1, <3>1, BitType
  <2>3. Pair(Reg!BitOr, v, w, i) = IF c = 0 /\ d = 0 THEN 0 ELSE 1
    BY <2>1, <2>2, BitFunctions
  <2> QED
    BY <1>3, <2>1, <2>3 DEF BitPlaces, BitByBit
<1> QED
  BY <1>3, <1>4 DEF Gprs, BitByBit

LEMMA AndBits ==
  ASSUME NEW v \in Nat, NEW w \in Nat, NEW z, z = Reg!And(v, w)
  PROVE  /\ z \in Gprs
         /\ \A i \in BitPlaces :
              Reg!Bit(z, i) = IF Reg!Bit(v, i) = 1 /\ Reg!Bit(w, i) = 1 THEN 1 ELSE 0
<1>0. Reg!BitAnd \in BitFunction
  BY BitFunctionTypes
<1>1. z = Reg!Bitwise(Reg!BitAnd, RegBits, v, w)
  BY DEF Reg!And, RegBits
<1>2. RegBits \in Nat /\ RegBits <= Top
  BY RegisterWidth
<1>3. BitByBit(z, Reg!BitAnd, RegBits, v, w)
  BY <1>0, <1>1, <1>2, BitwiseBits
<1>4. ASSUME NEW i \in BitPlaces
      PROVE  Reg!Bit(z, i) = IF Reg!Bit(v, i) = 1 /\ Reg!Bit(w, i) = 1 THEN 1 ELSE 0
  <2>1. PICK c, d : c = Reg!Bit(v, i) /\ d = Reg!Bit(w, i)
    OBVIOUS
  <2>2. c \in {0, 1} /\ d \in {0, 1}
    <3>1. i \in Nat /\ i <= Top
      BY <1>2, RegisterWidth DEF BitPlaces
    <3> QED
      BY <2>1, <3>1, BitType
  <2>3. Pair(Reg!BitAnd, v, w, i) = IF c = 1 /\ d = 1 THEN 1 ELSE 0
    BY <2>1, <2>2, BitFunctions
  <2> QED
    BY <1>3, <2>1, <2>3 DEF BitPlaces, BitByBit
<1> QED
  BY <1>3, <1>4 DEF Gprs, BitByBit

--------------------------------------------------------------------------------
(* Remainders, complements and shifts *)

\* v is d times a power, and r.
Parts(v, n, d, r) == r \in 0 .. Pow[n] - 1 /\ d \in Nat /\ v = r + Pow[n] * d

LEMMA Divided ==
  ASSUME NEW v \in Nat, NEW n \in Nat, n <= Top
  PROVE  Parts(v, n, v \div Pow[n], v % Pow[n])
<1>1. PICK u : u = Pow[n]
  OBVIOUS
<1>2. u \in Nat /\ u >= 1
  BY <1>1, PowNat
<1>3. PICK d, r : d = v \div u /\ r = v % u
  OBVIOUS
<1>4. d \in Int /\ r \in 0 .. u - 1 /\ v = u * d + r
  BY <1>2, <1>3
<1>5. d \in Nat
  <2>1. PICK m : m = u * d
    OBVIOUS
  <2>2. m \in Int /\ m > -u
    BY <1>2, <1>4, <2>1
  <2>3. CASE d <= -1
    <3>1. m <= -u
      BY <1>2, <1>4, <2>1, <2>3
    <3> QED
      BY <1>2, <2>2, <3>1
  <2> QED
    BY <1>4, <2>3
<1>6. v = r + u * d
  BY <1>2, <1>4
<1>7. Parts(v, n, d, r)
  BY <1>1, <1>4, <1>5, <1>6 DEF Parts
<1> QED
  BY <1>1, <1>3, <1>7

LEMMA LowBits ==
  ASSUME NEW v \in Nat, NEW n \in Nat, n <= Top, NEW z, z = v % Pow[n]
  PROVE  z \in 0 .. Pow[n] - 1 /\ \A i \in 0 .. n - 1 : Reg!Bit(z, i) = Reg!Bit(v, i)
<1>1. PICK d : d = v \div Pow[n]
  OBVIOUS
<1>2. z \in 0 .. Pow[n] - 1 /\ d \in Nat /\ v = z + Pow[n] * d
  BY <1>1, Divided DEF Parts
<1>3. z \in Nat
  BY <1>2, PowNat
<1>4. ASSUME NEW i \in 0 .. n - 1 PROVE Reg!Bit(z, i) = Reg!Bit(v, i)
  <2>1. i \in Nat /\ i < n
    OBVIOUS
  <2>2. Reg!Bit(z + Pow[n] * d, i) = Reg!Bit(z, i)
    BY <1>2, <1>3, <2>1, BitBelow
  <2> QED
    BY <1>2, <2>2
<1> QED
  BY <1>2, <1>4

\* A shift to the right by at most the width.
LEMMA ShrBits ==
  ASSUME NEW v \in Gprs, NEW n \in Nat, n <= RegBits, NEW z, z = Reg!Shr(v, n)
  PROVE  /\ z \in Gprs
         /\ \A i \in BitPlaces : Reg!Bit(z, i) = IF i + n < RegBits THEN Reg!Bit(v, i + n) ELSE 0
<1>1. n <= Top /\ n \in 0 .. Top /\ RegBits <= Top /\ RegBits \in Nat
  BY RegisterWidth
<1>2. v \in Nat /\ v <= Pow[RegBits] - 1
  BY RegisterPower DEF Gprs
<1>3. z = v \div Pow[n]
  BY <1>1 DEF Reg!Shr, Pow
<1>4. PICK r : r = v % Pow[n]
  OBVIOUS
<1>5. r \in 0 .. Pow[n] - 1 /\ z \in Nat /\ v = r + Pow[n] * z
  BY <1>1, <1>2, <1>3, <1>4, Divided DEF Parts
<1>6. z \in Gprs
  <2>1. PICK u : u = Pow[n]
    OBVIOUS
  <2>2. u \in Nat /\ u >= 1
    BY <1>1, <2>1, PowNat
  <2>3. u * z >= z
    BY <1>5, <2>2
  <2>4. z <= v
    BY <1>5, <2>1, <2>2, <2>3
  <2> QED
    BY <1>2, <1>5, <2>4, RegisterPower DEF Gprs
<1>7. ASSUME NEW i \in BitPlaces
      PROVE  Reg!Bit(z, i) = IF i + n < RegBits THEN Reg!Bit(v, i + n) ELSE 0
  <2>1. PICK j : j = i + n
    OBVIOUS
  <2>2. j \in Nat /\ n <= j /\ j <= Top /\ j - n = i
    BY <1>1, <2>1, RegisterWidth DEF BitPlaces
  <2>3. Reg!Bit(r + Pow[n] * z, j) = Reg!Bit(z, j - n)
    BY <1>5, <2>2, BitAbove
  <2>4. Reg!Bit(v, j) = Reg!Bit(z, i)
    BY <1>5, <2>2, <2>3
  <2>5. CASE j < RegBits
    BY <2>1, <2>4, <2>5
  <2>6. CASE ~(j < RegBits)
    <3>1. RegBits <= j
      BY <1>1, <2>2, <2>6
    <3>2. v \in 0 .. Pow[RegBits] - 1
      BY DEF Gprs
    <3>3. Reg!Bit(v, j) = 0
      BY <1>1, <2>2, <3>1, <3>2, BitBeyond
    <3> QED
      BY <2>1, <2>4, <2>6, <3>3
  <2> QED
    BY <2>5, <2>6
<1> QED
  BY <1>6, <1>7

\* A shift to the left by at most the width.
LEMMA ShlBits ==
  ASSUME NEW v \in Nat, NEW n \in Nat, n <= RegBits, NEW z, z = Reg!Shl(v, n)
  PROVE  /\ z \in Gprs
         /\ z = (v % Pow[RegBits - n]) * Pow[n]
         /\ \A i \in BitPlaces : Reg!Bit(z, i) = IF i < n THEN 0 ELSE Reg!Bit(v, i - n)
<1>1. /\ n <= Top /\ n \in 0 .. Top /\ RegBits <= Top /\ RegBits \in Nat
      /\ RegBits - n \in Nat /\ RegBits - n <= Top
  BY RegisterWidth
<1>2. PICK m, u, w, M : m = RegBits - n /\ u = Pow[n] /\ w = Pow[RegBits - n] /\ M = Pow[RegBits]
  OBVIOUS
<1>3. u \in Nat /\ u >= 1 /\ w \in Nat /\ w >= 1 /\ M \in Nat /\ M >= 1
  BY <1>1, <1>2, PowNat
<1>4. M = u * w
  BY <1>1, <1>2, PowSplit
<1>5. z = (v * u) % M
  BY <1>1, <1>2, RegisterPower DEF Reg!Shl, Pow
<1>6. PICK lo, hi : lo = v % w /\ hi = v \div w
  OBVIOUS
<1>7. lo \in 0 .. w - 1 /\ hi \in Nat /\ v = lo + w * hi
  <2>1. Parts(v, RegBits - n, hi, lo)
    BY <1>1, <1>2, <1>6, Divided
  <2> QED
    BY <1>2, <2>1 DEF Parts
<1>8. v * u = M * hi + u * lo
  <2>1. v * u = lo * u + (w * hi) * u
    BY <1>3, <1>7
  <2>2. (w * hi) * u = (u * w) * hi /\ lo * u = u * lo
    BY <1>3, <1>7
  <2>3. (u * w) * hi \in Nat /\ u * lo \in Nat
    BY <1>3, <1>7
  <2> QED
    BY <1>4, <2>1, <2>2, <2>3
<1>9. u * lo \in 0 .. M - 1
  <2>1. u * lo \in Nat
    BY <1>3, <1>7
  <2>2. u * lo < u * w
    BY <1>3, <1>7
  <2> QED
    BY <1>3, <1>4, <2>1, <2>2
<1>10. z = u * lo
  <2>1. PICK r, x : r = u * lo /\ x = v * u
    OBVIOUS
  <2>2. M > 0 /\ hi \in Int /\ r \in 0 .. M - 1 /\ x \in Int /\ x = M * hi + r
    BY <1>3, <1>7, <1>8, <1>9, <2>1
  <2>3. x % M = r
    BY <1>3, <2>2, DivMod
  <2> QED
    BY <1>5, <2>1, <2>3
<1>11. z \in Gprs
  BY <1>2, <1>9, <1>10 DEF Gprs
<1>12. z = (v % Pow[RegBits - n]) * Pow[n]
  <2>1. u * lo = lo * u
    BY <1>3, <1>7
  <2> QED
    BY <1>2, <1>6, <1>10, <2>1
<1>13. ASSUME NEW i \in BitPlaces
       PROVE  Reg!Bit(z, i) = IF i < n THEN 0 ELSE Reg!Bit(v, i - n)
  <2>1. i \in Nat /\ i <= Top /\ i < RegBits /\ 0 \in Nat /\ lo \in Nat
    BY <1>1, <1>3, <1>7, RegisterWidth DEF BitPlaces
  <2>2. z = 0 + Pow[n] * lo
    <3>1. u * lo \in Nat
      BY <1>9, <1>3
    <3> QED
      BY <1>2, <1>10, <3>1
  <2>3. CASE i < n
    <3>1. Reg!Bit(0 + Pow[n] * lo, i) = Reg!Bit(0, i)
      BY <1>1, <2>1, <2>3, BitBelow
    <3>2. Reg!Bit(0, i) = 0
      <4>1. 0 \in 0 .. Pow[0] - 1 /\ 0 <= i
        BY <2>1, PowFirst
      <4> QED
        BY <2>1, <4>1, BitBeyond
    <3> QED
      BY <2>2, <2>3, <3>1, <3>2
  <2>4. CASE ~(i < n)
    <3>1. PICK j : j = i - n
      OBVIOUS
    <3>2. j \in Nat /\ j < m /\ n <= i /\ m \in Nat /\ m <= Top /\ j \in 0 .. m - 1
      BY <1>1, <1>2, <2>1, <2>4, <3>1
    <3>3. 0 \in 0 .. Pow[n] - 1
      BY <1>2, <1>3
    <3>4. Reg!Bit(0 + Pow[n] * lo, i) = Reg!Bit(lo, i - n)
      BY <1>1, <2>1, <3>2, <3>3, BitAbove
    <3>5. lo = v % Pow[m]
      BY <1>2, <1>6
    <3>6. Reg!Bit(lo, j) = Reg!Bit(v, j)
      BY <3>2, <3>5, LowBits
    <3> QED
      BY <2>2, <2>4, <3>1, <3>4, <3>6
  <2> QED
    BY <2>3, <2>4
<1> QED
  BY <1>11, <1>12, <1>13

LEMMA NotBits ==
  ASSUME NEW v \in Gprs, NEW z, z = Reg!Not(v)
  PROVE  /\ z \in Gprs
         /\ \A i \in BitPlaces : Reg!Bit(z, i) = 1 - Reg!Bit(v, i)
<1>1. PICK M : M = Pow[RegBits]
  OBVIOUS
<1>2. M \in Nat /\ v \in 0 .. M - 1 /\ z = M - 1 - v /\ RegBits \in Nat /\ RegBits <= Top
  BY <1>1, RegisterPower, RegisterWidth DEF Reg!Not, Gprs
<1>3. z \in Gprs
  BY <1>1, <1>2 DEF Gprs
<1>4. ASSUME NEW i \in BitPlaces PROVE Reg!Bit(z, i) = 1 - Reg!Bit(v, i)
  <2>1. i \in Nat /\ i <= Top /\ i + 1 <= RegBits /\ i + 1 \in Nat /\ RegBits - (i + 1) \in Nat
        /\ RegBits - (i + 1) <= Top /\ v \in Nat /\ i + 1 <= Top
    BY <1>2, RegisterWidth DEF BitPlaces
  <2>2. PICK c : c = Reg!Bit(v, i)
    OBVIOUS
  <2>3. PICK r, q : HasBit(v, i, r, c, q)
    BY <2>1, <2>2, BitSplit
  <2>4. PICK u, k : u = Pow[i] /\ k = Pow[RegBits - (i + 1)]
    OBVIOUS
  <2>5. u \in Nat /\ u >= 1 /\ k \in Nat /\ k >= 1
    BY <2>1, <2>4, PowNat
  <2>6. M = (2 * u) * k
    <3>1. Pow[RegBits] = Pow[i + 1] * Pow[RegBits - (i + 1)]
      BY <1>2, <2>1, PowSplit
    <3> QED
      BY <1>1, <2>1, <2>4, <3>1, PowNext
  <2>7. c \in {0, 1} /\ q \in Nat /\ r \in 0 .. u - 1 /\ v = r + u * (c + 2 * q)
    BY <2>3, <2>4 DEF HasBit
  <2>8. q < k
    <3>1. CASE q >= k
      <4>1. PICK d : d = c + 2 * q
        OBVIOUS
      <4>2. d \in Nat /\ d >= 2 * k
        BY <2>5, <2>7, <3>1, <4>1
      <4>3. u * d >= u * (2 * k)
        BY <2>5, <4>2
      <4>4. u * (2 * k) = (2 * u) * k /\ u * d \in Nat /\ v = r + u * d
        BY <2>5, <2>7, <4>1, <4>2
      <4> QED
        BY <1>2, <2>5, <2>6, <2>7, <4>3, <4>4
    <3> QED
      BY <2>5, <2>7, <3>1
  <2>9. PICK q2, r2, c2 : q2 = k - 1 - q /\ r2 = u - 1 - r /\ c2 = 1 - c
    OBVIOUS
  <2>10. q2 \in Nat /\ r2 \in 0 .. u - 1 /\ c2 \in {0, 1}
    BY <2>5, <2>7, <2>8, <2>9
  <2>11. z = r2 + u * (c2 + 2 * q2)
    <3>1. PICK d, d2 : d = c + 2 * q /\ d2 = c2 + 2 * q2
      OBVIOUS
    <3>2. d \in Nat /\ d2 \in Nat /\ d2 = (2 * k - 1) - d
      BY <2>5, <2>7, <2>8, <2>9, <2>10, <3>1
    <3>3. u * d2 = u * (2 * k - 1) - u * d
      BY <2>5, <3>2
    <3>4. u * (2 * k - 1) = (2 * u) * k - u
      BY <2>5
    <3>5. u * d \in Nat /\ (2 * u) * k \in Nat
      BY <2>5, <3>2
    <3> QED
      BY <1>2, <2>5, <2>6, <2>7, <2>9, <3>1, <3>3, <3>4, <3>5
  <2>12. HasBit(z, i, r2, c2, q2)
    BY <2>4, <2>10, <2>11 DEF HasBit
  <2>13. Reg!Bit(z, i) = c2
    BY <2>1, <2>12, BitOf
  <2> QED
    BY <2>2, <2>9, <2>13
<1> QED
  BY <1>3, <1>4

--------------------------------------------------------------------------------
(* The instructions on bits *)

LEMMA Place ==
  ASSUME NEW i \in BitPlaces
  PROVE  i \in Nat /\ i < RegBits /\ i <= Top /\ i + 1 <= Top
  BY RegisterWidth DEF BitPlaces

LEMMA GprIsNat == ASSUME NEW v \in Gprs PROVE v \in Nat
  BY RegisterPower DEF Gprs

LEMMA ZeroBits == ASSUME NEW i \in Nat, i <= Top PROVE Reg!Bit(0, i) = 0
<1>1. 0 \in 0 .. Pow[0] - 1 /\ 0 <= i
  BY PowFirst
<1> QED
  BY <1>1, BitBeyond

\* op on the n low bits, those of v above.
LEMMA LogicBits ==
  ASSUME NEW op \in BitFunction, NEW n \in Nat, n <= RegBits, NEW v \in Gprs, NEW w \in Gprs,
         NEW z, z = Reg!BinaryLogicOpLsb(op, n, v, w)
  PROVE  /\ z \in Gprs
         /\ \A i \in BitPlaces :
              Reg!Bit(z, i) = IF i < n THEN Pair(op, v, w, i) ELSE Reg!Bit(v, i)
<1>1. n <= Top /\ n \in 0 .. Top /\ v \in Nat /\ w \in Nat
  BY RegisterWidth, GprIsNat
<1>2. PICK lo, lo2, d : lo = v % Pow[n] /\ lo2 = w % Pow[n] /\ d = v \div Pow[n]
  OBVIOUS
<1>3. lo \in 0 .. Pow[n] - 1 /\ d \in Nat /\ v = lo + Pow[n] * d
  BY <1>1, <1>2, Divided DEF Parts
<1>4. lo2 \in 0 .. Pow[n] - 1
  BY <1>1, <1>2, LowBits
<1>5. Pow[n] \in Nat /\ Pow[n] >= 1
  BY <1>1, PowNat
<1>6. lo \in Nat /\ lo2 \in Nat
  BY <1>3, <1>4, <1>5
<1>7. PICK high, m : high = v - lo /\ m = Reg!Bitwise(op, n, lo, lo2)
  OBVIOUS
<1>8. BitByBit(m, op, n, lo, lo2)
  BY <1>1, <1>6, <1>7, BitwiseBits
<1>9. high \in Nat /\ high = 0 + Pow[n] * d
  <2>1. PICK x : x = Pow[n] * d
    OBVIOUS
  <2>2. x \in Nat /\ v = lo + x
    BY <1>3, <1>5, <2>1
  <2> QED
    BY <1>6, <1>7, <2>1, <2>2
<1>10. m \in Nat /\ m \in 0 .. Pow[n] - 1
  BY <1>5, <1>8 DEF BitByBit
<1>11. z = Reg!Or(high, m)
  <2>1. Reg!MaskLsb(v, n) = lo /\ Reg!MaskLsb(w, n) = lo2
    BY <1>1, <1>2 DEF Reg!MaskLsb, Pow
  <2> QED
    BY <1>7, <2>1 DEF Reg!BinaryLogicOpLsb
<1>12. /\ z \in Gprs
       /\ \A i \in BitPlaces :
            Reg!Bit(z, i) = IF Reg!Bit(high, i) = 0 /\ Reg!Bit(m, i) = 0 THEN 0 ELSE 1
  BY <1>9, <1>10, <1>11, OrBits
<1>13. ASSUME NEW i \in BitPlaces
       PROVE  Reg!Bit(z, i) = IF i < n THEN Pair(op, v, w, i) ELSE Reg!Bit(v, i)
  <2>1. i \in Nat /\ i <= Top
    BY Place
  <2>2. Reg!Bit(v, i) \in {0, 1} /\ Reg!Bit(w, i) \in {0, 1}
    BY <1>1, <2>1, BitType
  <2>3. CASE i < n
    <3>1. Reg!Bit(0 + Pow[n] * d, i) = Reg!Bit(0, i)
      <4>1. 0 \in Nat
        OBVIOUS
      <4> QED
        BY <1>1, <1>3, <2>1, <2>3, <4>1, BitBelow
    <3>2. Reg!Bit(high, i) = 0
      BY <1>9, <2>1, <3>1, ZeroBits
    <3>3. i \in 0 .. n - 1
      BY <2>1, <2>3
    <3>4. Reg!Bit(lo, i) = Reg!Bit(v, i) /\ Reg!Bit(lo2, i) = Reg!Bit(w, i)
      BY <1>1, <1>2, <3>3, LowBits
    <3>5. Pair(op, lo, lo2, i) = Pair(op, v, w, i)
      BY <3>4 DEF Pair
    <3>6. Reg!Bit(m, i) = Pair(op, v, w, i)
      BY <1>8, <3>3, <3>5 DEF BitByBit
    <3>7. Pair(op, v, w, i) \in {0, 1}
      BY <2>2, PairType
    <3> QED
      BY <1>12, <2>3, <3>2, <3>6, <3>7
  <2>4. CASE ~(i < n)
    <3>1. n <= i
      BY <2>1, <2>4
    <3>2. 0 \in 0 .. Pow[n] - 1
      BY <1>5
    <3>3. Reg!Bit(0 + Pow[n] * d, i) = Reg!Bit(d, i - n)
      BY <1>3, <2>1, <3>1, <3>2, BitAbove
    <3>4. Reg!Bit(lo + Pow[n] * d, i) = Reg!Bit(d, i - n)
      BY <1>3, <2>1, <3>1, BitAbove
    <3>5. Reg!Bit(high, i) = Reg!Bit(v, i)
      BY <1>3, <1>9, <3>3, <3>4
    <3>6. Reg!Bit(m, i) = 0
      BY <1>10, <2>1, <3>1, BitBeyond
    <3> QED
      BY <1>12, <2>2, <2>4, <3>5, <3>6
  <2> QED
    BY <2>3, <2>4
<1> QED
  BY <1>12, <1>13

\* Only the bit at place e is set.
Single(m, e) == /\ m \in Gprs
                /\ \A i \in BitPlaces : Reg!Bit(m, i) = IF i = e THEN 1 ELSE 0

LEMMA BitsOfOne ==
  ASSUME NEW i \in Nat, i <= Top
  PROVE  Reg!Bit(1, i) = IF i = 0 THEN 1 ELSE 0
<1>1. CASE i = 0
  BY <1>1, OneBit
<1>2. CASE i # 0
  <2>1. Pow[0 + 1] = 2 * Pow[0]
    BY RegisterWidth, PowNext
  <2>2. 1 \in 0 .. Pow[1] - 1 /\ 1 <= i
    BY <1>2, <2>1, PowFirst
  <2>3. Reg!Bit(1, i) = 0
    BY <2>2, BitBeyond
  <2> QED
    BY <1>2, <2>3
<1> QED
  BY <1>1, <1>2

LEMMA ShiftedOne ==
  ASSUME NEW e \in BitPlaces
  PROVE  Single(Reg!Shl(1, e), e)
<1>1. PICK m : m = Reg!Shl(1, e)
  OBVIOUS
<1>2. e \in Nat /\ e <= RegBits /\ 1 \in Nat
  BY Place, RegisterWidth
<1>3. /\ m \in Gprs
      /\ \A i \in BitPlaces : Reg!Bit(m, i) = IF i < e THEN 0 ELSE Reg!Bit(1, i - e)
  BY <1>1, <1>2, ShlBits
<1>4. ASSUME NEW i \in BitPlaces PROVE Reg!Bit(m, i) = IF i = e THEN 1 ELSE 0
  <2>1. i \in Nat /\ i <= Top
    BY Place
  <2>2. CASE i < e
    BY <1>2, <1>3, <2>1, <2>2
  <2>3. CASE ~(i < e)
    <3>1. PICK j : j = i - e
      OBVIOUS
    <3>2. j \in Nat /\ j <= Top /\ (j = 0 <=> i = e)
      BY <1>2, <2>1, <2>3, <3>1, RegisterWidth
    <3>3. Reg!Bit(1, j) = IF j = 0 THEN 1 ELSE 0
      BY <3>2, BitsOfOne
    <3> QED
      BY <1>3, <2>3, <3>1, <3>2, <3>3
  <2> QED
    BY <2>2, <2>3
<1> QED
  BY <1>1, <1>3, <1>4 DEF Single

LEMMA SetBitBits ==
  ASSUME NEW v \in Gprs, NEW w \in Gprs, NEW i \in BitPlaces
  PROVE  /\ Reg!Bit(Reg!SetBit(v, w), i) = IF i = w % RegBits THEN 1 ELSE Reg!Bit(v, i)
         /\ Reg!Bit(Reg!ClearBit(v, w), i) = IF i = w % RegBits THEN 0 ELSE Reg!Bit(v, i)
<1>1. PICK e : e = w % RegBits
  OBVIOUS
<1>2. e \in BitPlaces
  <2>1. w \in Nat /\ RegBits \in Nat /\ RegBits >= 2
    BY GprIsNat, RegisterWidth
  <2> QED
    BY <1>1, <2>1 DEF BitPlaces
<1>3. PICK m, m2 : m = Reg!Shl(1, e) /\ m2 = Reg!Not(m)
  OBVIOUS
<1>4. Single(m, e)
  BY <1>2, <1>3, ShiftedOne
<1>5. m \in Gprs /\ Reg!Bit(m, i) = IF i = e THEN 1 ELSE 0
  BY <1>4 DEF Single
<1>6. m2 \in Gprs /\ Reg!Bit(m2, i) = 1 - Reg!Bit(m, i)
  BY <1>3, <1>5, NotBits
<1>7. v \in Nat /\ m \in Nat /\ m2 \in Nat
  BY <1>5, <1>6, GprIsNat
<1>8. Reg!Bit(v, i) \in {0, 1}
  BY <1>7, Place, BitType
<1>9. PICK s, c : s = Reg!Or(v, m) /\ c = Reg!And(v, m2)
  OBVIOUS
<1>10. Reg!Bit(s, i) = IF Reg!Bit(v, i) = 0 /\ Reg!Bit(m, i) = 0 THEN 0 ELSE 1
  BY <1>7, <1>9, OrBits
<1>11. Reg!Bit(c, i) = IF Reg!Bit(v, i) = 1 /\ Reg!Bit(m2, i) = 1 THEN 1 ELSE 0
  BY <1>7, <1>9, AndBits
<1>12. Reg!SetBit(v, w) = s /\ Reg!ClearBit(v, w) = c
  BY <1>1, <1>3, <1>9 DEF Reg!SetBit, Reg!ClearBit, RegBits
<1> QED
  BY <1>1, <1>5, <1>6, <1>8, <1>10, <1>11, <1>12

LEMMA ByteWidth ==
  /\ Reg!Bytes \in Nat /\ RegBits = ByteBits * Reg!Bytes /\ ByteBits \in Nat /\ ByteBits >= 1
  /\ Reg!Bytes >= 2 /\ ByteBits + ByteBits <= RegBits
  /\ Reg!Bytes \div 2 \in Nat /\ 2 * (Reg!Bytes \div 2) = Reg!Bytes
<1>1. PICK e, w, s : e = ByteBits /\ w = RegBits /\ s = 2 * ByteBits
  OBVIOUS
<1>2. e \in Nat /\ e >= 1 /\ w \in Nat /\ w >= 2 /\ s = 2 * e /\ s \in Nat /\ s >= 2
  BY <1>1, Widths, RegisterWidth
<1>3. w % s = 0
  BY <1>1, ArithmeticAssumption DEF Reg!WidthAssumption, RegBits
<1>4. PICK q : q = w \div s
  OBVIOUS
<1>5. q \in Int /\ w = s * q
  BY <1>2, <1>3, <1>4
<1>6. q >= 1
  <2>1. CASE q <= 0
    <3>1. s * q <= 0
      BY <1>2, <1>5, <2>1
    <3> QED
      BY <1>2, <1>5, <3>1
  <2> QED
    BY <1>5, <2>1
<1>7. w = e * (2 * q) + 0
  BY <1>2, <1>5
<1>8. w \div e = 2 * q
  <2>1. PICK d, r : d = 2 * q /\ r = 0
    OBVIOUS
  <2>2. d \in Int /\ e > 0 /\ r \in 0 .. e - 1 /\ w \in Int /\ w = e * d + r
    BY <1>2, <1>5, <1>7, <2>1
  <2>3. w \div e = d
    BY <1>2, <2>2, DivMod
  <2> QED
    BY <2>1, <2>3
<1>9. Reg!Bytes = 2 * q
  BY <1>1, <1>8 DEF Reg!Bytes, RegBits
<1>10. (2 * q) \div 2 = q
  BY <1>5
<1>11. s <= w
  <2>1. s * q >= s
    BY <1>2, <1>5, <1>6
  <2> QED
    BY <1>5, <2>1
<1> QED
  BY <1>1, <1>2, <1>5, <1>6, <1>7, <1>9, <1>10, <1>11

ByteNo == 0 .. Reg!Bytes - 1
InByte == 0 .. ByteBits - 1

\* Bit x of byte t.
At(t, x) == ByteBits * t + x

LEMMA AtPlace ==
  ASSUME NEW t \in ByteNo, NEW x \in InByte
  PROVE  At(t, x) \in BitPlaces
<1>1. PICK e, n : e = ByteBits /\ n = Reg!Bytes
  OBVIOUS
<1>2. e \in Nat /\ n \in Nat /\ t \in Nat /\ t + 1 <= n /\ x \in Nat /\ x < e /\ RegBits = e * n
  BY <1>1, ByteWidth DEF ByteNo, InByte
<1>3. e * (t + 1) <= e * n
  BY <1>2
<1>4. e * (t + 1) = e * t + e /\ e * t \in Nat
  BY <1>2
<1> QED
  BY <1>1, <1>2, <1>3, <1>4, RegisterWidth DEF At, BitPlaces

\* A byte and its bits: which of two comes first, how far they are apart.
LEMMA AtOrder ==
  ASSUME NEW t \in Nat, NEW q \in Nat, NEW x \in InByte
  PROVE  /\ t < q => At(t, x) < ByteBits * q
         /\ q <= t => ByteBits * q <= At(t, x) /\ At(t, x) - ByteBits * q = At(t - q, x)
         /\ At(t, x) + ByteBits * q = At(t + q, x)
         /\ At(t, x) \in Nat
<1>1. PICK e : e = ByteBits
  OBVIOUS
<1>2. e \in Nat /\ x \in Nat /\ x < e
  BY <1>1, ByteWidth DEF InByte
<1>3. e * t \in Nat /\ e * q \in Nat
  BY <1>2
<1>4. ASSUME t < q PROVE e * t + x < e * q
  <2>1. e * (t + 1) <= e * q
    BY <1>2, <1>4
  <2>2. e * (t + 1) = e * t + e
    BY <1>2
  <2> QED
    BY <1>2, <1>3, <2>1, <2>2
<1>5. ASSUME q <= t PROVE e * q <= e * t + x /\ (e * t + x) - e * q = e * (t - q) + x
  <2>1. e * q <= e * t
    BY <1>2, <1>5
  <2>2. e * (t - q) = e * t - e * q
    BY <1>2
  <2> QED
    BY <1>2, <1>3, <2>1, <2>2
<1>6. (e * t + x) + e * q = e * (t + q) + x
  <2>1. e * (t + q) = e * t + e * q
    BY <1>2
  <2> QED
    BY <1>2, <1>3, <2>1
<1> QED
  BY <1>1, <1>2, <1>3, <1>4, <1>5, <1>6 DEF At

LEMMA WholeBytes ==
  ASSUME NEW q \in Nat, q <= Reg!Bytes
  PROVE  ByteBits * q \in Nat /\ ByteBits * q <= RegBits
<1>1. PICK e, m : e = ByteBits /\ m = Reg!Bytes
  OBVIOUS
<1>2. e \in Nat /\ m \in Nat /\ q <= m /\ RegBits = e * m
  BY <1>1, ByteWidth
<1>3. e * q <= e * m /\ e * q \in Nat
  BY <1>2
<1> QED
  BY <1>1, <1>2, <1>3

\* Shifts by whole bytes move bytes.
LEMMA ByteShl ==
  ASSUME NEW v \in Nat, NEW q \in Nat, q <= Reg!Bytes, NEW t \in ByteNo, NEW x \in InByte
  PROVE  Reg!Bit(Reg!Shl(v, ByteBits * q), At(t, x)) = IF t < q THEN 0 ELSE Reg!Bit(v, At(t - q, x))
<1>1. PICK n, i, z : n = ByteBits * q /\ i = At(t, x) /\ z = Reg!Shl(v, n)
  OBVIOUS
<1>2. n \in Nat /\ n <= RegBits
  BY <1>1, WholeBytes
<1>3. i \in BitPlaces /\ t \in Nat
  BY <1>1, AtPlace, ByteWidth DEF ByteNo
<1>4. Reg!Bit(z, i) = IF i < n THEN 0 ELSE Reg!Bit(v, i - n)
  BY <1>1, <1>2, <1>3, ShlBits
<1>5. CASE t < q
  <2>1. i < n
    BY <1>1, <1>3, <1>5, AtOrder
  <2> QED
    BY <1>1, <1>4, <1>5, <2>1
<1>6. CASE ~(t < q)
  <2>1. q <= t
    BY <1>3, <1>6
  <2>2. n <= i /\ i - n = At(t - q, x) /\ i \in Nat
    BY <1>1, <1>3, <2>1, AtOrder
  <2>3. ~(i < n)
    BY <1>2, <2>2
  <2> QED
    BY <1>1, <1>4, <1>6, <2>2, <2>3
<1> QED
  BY <1>5, <1>6

LEMMA ByteShr ==
  ASSUME NEW v \in Gprs, NEW q \in Nat, q <= Reg!Bytes, NEW t \in ByteNo, NEW x \in InByte
  PROVE  Reg!Bit(Reg!Shr(v, ByteBits * q), At(t, x)) =
           IF t + q < Reg!Bytes THEN Reg!Bit(v, At(t + q, x)) ELSE 0
<1>1. PICK n, i, z : n = ByteBits * q /\ i = At(t, x) /\ z = Reg!Shr(v, n)
  OBVIOUS
<1>2. n \in Nat /\ n <= RegBits /\ RegBits = ByteBits * Reg!Bytes /\ Reg!Bytes \in Nat
  BY <1>1, WholeBytes, ByteWidth
<1>3. i \in BitPlaces /\ t \in Nat
  BY <1>1, AtPlace, ByteWidth DEF ByteNo
<1>4. Reg!Bit(z, i) = IF i + n < RegBits THEN Reg!Bit(v, i + n) ELSE 0
  BY <1>1, <1>2, <1>3, ShrBits
<1>5. PICK s : s = t + q
  OBVIOUS
<1>6. s \in Nat
  BY <1>3, <1>5
<1>7. i + n = At(s, x)
  BY <1>1, <1>3, <1>5, AtOrder
<1>8. CASE s < Reg!Bytes
  <2>1. At(s, x) < ByteBits * Reg!Bytes
    BY <1>2, <1>6, <1>8, AtOrder
  <2> QED
    BY <1>1, <1>2, <1>4, <1>5, <1>7, <1>8, <2>1
<1>9. CASE ~(s < Reg!Bytes)
  <2>1. Reg!Bytes <= s
    BY <1>2, <1>6, <1>9
  <2>2. ByteBits * Reg!Bytes <= At(s, x) /\ At(s, x) \in Nat
    BY <1>2, <1>6, <2>1, AtOrder
  <2>3. ~(i + n < RegBits)
    BY <1>2, <1>7, <2>2, RegisterWidth
  <2> QED
    BY <1>1, <1>4, <1>5, <1>9, <2>3
<1> QED
  BY <1>8, <1>9

LEMMA OnesBits ==
  ASSUME NEW e \in Nat, e <= Top, NEW j \in Nat, j <= Top
  PROVE  Reg!Bit(Pow[e] - 1, j) = IF j < e THEN 1 ELSE 0
<1>1. Pow[e] \in Nat /\ Pow[e] >= 1
  BY PowNat
<1>2. CASE j < e
  <2>1. j + 1 \in Nat /\ j + 1 <= e /\ j + 1 <= Top /\ e - (j + 1) \in Nat /\ e - (j + 1) <= Top
    BY <1>2, RegisterWidth
  <2>2. PICK u, k : u = Pow[j] /\ k = Pow[e - (j + 1)]
    OBVIOUS
  <2>3. u \in Nat /\ u >= 1 /\ k \in Nat /\ k >= 1
    BY <2>1, <2>2, PowNat
  <2>4. Pow[e] = (2 * u) * k
    <3>1. Pow[e] = Pow[j + 1] * Pow[e - (j + 1)]
      BY <2>1, PowSplit
    <3> QED
      BY <2>1, <2>2, <3>1, PowNext
  <2>5. (2 * u) * k - 1 = (u - 1) + u * (1 + 2 * (k - 1))
    BY <2>3
  <2>6. HasBit(Pow[e] - 1, j, u - 1, 1, k - 1)
    BY <2>2, <2>3, <2>4, <2>5 DEF HasBit
  <2>7. Reg!Bit(Pow[e] - 1, j) = 1
    BY <2>6, BitOf
  <2> QED
    BY <1>2, <2>7
<1>3. CASE ~(j < e)
  <2>1. e <= j /\ Pow[e] - 1 \in 0 .. Pow[e] - 1
    BY <1>1, <1>3
  <2>2. Reg!Bit(Pow[e] - 1, j) = 0
    BY <2>1, BitBeyond
  <2> QED
    BY <1>3, <2>2
<1> QED
  BY <1>2, <1>3

\* The mask of the loop that swaps bytes.
LEMMA ByteMask ==
  ASSUME NEW i \in ByteNo, NEW t \in ByteNo, NEW x \in InByte
  PROVE  Reg!Bit(Reg!Shl(2^ByteBits - 1, ByteBits * i), At(t, x)) = IF t = i THEN 1 ELSE 0
<1>1. PICK v : v = Pow[ByteBits] - 1
  OBVIOUS
<1>2. /\ ByteBits \in Nat /\ ByteBits <= Top /\ ByteBits \in 0 .. Top
      /\ i \in Nat /\ t \in Nat /\ i <= Reg!Bytes /\ x \in Nat /\ x < ByteBits
  BY ByteWidth, RegisterWidth DEF ByteNo, InByte
<1>3. v \in Nat /\ v = 2^ByteBits - 1
  <2>1. Pow[ByteBits] \in Nat /\ Pow[ByteBits] >= 1 /\ Pow[ByteBits] = 2^ByteBits
    BY <1>2, PowNat DEF Pow
  <2> QED
    BY <1>1, <2>1
<1>4. Reg!Bit(Reg!Shl(v, ByteBits * i), At(t, x)) = IF t < i THEN 0 ELSE Reg!Bit(v, At(t - i, x))
  BY <1>2, <1>3, ByteShl
<1>5. CASE t < i
  BY <1>2, <1>3, <1>4, <1>5
<1>6. CASE ~(t < i)
  <2>1. PICK k, j : k = t - i /\ j = At(k, x)
    OBVIOUS
  <2>2. k \in Nat /\ k \in ByteNo
    BY <1>2, <1>6, <2>1, ByteWidth DEF ByteNo
  <2>3. j \in Nat /\ j <= Top
    BY <2>1, <2>2, AtPlace, Place
  <2>4. Reg!Bit(v, j) = IF j < ByteBits THEN 1 ELSE 0
    BY <1>1, <1>2, <2>3, OnesBits
  <2>5. j < ByteBits <=> k = 0
    <3>1. CASE k = 0
      <4>1. j = x
        BY <1>2, <2>1, <3>1 DEF At
      <4> QED
        BY <1>2, <3>1, <4>1
    <3>2. CASE k # 0
      <4>1. 1 <= k /\ 1 \in Nat
        BY <2>2, <3>2
      <4>2. ByteBits * 1 <= At(k, x)
        BY <2>2, <4>1, AtOrder
      <4> QED
        BY <1>2, <2>1, <2>3, <3>2, <4>2
    <3> QED
      BY <3>1, <3>2
  <2> QED
    BY <1>2, <1>3, <1>4, <1>6, <2>1, <2>4, <2>5
<1> QED
  BY <1>5, <1>6

\* The byte i moves to the place the reverse order gives it.
LEMMA SweLoopBits ==
  ASSUME NEW v \in Gprs, NEW i \in ByteNo, NEW t \in ByteNo, NEW x \in InByte
  PROVE  /\ Reg!SweLoop(v, i) \in Nat
         /\ Reg!Bit(Reg!SweLoop(v, i), At(t, x)) =
              IF t = Reg!Bytes - 1 - i THEN Reg!Bit(v, At(i, x)) ELSE 0
<1>1. PICK n, h : n = Reg!Bytes /\ h = Reg!Bytes \div 2
  OBVIOUS
<1>2. n \in Nat /\ h \in Nat /\ n = 2 * h /\ i \in Nat /\ t \in Nat /\ i < n /\ t < n /\ n >= 2
      /\ ByteBits \in Nat
  BY <1>1, ByteWidth DEF ByteNo
<1>3. PICK mask, tmp : mask = Reg!Shl(2^ByteBits - 1, ByteBits * i) /\ tmp = Reg!And(v, mask)
  OBVIOUS
<1>4. v \in Nat /\ mask \in Nat
  <2>1. 2^ByteBits - 1 \in Nat
    <3>1. ByteBits \in Nat /\ ByteBits <= Top /\ ByteBits \in 0 .. Top
      BY ByteWidth, RegisterWidth
    <3>2. Pow[ByteBits] \in Nat /\ Pow[ByteBits] >= 1 /\ Pow[ByteBits] = 2^ByteBits
      BY <3>1, PowNat DEF Pow
    <3> QED
      BY <3>2
  <2>2. ByteBits * i \in Nat /\ ByteBits * i <= RegBits
    <3>1. i <= Reg!Bytes
      BY <1>1, <1>2
    <3> QED
      BY <1>2, <3>1, WholeBytes
  <2>3. mask \in Gprs
    BY <1>3, <2>1, <2>2, ShlBits
  <2> QED
    BY <2>3, GprIsNat
<1>5. tmp \in Gprs
  BY <1>3, <1>4, AndBits
<1>6. ASSUME NEW s \in ByteNo
      PROVE  Reg!Bit(tmp, At(s, x)) = IF s = i THEN Reg!Bit(v, At(s, x)) ELSE 0
  <2>1. At(s, x) \in BitPlaces
    BY AtPlace
  <2>2. Reg!Bit(mask, At(s, x)) = IF s = i THEN 1 ELSE 0
    BY <1>3, ByteMask
  <2>3. Reg!Bit(tmp, At(s, x)) =
          IF Reg!Bit(v, At(s, x)) = 1 /\ Reg!Bit(mask, At(s, x)) = 1 THEN 1 ELSE 0
    BY <1>3, <1>4, <2>1, AndBits
  <2>4. Reg!Bit(v, At(s, x)) \in {0, 1}
    BY <1>4, <2>1, Place, BitType
  <2> QED
    BY <2>2, <2>3, <2>4
<1>7. CASE i < h
  <2>1. PICK q : q = n - 1 - 2 * i
    OBVIOUS
  <2>2. q \in Nat /\ q <= n
    BY <1>2, <1>7, <2>1
  <2>3. Reg!SweLoop(v, i) = Reg!Shl(tmp, ByteBits * q)
    <3>1. q * ByteBits = ByteBits * q
      BY <1>2, <2>2
    <3> QED
      BY <1>1, <1>3, <1>7, <2>1, <3>1 DEF Reg!SweLoop
  <2>7. Reg!SweLoop(v, i) \in Nat
    <3>1. ByteBits * q \in Nat /\ ByteBits * q <= RegBits /\ tmp \in Nat
      BY <1>1, <1>5, <2>2, WholeBytes, GprIsNat
    <3>2. Reg!Shl(tmp, ByteBits * q) \in Gprs
      BY <3>1, ShlBits
    <3> QED
      BY <2>3, <3>2, GprIsNat
  <2>4. Reg!Bit(Reg!Shl(tmp, ByteBits * q), At(t, x)) =
          IF t < q THEN 0 ELSE Reg!Bit(tmp, At(t - q, x))
    <3>1. tmp \in Nat /\ q <= Reg!Bytes
      BY <1>1, <1>5, <2>2, GprIsNat
    <3> QED
      BY <2>2, <3>1, ByteShl
  <2>5. CASE t < q
    <3>1. t # n - 1 - i
      BY <1>2, <2>1, <2>5
    <3> QED
      BY <1>1, <2>3, <2>4, <2>5, <2>7, <3>1
  <2>6. CASE ~(t < q)
    <3>1. PICK s : s = t - q
      OBVIOUS
    <3>2. s \in ByteNo /\ (s = i <=> t = n - 1 - i)
      BY <1>1, <1>2, <2>1, <2>2, <2>6, <3>1 DEF ByteNo
    <3>3. Reg!Bit(tmp, At(s, x)) = IF s = i THEN Reg!Bit(v, At(s, x)) ELSE 0
      BY <1>6, <3>2
    <3> QED
      BY <1>1, <2>3, <2>4, <2>6, <2>7, <3>1, <3>2, <3>3
  <2> QED
    BY <2>5, <2>6, <2>7
<1>8. CASE ~(i < h)
  <2>1. PICK q : q = (i - (h - 1)) * 2 - 1
    OBVIOUS
  <2>2. q \in Nat /\ q <= n /\ q = 2 * i - n + 1
    BY <1>2, <1>8, <2>1
  <2>3. Reg!SweLoop(v, i) = Reg!Shr(tmp, ByteBits * q)
    <3>1. (i - (h - 1)) * 2 * ByteBits - ByteBits = ByteBits * q
      <4>1. PICK m, e : m = (i - (h - 1)) * 2 /\ e = ByteBits
        OBVIOUS
      <4>2. m \in Int /\ q = m - 1 /\ e \in Nat
        BY <1>2, <2>1, <4>1
      <4>3. m * e - e = e * (m - 1)
        BY <4>2
      <4> QED
        BY <4>1, <4>2, <4>3
    <3> QED
      BY <1>1, <1>3, <1>8, <3>1 DEF Reg!SweLoop
  <2>7. Reg!SweLoop(v, i) \in Nat
    <3>1. ByteBits * q \in Nat /\ ByteBits * q <= RegBits
      BY <1>1, <2>2, WholeBytes
    <3>2. Reg!Shr(tmp, ByteBits * q) \in Gprs
      BY <1>5, <3>1, ShrBits
    <3> QED
      BY <2>3, <3>2, GprIsNat
  <2>4. Reg!Bit(Reg!Shr(tmp, ByteBits * q), At(t, x)) =
          IF t + q < n THEN Reg!Bit(tmp, At(t + q, x)) ELSE 0
    <3>1. q <= Reg!Bytes
      BY <1>1, <2>2
    <3> QED
      BY <1>1, <1>5, <2>2, <3>1, ByteShr
  <2>5. CASE ~(t + q < n)
    <3>1. t # n - 1 - i
      BY <1>2, <2>2, <2>5
    <3> QED
      BY <1>1, <2>3, <2>4, <2>5, <2>7, <3>1
  <2>6. CASE t + q < n
    <3>1. PICK s : s = t + q
      OBVIOUS
    <3>2. s \in ByteNo /\ (s = i <=> t = n - 1 - i)
      BY <1>1, <1>2, <2>2, <2>6, <3>1 DEF ByteNo
    <3>3. Reg!Bit(tmp, At(s, x)) = IF s = i THEN Reg!Bit(v, At(s, x)) ELSE 0
      BY <1>6, <3>2
    <3> QED
      BY <1>1, <2>3, <2>4, <2>6, <2>7, <3>1, <3>2, <3>3
  <2> QED
    BY <2>5, <2>6, <2>7
<1> QED
  BY <1>7, <1>8

\* The function SwapBytes is defined with.
Joins(f, v, n) ==
  f = [i \in 0 .. n |-> IF i = 0 THEN 0 ELSE Reg!Or(f[i - 1], Reg!SweLoop(v, i - 1))]

LEMMA JoinsExist ==
  ASSUME NEW v, NEW n \in Nat
  PROVE  \E f : Joins(f, v, n)
<1> DEFINE good == {k \in Nat : \E f : Joins(f, v, k)}
<1>1. 0 \in good
  <2> DEFINE f == [i \in 0 .. 0 |-> 0]
  <2>1. Joins(f, v, 0)
    BY DEF Joins
  <2> QED
    BY <2>1
<1>2. ASSUME NEW k \in Nat, k \in good PROVE k + 1 \in good
  <2>1. PICK f : Joins(f, v, k)
    BY <1>2
  <2>2. PICK last : last = Reg!Or(f[k], Reg!SweLoop(v, k))
    OBVIOUS
  <2> DEFINE g == [i \in 0 .. k + 1 |-> IF i = k + 1 THEN last ELSE f[i]]
  <2>3. g[k + 1] = last /\ \A i \in 0 .. k : g[i] = f[i]
    OBVIOUS
  <2>4. \A i \in 0 .. k : f[i] = IF i = 0 THEN 0 ELSE Reg!Or(f[i - 1], Reg!SweLoop(v, i - 1))
    BY <2>1 DEF Joins
  <2>5. g = [i \in 0 .. k + 1 |-> g[i]]
    OBVIOUS
  <2> HIDE DEF g
  <2>6. ASSUME NEW i \in 0 .. k + 1
        PROVE  g[i] = IF i = 0 THEN 0 ELSE Reg!Or(g[i - 1], Reg!SweLoop(v, i - 1))
    <3>1. CASE i = k + 1
      <4>1. i # 0 /\ i - 1 = k /\ k \in 0 .. k
        BY <3>1
      <4> QED
        BY <2>2, <2>3, <3>1, <4>1
    <3>2. CASE i # k + 1
      <4>1. i \in 0 .. k /\ (i # 0 => i - 1 \in 0 .. k)
        BY <3>2
      <4> QED
        BY <2>3, <2>4, <4>1
    <3> QED
      BY <3>1, <3>2
  <2>7. Joins(g, v, k + 1)
    BY <2>5, <2>6 DEF Joins
  <2> QED
    BY <2>7
<1> HIDE DEF good
<1>3. n \in good
  BY <1>1, <1>2, NatInSet
<1> QED
  BY <1>3 DEF good

LEMMA SwapBytesIs ==
  ASSUME NEW v
  PROVE  \E f : Joins(f, v, Reg!Bytes) /\ Reg!SwapBytes(v) = f[Reg!Bytes]
<1> DEFINE f == CHOOSE g : Joins(g, v, Reg!Bytes)
<1>1. Joins(f, v, Reg!Bytes)
  BY JoinsExist, ByteWidth
<1>2. Reg!SwapBytes(v) = f[Reg!Bytes]
  BY Zenon DEF Reg!SwapBytes, Joins
<1> QED
  BY <1>1, <1>2

\* The bits after the first k turns of the loop: the upper k bytes are in place.
LEMMA SwapBytesBits ==
  ASSUME NEW v \in Gprs, NEW t \in ByteNo, NEW x \in InByte
  PROVE  /\ Reg!SwapBytes(v) \in Gprs
         /\ Reg!Bit(Reg!SwapBytes(v), At(t, x)) = Reg!Bit(v, At(Reg!Bytes - 1 - t, x))
<1>1. PICK f : Joins(f, v, Reg!Bytes) /\ Reg!SwapBytes(v) = f[Reg!Bytes]
  BY SwapBytesIs
<1>2. PICK n : n = Reg!Bytes
  OBVIOUS
<1>3. n \in Nat /\ n >= 2 /\ t \in Nat /\ t < n /\ At(t, x) \in BitPlaces
  BY <1>2, ByteWidth, AtPlace DEF ByteNo
<1> DEFINE right(k) ==
             /\ f[k] \in Gprs
             /\ Reg!Bit(f[k], At(t, x)) = IF t >= n - k THEN Reg!Bit(v, At(n - 1 - t, x)) ELSE 0
           good == {k \in Nat : k <= n => right(k)}
<1>4. f[0] = 0
  BY <1>1, <1>2, <1>3 DEF Joins
<1>5. ASSUME NEW k \in Nat, k + 1 <= n
      PROVE  f[k + 1] = Reg!Or(f[k], Reg!SweLoop(v, k))
  <2>1. PICK j : j = k + 1
    OBVIOUS
  <2>2. j \in 0 .. n /\ j # 0 /\ j - 1 = k
    BY <1>3, <1>5, <2>1
  <2>3. f[j] = Reg!Or(f[j - 1], Reg!SweLoop(v, j - 1))
    BY <1>1, <1>2, <2>2 DEF Joins
  <2> QED
    BY <2>1, <2>2, <2>3
<1>6. 0 \in good
  <2>1. 0 \in Gprs
    BY RegisterPower DEF Gprs
  <2>2. Reg!Bit(0, At(t, x)) = 0
    BY <1>3, Place, ZeroBits
  <2>3. ~(t >= n - 0)
    BY <1>3
  <2> QED
    BY <1>4, <2>1, <2>2, <2>3
<1>7. ASSUME NEW k \in Nat, k \in good PROVE k + 1 \in good
  <2> SUFFICES ASSUME k + 1 <= n PROVE right(k + 1)
    OBVIOUS
  <2>1. right(k) /\ k \in ByteNo
    BY <1>2, <1>3, <1>7 DEF ByteNo
  <2>2. PICK y, w, z : y = f[k] /\ w = Reg!SweLoop(v, k) /\ z = f[k + 1]
    OBVIOUS
  <2>3. z = Reg!Or(y, w)
    BY <1>5, <2>2
  <2>4. w \in Nat /\ Reg!Bit(w, At(t, x)) = IF t = n - 1 - k THEN Reg!Bit(v, At(k, x)) ELSE 0
    BY <1>2, <2>1, <2>2, SweLoopBits
  <2>5. y \in Nat
    BY <2>1, <2>2, GprIsNat
  <2>6. z \in Gprs
    BY <2>3, <2>4, <2>5, OrBits
  <2>7. Reg!Bit(z, At(t, x)) =
          IF Reg!Bit(y, At(t, x)) = 0 /\ Reg!Bit(w, At(t, x)) = 0 THEN 0 ELSE 1
    BY <1>3, <2>3, <2>4, <2>5, OrBits
  <2>8. Reg!Bit(v, At(k, x)) \in {0, 1} /\ Reg!Bit(v, At(n - 1 - t, x)) \in {0, 1}
    <3>1. v \in Nat /\ n - 1 - t \in ByteNo
      BY <1>2, <1>3, GprIsNat DEF ByteNo
    <3>2. At(k, x) \in BitPlaces /\ At(n - 1 - t, x) \in BitPlaces
      BY <2>1, <3>1, AtPlace
    <3> QED
      BY <3>1, <3>2, Place, BitType
  <2>9. Reg!Bit(z, At(t, x)) = IF t >= n - (k + 1) THEN Reg!Bit(v, At(n - 1 - t, x)) ELSE 0
    <3>1. CASE t = n - 1 - k
      <4>1. n - 1 - t = k /\ ~(t >= n - k) /\ t >= n - (k + 1)
        BY <1>3, <3>1
      <4>2. Reg!Bit(y, At(t, x)) = 0
        BY <2>1, <2>2, <4>1
      <4> QED
        BY <2>4, <2>7, <2>8, <3>1, <4>1, <4>2
    <3>2. CASE t # n - 1 - k
      <4>1. t >= n - k <=> t >= n - (k + 1)
        BY <1>3, <3>2
      <4>2. Reg!Bit(y, At(t, x)) = IF t >= n - k THEN Reg!Bit(v, At(n - 1 - t, x)) ELSE 0
        BY <2>1, <2>2
      <4> QED
        BY <2>4, <2>7, <2>8, <3>2, <4>1, <4>2
    <3> QED
      BY <3>1, <3>2
  <2> QED
    BY <2>2, <2>6, <2>9
<1>8. n \in good
  <2> HIDE DEF good
  <2> QED
    BY <1>3, <1>6, <1>7, NatInSet
<1>9. t >= n - n
  BY <1>3
<1> QED
  BY <1>1, <1>2, <1>3, <1>8, <1>9

\* Byte j of a number, as SweReverses takes it.
LEMMA ByteOf ==
  ASSUME NEW v \in Nat, NEW j \in ByteNo, NEW y, y = (v \div Pow[ByteBits * j]) % Pow[ByteBits]
  PROVE  /\ y \in 0 .. Pow[ByteBits] - 1
         /\ \A x \in InByte : Reg!Bit(y, x) = Reg!Bit(v, At(j, x))
<1>1. PICK n, e : n = ByteBits * j /\ e = ByteBits
  OBVIOUS
<1>2. n \in Nat /\ n <= Top /\ e \in Nat /\ e <= Top
  <2>1. j \in Nat /\ j <= Reg!Bytes
    BY ByteWidth DEF ByteNo
  <2>2. ByteBits * j \in Nat /\ ByteBits * j <= RegBits
    BY <2>1, WholeBytes
  <2> QED
    BY <1>1, <2>2, ByteWidth, RegisterWidth
<1>3. PICK d, r : d = v \div Pow[n] /\ r = v % Pow[n]
  OBVIOUS
<1>4. r \in 0 .. Pow[n] - 1 /\ d \in Nat /\ v = r + Pow[n] * d
  BY <1>2, <1>3, Divided DEF Parts
<1>5. y = d % Pow[e]
  BY <1>1, <1>3
<1>6. y \in 0 .. Pow[e] - 1 /\ \A x \in 0 .. e - 1 : Reg!Bit(y, x) = Reg!Bit(d, x)
  BY <1>2, <1>4, <1>5, LowBits
<1>7. ASSUME NEW x \in InByte PROVE Reg!Bit(y, x) = Reg!Bit(v, At(j, x))
  <2>1. PICK i : i = At(j, x)
    OBVIOUS
  <2>2. x \in Nat /\ x \in 0 .. e - 1 /\ i = n + x
    BY <1>1, <1>2, <2>1 DEF InByte, At
  <2>3. i \in Nat /\ n <= i /\ i <= Top /\ i - n = x
    <3>1. i \in BitPlaces
      BY <2>1, AtPlace
    <3> QED
      BY <1>2, <2>2, <3>1, Place
  <2>4. Reg!Bit(r + Pow[n] * d, i) = Reg!Bit(d, i - n)
    BY <1>2, <1>4, <2>3, BitAbove
  <2> QED
    BY <1>4, <1>6, <2>1, <2>2, <2>3, <2>4
<1> QED
  BY <1>1, <1>6, <1>7

\* Left and right of the same distance, the second with what enters at the other end.
LEMMA ShiftInBits ==
  ASSUME NEW v \in Gprs, NEW w \in Gprs, NEW n \in Nat, 1 <= n, n <= RegBits, NEW i \in BitPlaces
  PROVE  /\ Reg!Bit(Reg!ShiftIn("left", n, v, w), i) =
              IF i < n THEN Reg!Bit(w, RegBits - n + i) ELSE Reg!Bit(v, i - n)
         /\ Reg!Bit(Reg!ShiftIn("right", n, v, w), i) =
              IF i >= RegBits - n THEN Reg!Bit(w, i - (RegBits - n)) ELSE Reg!Bit(v, i + n)
<1>1. PICK m : m = RegBits - n
  OBVIOUS
<1>2. m \in Nat /\ m <= RegBits /\ i \in Nat /\ i < RegBits /\ RegBits \in Nat
      /\ Top = 2 * RegBits
  BY <1>1, RegisterWidth, Place
<1>3. v \in Nat /\ w \in Nat
  BY GprIsNat
<1>4. \A k \in BitPlaces : Reg!Bit(v, k) \in {0, 1} /\ Reg!Bit(w, k) \in {0, 1}
  BY <1>3, Place, BitType
<1>5. Reg!Bit(Reg!ShiftIn("left", n, v, w), i) =
        IF i < n THEN Reg!Bit(w, m + i) ELSE Reg!Bit(v, i - n)
  <2>1. PICK y, z : y = Reg!Shl(v, n) /\ z = Reg!Shr(w, m)
    OBVIOUS
  <2>2. y \in Gprs /\ Reg!Bit(y, i) = IF i < n THEN 0 ELSE Reg!Bit(v, i - n)
    BY <1>3, <2>1, ShlBits
  <2>3. z \in Gprs /\ Reg!Bit(z, i) = IF i + m < RegBits THEN Reg!Bit(w, i + m) ELSE 0
    BY <1>2, <2>1, ShrBits
  <2>4. i + m < RegBits <=> i < n
    BY <1>1, <1>2
  <2>5. PICK x : x = Reg!Or(y, z)
    OBVIOUS
  <2>6. Reg!ShiftIn("left", n, v, w) = x
    BY <1>1, <2>1, <2>5 DEF Reg!ShiftIn, Reg!Shift, Reg!Opposite, RegBits
  <2>7. y \in Nat /\ z \in Nat
    BY <2>2, <2>3, GprIsNat
  <2>8. Reg!Bit(x, i) = IF Reg!Bit(y, i) = 0 /\ Reg!Bit(z, i) = 0 THEN 0 ELSE 1
    BY <2>5, <2>7, OrBits
  <2>9. CASE i < n
    <3>1. i + m \in BitPlaces /\ i + m = m + i
      BY <1>1, <1>2, <2>9 DEF BitPlaces
    <3>2. Reg!Bit(w, i + m) \in {0, 1}
      BY <1>4, <3>1
    <3> QED
      BY <2>2, <2>3, <2>4, <2>6, <2>8, <2>9, <3>1, <3>2
  <2>10. CASE ~(i < n)
    <3>1. i - n \in BitPlaces
      BY <1>2, <2>10 DEF BitPlaces
    <3>2. Reg!Bit(v, i - n) \in {0, 1}
      BY <1>4, <3>1
    <3> QED
      BY <2>2, <2>3, <2>4, <2>6, <2>8, <2>10, <3>2
  <2> QED
    BY <2>9, <2>10
<1>6. Reg!Bit(Reg!ShiftIn("right", n, v, w), i) =
        IF i >= m THEN Reg!Bit(w, i - m) ELSE Reg!Bit(v, i + n)
  <2>1. PICK y, z : y = Reg!Shr(v, n) /\ z = Reg!Shl(w, m)
    OBVIOUS
  <2>2. y \in Gprs /\ Reg!Bit(y, i) = IF i + n < RegBits THEN Reg!Bit(v, i + n) ELSE 0
    BY <2>1, ShrBits
  <2>3. z \in Gprs /\ Reg!Bit(z, i) = IF i < m THEN 0 ELSE Reg!Bit(w, i - m)
    BY <1>2, <1>3, <2>1, ShlBits
  <2>4. i + n < RegBits <=> i < m
    BY <1>1, <1>2
  <2>5. PICK x : x = Reg!Or(y, z)
    OBVIOUS
  <2>6. Reg!ShiftIn("right", n, v, w) = x
    BY <1>1, <2>1, <2>5 DEF Reg!ShiftIn, Reg!Shift, Reg!Opposite, RegBits
  <2>7. y \in Nat /\ z \in Nat
    BY <2>2, <2>3, GprIsNat
  <2>8. Reg!Bit(x, i) = IF Reg!Bit(y, i) = 0 /\ Reg!Bit(z, i) = 0 THEN 0 ELSE 1
    BY <2>5, <2>7, OrBits
  <2>9. CASE i < m
    <3>1. i + n \in BitPlaces /\ ~(i >= m)
      BY <1>1, <1>2, <2>9 DEF BitPlaces
    <3>2. Reg!Bit(v, i + n) \in {0, 1}
      BY <1>4, <3>1
    <3> QED
      BY <2>2, <2>3, <2>4, <2>6, <2>8, <2>9, <3>1, <3>2
  <2>10. CASE ~(i < m)
    <3>1. i - m \in BitPlaces /\ i >= m
      BY <1>2, <2>10 DEF BitPlaces
    <3>2. Reg!Bit(w, i - m) \in {0, 1}
      BY <1>4, <3>1
    <3> QED
      BY <2>2, <2>3, <2>4, <2>6, <2>8, <2>10, <3>1, <3>2
  <2> QED
    BY <2>9, <2>10
<1> QED
  BY <1>1, <1>5, <1>6

\* A mask of a single bit finds it.
LEMMA Masked ==
  ASSUME NEW v \in Gprs, NEW e \in BitPlaces, NEW m, Single(m, e)
  PROVE  Reg!And(v, m) # 0 <=> Reg!Bit(v, e) = 1
<1>1. PICK z : z = Reg!And(v, m)
  OBVIOUS
<1>2. v \in Nat /\ m \in Nat
  BY GprIsNat DEF Single
<1>3. /\ z \in Gprs
      /\ \A i \in BitPlaces :
           Reg!Bit(z, i) = IF Reg!Bit(v, i) = 1 /\ Reg!Bit(m, i) = 1 THEN 1 ELSE 0
  BY <1>1, <1>2, AndBits
<1>4. CASE Reg!Bit(v, e) = 1
  <2>1. Reg!Bit(m, e) = 1
    BY DEF Single
  <2>2. Reg!Bit(z, e) = 1
    BY <1>3, <1>4, <2>1
  <2>3. Reg!Bit(0, e) = 0
    BY Place, ZeroBits
  <2>4. z # 0
    BY <2>2, <2>3
  <2> QED
    BY <1>1, <1>4, <2>4
<1>5. CASE Reg!Bit(v, e) # 1
  <2>1. ASSUME NEW i \in BitPlaces PROVE Reg!Bit(z, i) = Reg!Bit(0, i)
    <3>1. Reg!Bit(z, i) = 0
      BY <1>3, <1>5 DEF Single
    <3>2. Reg!Bit(0, i) = 0
      BY Place, ZeroBits
    <3> QED
      BY <3>1, <3>2
  <2>2. SameBits(z, 0, RegBits)
    BY <2>1 DEF SameBits, BitPlaces
  <2>3. RegBits \in Nat /\ RegBits <= Top /\ z \in 0 .. Pow[RegBits] - 1 /\ 0 \in 0 .. Pow[RegBits] - 1
    BY <1>3, RegisterWidth, RegisterPower DEF Gprs
  <2>4. z = 0
    BY <2>2, <2>3, BitsDetermine
  <2> QED
    BY <1>1, <1>5, <2>4
<1> QED
  BY <1>4, <1>5

LEMMA CarryBits ==
  ASSUME NEW v \in Gprs
  PROVE  /\ Reg!Carry("left", v) <=> Reg!Bit(v, RegBits - 1) = 1
         /\ Reg!Carry("right", v) <=> Reg!Bit(v, 0) = 1
<1>1. PICK n, u, ends : n = RegBits - 1 /\ u = Pow[n] /\ ends = u + 1
  OBVIOUS
<1>2. n \in Nat /\ n >= 1 /\ n <= Top /\ n <= RegBits /\ n \in BitPlaces /\ 0 \in BitPlaces
      /\ n \in 0 .. Top /\ n + 1 = RegBits /\ n + 1 <= Top
  BY <1>1, RegisterWidth DEF BitPlaces
<1>3. u \in Nat /\ u >= 2 /\ 2 * u = Pow[RegBits]
  <2>1. Pow[0 + 1] = 2 * Pow[0]
    BY RegisterWidth, PowNext
  <2>2. Pow[1] <= Pow[n]
    BY <1>2, PowUp
  <2>3. Pow[n + 1] = 2 * Pow[n]
    BY <1>2, PowNext
  <2> QED
    BY <1>1, <1>2, <2>1, <2>2, <2>3, PowFirst, PowNat
<1>4. ends \in Gprs /\ ends \in Nat /\ ends = 1 + Pow[n] * 1
  BY <1>1, <1>3 DEF Gprs
<1>5. 2^(Reg!W - 1) + 1 = ends
  BY <1>1, <1>2 DEF Pow, RegBits
<1>6. Reg!Bit(ends, 0) = 1
  <2>1. 1 \in Nat /\ 0 < n /\ 0 \in Nat
    BY <1>2
  <2>2. Reg!Bit(1 + Pow[n] * 1, 0) = Reg!Bit(1, 0)
    BY <1>2, <2>1, BitBelow
  <2> QED
    BY <1>4, <2>2, OneBit
<1>7. Reg!Bit(ends, n) = 1
  <2>1. 1 \in 0 .. Pow[n] - 1 /\ 1 \in Nat /\ n <= n
    BY <1>1, <1>2, <1>3
  <2>2. Reg!Bit(1 + Pow[n] * 1, n) = Reg!Bit(1, n - n)
    BY <1>2, <2>1, BitAbove
  <2>3. n - n = 0
    BY <1>2
  <2> QED
    BY <1>4, <2>2, <2>3, OneBit
<1>8. Reg!Carry("left", v) <=> Reg!Bit(v, n) = 1
  <2>1. PICK m : m = Reg!Shl(ends, n)
    OBVIOUS
  <2>2. /\ m \in Gprs
        /\ \A i \in BitPlaces : Reg!Bit(m, i) = IF i < n THEN 0 ELSE Reg!Bit(ends, i - n)
    BY <1>2, <1>4, <2>1, ShlBits
  <2>3. ASSUME NEW i \in BitPlaces PROVE Reg!Bit(m, i) = IF i = n THEN 1 ELSE 0
    <3>1. CASE i < n
      BY <1>2, <2>2, <3>1, Place
    <3>2. CASE ~(i < n)
      <4>1. i = n /\ i - n = 0
        BY <1>2, <3>2, Place
      <4> QED
        BY <1>6, <2>2, <3>2, <4>1
    <3> QED
      BY <3>1, <3>2
  <2>4. Single(m, n)
    BY <2>2, <2>3 DEF Single
  <2>5. Reg!Carry("left", v) <=> Reg!And(v, m) # 0
    BY <1>1, <1>5, <2>1 DEF Reg!Carry, Reg!Shift, RegBits
  <2> QED
    BY <1>2, <2>4, <2>5, Masked
<1>9. Reg!Carry("right", v) <=> Reg!Bit(v, 0) = 1
  <2>1. PICK m : m = Reg!Shr(ends, n)
    OBVIOUS
  <2>2. /\ m \in Gprs
        /\ \A i \in BitPlaces : Reg!Bit(m, i) = IF i + n < RegBits THEN Reg!Bit(ends, i + n) ELSE 0
    BY <1>2, <1>4, <2>1, ShrBits
  <2>3. ASSUME NEW i \in BitPlaces PROVE Reg!Bit(m, i) = IF i = 0 THEN 1 ELSE 0
    <3>1. i \in Nat
      BY Place
    <3>2. i + n < RegBits <=> i = 0
      BY <1>1, <1>2, <3>1
    <3>3. 0 + n = n
      BY <1>2
    <3> QED
      BY <1>7, <2>2, <3>2, <3>3
  <2>4. Single(m, 0)
    BY <2>2, <2>3 DEF Single
  <2>5. Reg!Carry("right", v) <=> Reg!And(v, m) # 0
    BY <1>1, <1>5, <2>1 DEF Reg!Carry, Reg!Shift, RegBits
  <2> QED
    BY <1>2, <2>4, <2>5, Masked
<1> QED
  BY <1>1, <1>8, <1>9

--------------------------------------------------------------------------------
(* What the instruction set promises *)

LEMMA LogicTold ==
  ASSUME op2 \in Gprs, op3 \in Gprs
  PROVE  Reg!LogicIsPointwise
<1> SUFFICES ASSUME NEW n \in {ImmBits, WordBits, Reg!W}, NEW i \in Reg!Bits
             PROVE  LET r(op) == Reg!Bit(Reg!Logic(op, n, op2, op3), i)
                        low == i < n
                    IN /\ r("AND") = IF low THEN Reg!Bit(op2, i) * Reg!Bit(op3, i) ELSE Reg!Bit(op2, i)
                       /\ (r("OR") = 0) <=> (Reg!Bit(op2, i) = 0 /\ (low => Reg!Bit(op3, i) = 0))
                       /\ (r("XOR") # Reg!Bit(op2, i)) <=> (low /\ Reg!Bit(op3, i) = 1)
                       /\ (r("NOT") # Reg!Bit(op2, i)) <=> low
  BY Zenon DEF Reg!LogicIsPointwise
<1>1. n \in Nat /\ n <= RegBits
  BY Widths, RegisterWidth DEF RegBits
<1>2. i \in BitPlaces
  BY DEF BitPlaces, Reg!Bits, RegBits
<1>3. PICK c, d : c = Reg!Bit(op2, i) /\ d = Reg!Bit(op3, i)
  OBVIOUS
<1>4. c \in {0, 1} /\ d \in {0, 1}
  BY <1>2, <1>3, GprIsNat, Place, BitType
<1>5. PICK rand, ror, rxor, rnot :
        /\ rand = Reg!Bit(Reg!Logic("AND", n, op2, op3), i)
        /\ ror = Reg!Bit(Reg!Logic("OR", n, op2, op3), i)
        /\ rxor = Reg!Bit(Reg!Logic("XOR", n, op2, op3), i)
        /\ rnot = Reg!Bit(Reg!Logic("NOT", n, op2, op3), i)
  OBVIOUS
<1>6. ASSUME NEW op \in BitFunction
      PROVE  Reg!Bit(Reg!BinaryLogicOpLsb(op, n, op2, op3), i) =
               IF i < n THEN Pair(op, op2, op3, i) ELSE c
  BY <1>1, <1>2, <1>3, LogicBits
<1>7. rand = IF i < n THEN Pair(Reg!BitAnd, op2, op3, i) ELSE c
  BY <1>5, <1>6, BitFunctionTypes DEF Reg!Logic
<1>8. ror = IF i < n THEN Pair(Reg!BitOr, op2, op3, i) ELSE c
  BY <1>5, <1>6, BitFunctionTypes DEF Reg!Logic
<1>9. rxor = IF i < n THEN Pair(Reg!BitXor, op2, op3, i) ELSE c
  BY <1>5, <1>6, BitFunctionTypes DEF Reg!Logic
<1>10. rnot = IF i < n THEN Pair(Reg!BitNot, op2, op3, i) ELSE c
  BY <1>5, <1>6, BitFunctionTypes DEF Reg!Logic
<1>11. /\ Pair(Reg!BitAnd, op2, op3, i) = IF c = 1 /\ d = 1 THEN 1 ELSE 0
       /\ Pair(Reg!BitOr, op2, op3, i) = IF c = 0 /\ d = 0 THEN 0 ELSE 1
       /\ Pair(Reg!BitXor, op2, op3, i) = IF c = d THEN 0 ELSE 1
       /\ Pair(Reg!BitNot, op2, op3, i) = IF c = 0 THEN 1 ELSE 0
  BY <1>3, <1>4, BitFunctions
<1>12. /\ rand = IF i < n THEN c * d ELSE c
       /\ (ror = 0) <=> (c = 0 /\ (i < n => d = 0))
       /\ (rxor # c) <=> (i < n /\ d = 1)
       /\ (rnot # c) <=> i < n
  <2>1. CASE i < n
    BY <1>4, <1>7, <1>8, <1>9, <1>10, <1>11, <2>1
  <2>2. CASE ~(i < n)
    BY <1>4, <1>7, <1>8, <1>9, <1>10, <1>11, <2>2
  <2> QED
    BY <2>1, <2>2
<1> QED
  BY <1>3, <1>5, <1>12, Zenon

LEMMA OneBitTold ==
  ASSUME op2 \in Gprs, op3 \in Gprs
  PROVE  Reg!OneBitChanges
<1>1. ASSUME NEW i \in Reg!Bits
      PROVE  /\ Reg!Bit(Reg!SetBit(op2, op3), i) = IF i = op3 % Reg!W THEN 1 ELSE Reg!Bit(op2, i)
             /\ Reg!Bit(Reg!ClearBit(op2, op3), i) = IF i = op3 % Reg!W THEN 0 ELSE Reg!Bit(op2, i)
  <2>1. i \in BitPlaces
    BY DEF BitPlaces, Reg!Bits, RegBits
  <2> QED
    BY <2>1, SetBitBits DEF RegBits
<1> QED
  BY <1>1, Zenon DEF Reg!OneBitChanges

LEMMA ShiftsTold ==
  ASSUME op2 \in Gprs, op3 \in Gprs
  PROVE  Reg!ShiftsMoveBits
<1>1. ASSUME NEW n \in {1, ByteBits}, NEW i \in Reg!Bits, NEW into \in {op2, op3, 0}
      PROVE  /\ Reg!Bit(Reg!ShiftIn("left", n, op2, into), i) =
                  IF i < n THEN Reg!Bit(into, Reg!W - n + i) ELSE Reg!Bit(op2, i - n)
             /\ Reg!Bit(Reg!ShiftIn("right", n, op2, into), i) =
                  IF i >= Reg!W - n THEN Reg!Bit(into, i - (Reg!W - n)) ELSE Reg!Bit(op2, i + n)
  <2>1. n \in Nat /\ 1 <= n /\ n <= RegBits
    BY ByteWidth, RegisterWidth
  <2>2. i \in BitPlaces
    BY DEF BitPlaces, Reg!Bits, RegBits
  <2>3. into \in Gprs
    BY RegisterPower DEF Gprs
  <2> QED
    BY <2>1, <2>2, <2>3, ShiftInBits DEF RegBits
<1>2. Reg!Carry("left", op2) <=> Reg!Bit(op2, Reg!W - 1) = 1
  BY CarryBits DEF RegBits
<1>3. Reg!Carry("right", op2) <=> Reg!Bit(op2, 0) = 1
  BY CarryBits
<1> QED
  BY <1>1, <1>2, <1>3, Zenon DEF Reg!ShiftsMoveBits

LEMMA SweTold ==
  ASSUME op2 \in Gprs
  PROVE  Reg!SweReverses
<1>1. ASSUME NEW i \in 0 .. Reg!Bytes - 1
      PROVE  (Reg!SwapBytes(op2) \div 2^(i * ByteBits)) % 2^ByteBits =
               (op2 \div 2^((Reg!Bytes - 1 - i) * ByteBits)) % 2^ByteBits
  <2>1. PICK j, v : j = Reg!Bytes - 1 - i /\ v = Reg!SwapBytes(op2)
    OBVIOUS
  <2>2. i \in ByteNo /\ j \in ByteNo /\ i \in Nat /\ j \in Nat
    BY <2>1, ByteWidth DEF ByteNo
  <2>3. v \in Gprs
    <3>1. 0 \in InByte
      BY ByteWidth DEF InByte
    <3> QED
      BY <2>1, <2>2, <3>1, SwapBytesBits
  <2>4. PICK y, z : /\ y = (v \div Pow[ByteBits * i]) % Pow[ByteBits]
                    /\ z = (op2 \div Pow[ByteBits * j]) % Pow[ByteBits]
    OBVIOUS
  <2>5. v \in Nat /\ op2 \in Nat
    BY <2>3, GprIsNat
  <2>6. y \in 0 .. Pow[ByteBits] - 1 /\ \A x \in InByte : Reg!Bit(y, x) = Reg!Bit(v, At(i, x))
    BY <2>2, <2>4, <2>5, ByteOf
  <2>7. z \in 0 .. Pow[ByteBits] - 1 /\ \A x \in InByte : Reg!Bit(z, x) = Reg!Bit(op2, At(j, x))
    BY <2>2, <2>4, <2>5, ByteOf
  <2>8. ASSUME NEW x \in InByte PROVE Reg!Bit(y, x) = Reg!Bit(z, x)
    <3>1. Reg!Bit(v, At(i, x)) = Reg!Bit(op2, At(j, x))
      BY <2>1, <2>2, SwapBytesBits
    <3> QED
      BY <2>6, <2>7, <3>1
  <2>9. ByteBits \in Nat /\ ByteBits <= Top /\ ByteBits \in 0 .. Top
    BY ByteWidth, RegisterWidth
  <2>10. SameBits(y, z, ByteBits)
    BY <2>8 DEF SameBits, InByte
  <2>11. y = z
    BY <2>6, <2>7, <2>9, <2>10, BitsDetermine
  <2>12. Pow[ByteBits] = 2^ByteBits
    BY <2>9 DEF Pow
  <2>13. ASSUME NEW k \in ByteNo PROVE Pow[ByteBits * k] = 2^(k * ByteBits)
    <3>1. k \in Nat /\ k <= Reg!Bytes
      BY ByteWidth DEF ByteNo
    <3>2. ByteBits * k \in Nat /\ ByteBits * k <= RegBits
      BY <3>1, WholeBytes
    <3>3. ByteBits * k \in 0 .. Top /\ ByteBits * k = k * ByteBits
      BY <2>9, <3>1, <3>2, RegisterWidth
    <3> QED
      BY <3>3 DEF Pow
  <2>14. Pow[ByteBits * i] = 2^(i * ByteBits) /\ Pow[ByteBits * j] = 2^(j * ByteBits)
    BY <2>2, <2>13
  <2> QED
    BY <2>1, <2>4, <2>11, <2>12, <2>14
<1> QED
  BY <1>1, Zenon DEF Reg!SweReverses

LEMMA DoubleWidth ==
  /\ Pow[Top] = 2^(2 * Reg!W) /\ Pow[Top] \in Nat
  /\ Pow[Top] = Pow[RegBits] * Pow[RegBits] /\ Pow[Top] >= 2 * Pow[RegBits]
<1>1. RegBits + RegBits = Top /\ Top \in 0 .. Top /\ RegBits \in Nat
  BY RegisterWidth
<1>2. Pow[RegBits + RegBits] = Pow[RegBits] * Pow[RegBits]
  BY <1>1, PowAdd
<1>3. Pow[Top] = 2^(2 * Reg!W)
  BY <1>1 DEF Pow, Top
<1>4. PICK M : M = Pow[RegBits]
  OBVIOUS
<1>5. M \in Nat /\ M >= 2
  BY <1>4, RegisterPower
<1>6. M * M >= 2 * M /\ M * M \in Nat
  BY <1>5
<1> QED
  BY <1>1, <1>2, <1>3, <1>4, <1>6

LEMMA Small ==
  ASSUME NEW m \in Nat, NEW v \in 0 .. m - 1
  PROVE  v % m = v /\ (v + m) % m = v
<1>1. m > 0 /\ v \in Int /\ v + m \in Int
  OBVIOUS
<1>2. v = m * 0 + v /\ v + m = m * 1 + v
  OBVIOUS
<1>3. v % m = v
  BY <1>1, <1>2, DivMod
<1>4. (v + m) % m = v
  BY <1>1, <1>2, DivMod
<1> QED
  BY <1>3, <1>4

\* Sums and differences of reduced numbers.
LEMMA AddPIs ==
  ASSUME NEW p \in Nat, NEW v \in 0 .. p - 1, NEW w \in 0 .. p - 1
  PROVE  Reg!AddP(v, w, p) = IF v + w < p THEN v + w ELSE v + w - p
<1>1. Reg!AddP(v, w, p) = (v + w) % p
  BY DEF Reg!AddP, Reg!Rem
<1>2. CASE v + w < p
  <2>1. v + w \in 0 .. p - 1
    BY <1>2
  <2> QED
    BY <1>1, <1>2, <2>1, Small
<1>3. CASE ~(v + w < p)
  <2>1. PICK d : d = v + w - p
    OBVIOUS
  <2>2. d \in 0 .. p - 1 /\ v + w = d + p
    BY <1>3, <2>1
  <2>3. (d + p) % p = d
    BY <2>2, Small
  <2> QED
    BY <1>1, <1>3, <2>1, <2>2, <2>3
<1> QED
  BY <1>2, <1>3

LEMMA SubPIs ==
  ASSUME NEW p \in Gprs, NEW v \in 0 .. p - 1, NEW w \in 0 .. p - 1
  PROVE  Reg!SubP(v, w, p) = IF w > v THEN v + p - w ELSE v - w
<1>1. PICK MM, l, d : MM = Pow[Top] /\ l = (IF w > v THEN v + p ELSE v) /\ d = l - w
  OBVIOUS
<1>2. p \in Nat /\ v \in Nat /\ w \in Nat /\ v < p /\ w < p /\ p < MM /\ MM \in Nat
  <2>1. p \in Nat
    BY GprIsNat
  <2>2. p < Pow[RegBits] /\ Pow[RegBits] \in Nat
    BY <2>1, RegisterPower DEF Gprs
  <2>3. Pow[RegBits] <= Pow[Top] /\ Pow[Top] \in Nat
    BY <2>2, DoubleWidth
  <2> QED
    BY <1>1, <2>1, <2>2, <2>3
<1>3. d = IF w > v THEN v + p - w ELSE v - w
  BY <1>1, <1>2
<1>4. d \in 0 .. p - 1 /\ d \in 0 .. MM - 1 /\ l \in Nat
  BY <1>1, <1>2, <1>3
<1>5. l + MM - w = d + MM
  BY <1>1, <1>2, <1>4
<1>6. (d + MM) % MM = d
  BY <1>2, <1>4, Small
<1>7. d % p = d
  BY <1>2, <1>4, Small
<1>8. Reg!SubP(v, w, p) = Reg!Rem((l + MM - w) % MM, p)
  BY <1>1, DoubleWidth DEF Reg!SubP
<1>9. Reg!Rem((l + MM - w) % MM, p) = d
  BY <1>2, <1>4, <1>5, <1>6, <1>7 DEF Reg!Rem
<1> QED
  BY <1>3, <1>8, <1>9

LEMMA SubPTold ==
  ASSUME op2 \in Gprs, op3 \in Gprs, r31 \in Gprs
  PROVE  Reg!SubPInvertsAddP
<1> SUFFICES ASSUME Reg!Reduced(op2, op3, r31)
             PROVE  /\ Reg!SubP(op2, op3, r31) < r31
                    /\ Reg!AddP(Reg!SubP(op2, op3, r31), op3, r31) = op2
                    /\ Reg!SubP(Reg!AddP(op2, op3, r31), op3, r31) = op2
  BY Zenon DEF Reg!SubPInvertsAddP
<1>1. PICK p, v, w : p = r31 /\ v = op2 /\ w = op3
  OBVIOUS
<1>2. p \in Nat /\ v \in 0 .. p - 1 /\ w \in 0 .. p - 1 /\ p \in Gprs
  <2>1. r31 \in Nat /\ op2 \in Nat /\ op3 \in Nat
    BY GprIsNat
  <2> QED
    BY <1>1, <2>1 DEF Reg!Reduced
<1>3. PICK s, t : s = Reg!SubP(v, w, p) /\ t = Reg!AddP(v, w, p)
  OBVIOUS
<1>4. s = (IF w > v THEN v + p - w ELSE v - w) /\ t = (IF v + w < p THEN v + w ELSE v + w - p)
  BY <1>2, <1>3, AddPIs, SubPIs
<1>5. s \in 0 .. p - 1 /\ t \in 0 .. p - 1
  BY <1>2, <1>4
<1>6. Reg!AddP(s, w, p) = IF s + w < p THEN s + w ELSE s + w - p
  BY <1>2, <1>5, AddPIs
<1>7. Reg!SubP(t, w, p) = IF w > t THEN t + p - w ELSE t - w
  BY <1>2, <1>5, SubPIs
<1>8. Reg!AddP(s, w, p) = v
  BY <1>2, <1>4, <1>5, <1>6
<1>9. Reg!SubP(t, w, p) = v
  BY <1>2, <1>4, <1>5, <1>7
<1>10. s < p
  BY <1>2, <1>5
<1> QED
  BY <1>1, <1>3, <1>8, <1>9, <1>10

\* A number whose bit e is set is at least the power.
LEMMA BitMeans ==
  ASSUME NEW v \in Nat, NEW e \in Nat, e <= Top, Reg!Bit(v, e) = 1
  PROVE  v >= Pow[e]
<1>1. PICK r, q : HasBit(v, e, r, 1, q)
  BY BitSplit
<1>2. PICK u, d : u = Pow[e] /\ d = 1 + 2 * q
  OBVIOUS
<1>3. u \in Nat /\ q \in Nat /\ d \in Nat /\ d >= 1 /\ r \in Nat /\ v = r + u * d
  BY <1>1, <1>2, PowNat DEF HasBit
<1>4. u * d >= u /\ u * d \in Nat
  BY <1>3
<1> QED
  BY <1>2, <1>3, <1>4

\* The mask of SCB has the two bits set, and the blinded scalar is not cut.
LEMMA BlindIs ==
  ASSUME NEW v \in Gprs, NEW w \in Gprs, NEW p \in Gprs
  PROVE  \E m \in Gprs :
            /\ Reg!Blind(v, w, p) = m * p + v
            /\ m >= 2^(Reg!W - 1)
            /\ Reg!Bit(m, Reg!W - 1 - WordBits) = 1
<1>1. PICK n, k, M : n = RegBits - 1 /\ k = RegBits - 1 - WordBits /\ M = Pow[RegBits]
  OBVIOUS
<1>2. n \in Nat /\ k \in Nat /\ n \in BitPlaces /\ k \in BitPlaces /\ n \in 0 .. Top /\ k \in 0 .. Top
      /\ n <= Top /\ k <= Top
  BY <1>1, Widths, RegisterWidth DEF BitPlaces
<1>3. PICK m1, m : m1 = Reg!Or(w, Pow[n]) /\ m = Reg!Or(m1, Pow[k])
  OBVIOUS
<1>4. Pow[n] \in Nat /\ Pow[k] \in Nat /\ v \in Nat /\ w \in Nat /\ p \in Nat
  BY <1>2, PowNat, GprIsNat
<1>5. ASSUME NEW e \in Nat, e <= Top PROVE Reg!Bit(Pow[e], e) = 1
  <2>1. Pow[e] \in Nat /\ Pow[e] >= 1
    BY <1>5, PowNat
  <2>2. HasBit(Pow[e], e, 0, 1, 0)
    BY <2>1 DEF HasBit
  <2> QED
    BY <1>5, <2>2, BitOf
<1>6. m1 \in Gprs /\ Reg!Bit(m1, n) = 1
  <2>1. Reg!Bit(Pow[n], n) = 1
    BY <1>2, <1>5
  <2> QED
    BY <1>2, <1>3, <1>4, <2>1, OrBits
<1>7. m \in Gprs /\ Reg!Bit(m, n) = 1 /\ Reg!Bit(m, k) = 1
  <2>1. m1 \in Nat
    BY <1>6, GprIsNat
  <2>2. Reg!Bit(Pow[k], k) = 1
    BY <1>2, <1>5
  <2> QED
    BY <1>2, <1>3, <1>4, <1>6, <2>1, <2>2, OrBits
<1>8. m \in Nat /\ m >= Pow[n]
  BY <1>2, <1>7, GprIsNat, BitMeans
<1>9. M \in Nat /\ M >= 1 /\ m <= M - 1 /\ p <= M - 1 /\ v <= M - 1
  BY <1>1, <1>4, <1>7, <1>8, RegisterPower DEF Gprs
<1>10. m * p + v \in 0 .. M * M - 1
  <2>1. m * p <= (M - 1) * (M - 1)
    <3>1. m * p <= (M - 1) * p
      BY <1>4, <1>8, <1>9
    <3>2. (M - 1) * p <= (M - 1) * (M - 1)
      BY <1>4, <1>9
    <3>3. m * p \in Nat /\ (M - 1) * p \in Nat /\ (M - 1) * (M - 1) \in Nat
      BY <1>4, <1>8, <1>9
    <3> QED
      BY <3>1, <3>2, <3>3
  <2>2. (M - 1) * (M - 1) = M * M - 2 * M + 1
    BY <1>9
  <2>3. m * p \in Nat /\ M * M \in Nat
    BY <1>4, <1>8, <1>9
  <2> QED
    BY <1>4, <1>9, <2>1, <2>2, <2>3
<1>11. Reg!Blind(v, w, p) = (m * p + v) % Pow[Top]
  <2>1. Pow[n] = 2^(Reg!W - 1) /\ Pow[k] = 2^(Reg!W - 1 - WordBits)
    BY <1>1, <1>2 DEF Pow, RegBits
  <2> QED
    BY <1>3, <2>1, DoubleWidth DEF Reg!Blind
<1>12. (m * p + v) % Pow[Top] = m * p + v
  <2>1. PICK x, MM : x = m * p + v /\ MM = Pow[Top]
    OBVIOUS
  <2>2. MM \in Nat /\ x \in 0 .. MM - 1
    BY <1>1, <1>10, <2>1, DoubleWidth
  <2>3. x % MM = x
    BY <2>2, Small
  <2> QED
    BY <2>1, <2>3
<1>13. m >= 2^(Reg!W - 1) /\ Reg!Bit(m, Reg!W - 1 - WordBits) = 1
  BY <1>1, <1>2, <1>7, <1>8 DEF Pow, RegBits
<1> QED
  BY <1>7, <1>11, <1>12, <1>13

LEMMA BlindTold ==
  ASSUME op2 \in Gprs, op3 \in Gprs, r31 \in Gprs
  PROVE  Reg!BlindedScalarCongruent
<1>1. PICK m \in Gprs : /\ Reg!Blind(op2, op3, r31) = m * r31 + op2
                        /\ m >= 2^(Reg!W - 1)
                        /\ Reg!Bit(m, Reg!W - 1 - WordBits) = 1
  BY BlindIs
<1>2. PICK s, v, p, h, M :
        s = Reg!Blind(op2, op3, r31) /\ v = op2 /\ p = r31 /\ h = 2^(Reg!W - 1) /\ M = 2^Reg!W
  OBVIOUS
<1>3. v \in Nat /\ p \in Nat /\ m \in Nat /\ h \in Nat /\ M \in Nat /\ M >= 1
  <2>1. RegBits - 1 \in Nat /\ RegBits - 1 <= Top /\ RegBits - 1 \in 0 .. Top
    BY RegisterWidth
  <2>2. Pow[RegBits - 1] \in Nat /\ Pow[RegBits - 1] = h
    BY <1>2, <2>1, PowNat DEF Pow, RegBits
  <2> QED
    BY <1>2, <2>2, GprIsNat, RegisterPower
<1>4. s = m * p + v
  BY <1>1, <1>2
<1>5. s \in Nat
  BY <1>3, <1>4
<1>6. s = (s % M) + M * (s \div M)
  BY <1>3, <1>5
<1>7. ASSUME p # 0 PROVE s % p = v % p
  <2>1. PICK d, r : d = v \div p /\ r = v % p
    OBVIOUS
  <2>2. p > 0 /\ d \in Int /\ r \in 0 .. p - 1 /\ v = p * d + r
    BY <1>3, <1>7, <2>1
  <2>3. PICK e : e = m + d
    OBVIOUS
  <2>4. e \in Int /\ s \in Int /\ s = p * e + r
    <3>1. p * e = p * m + p * d
      BY <1>3, <2>2, <2>3
    <3> QED
      BY <1>3, <1>4, <1>5, <2>2, <2>3, <3>1
  <2>5. s % p = r
    BY <1>3, <2>2, <2>4, DivMod
  <2> QED
    BY <2>1, <2>5
<1>8. s >= v + p * h
  <2>1. m >= h
    BY <1>1, <1>2
  <2>2. m * p >= p * h
    BY <1>3, <2>1
  <2>3. m * p \in Nat /\ p * h \in Nat
    BY <1>3
  <2> QED
    BY <1>3, <1>4, <2>2, <2>3
<1>9. ASSUME p # 0 PROVE (s - v) \div p = m
  <2>1. PICK x, r : x = s - v /\ r = 0
    OBVIOUS
  <2>2. p > 0 /\ m \in Int /\ r \in 0 .. p - 1 /\ x \in Int /\ x = p * m + r
    <3>1. x = m * p
      BY <1>3, <1>4, <2>1
    <3> QED
      BY <1>3, <1>9, <2>1, <3>1
  <2>3. x \div p = m
    BY <1>3, <2>2, DivMod
  <2> QED
    BY <2>1, <2>3
<1>10. s = Reg!Low(s) + 2^Reg!W * Reg!High(s)
  BY <1>2, <1>6 DEF Reg!Low, Reg!High
<1>11. r31 # 0 => Reg!Bit((s - op2) \div r31, Reg!W - 1 - WordBits) = 1
  BY <1>1, <1>2, <1>9
<1> QED
  BY <1>2, <1>7, <1>8, <1>10, <1>11 DEF Reg!BlindedScalarCongruent

--------------------------------------------------------------------------------
(* Whatever is loaded *)

\* The operands of the instructions are registers.
RegistersInv == subject = "instructions" => op2 \in Gprs /\ op3 \in Gprs /\ r31 \in Gprs

LEMMA RegistersInit == SubjectInit => RegistersInv
<1> SUFFICES ASSUME SubjectInit, subject = "instructions" PROVE RegistersInv
  BY DEF RegistersInv
<1>1. op2 = 0 /\ op3 = 0 /\ r31 = 0
  BY DEF SubjectInit, Reg!Init
<1>2. 0 \in Gprs
  <2>1. Pow[RegBits] \in Nat /\ Pow[RegBits] >= 1
    BY RegisterWidth, PowNat
  <2> QED
    BY <2>1 DEF Gprs
<1> QED
  BY <1>1, <1>2 DEF RegistersInv

LEMMA RegistersStep == RegistersInv /\ [SubjectNext]_all => RegistersInv'
<1> SUFFICES ASSUME RegistersInv, [SubjectNext]_all, subject' = "instructions"
             PROVE  op2' \in Gprs /\ op3' \in Gprs /\ r31' \in Gprs
  BY DEF RegistersInv, Gprs, Pow, Top, RegBits, Reg!W
<1>1. Reg!Gpr = Gprs
  BY RegisterPower
<1>2. CASE UNCHANGED all
  BY <1>2 DEF all, operands, RegistersInv
<1>3. CASE SubjectNext
  <2>1. Reg!Next
    BY <1>3 DEF SubjectNext
  <2>2. op2 \in Gprs /\ op3 \in Gprs /\ r31 \in Gprs
    BY <1>3 DEF SubjectNext, RegistersInv
  <2>3. CASE Reg!LoadA
    BY <1>1, <2>2, <2>3 DEF Reg!LoadA
  <2>4. CASE Reg!LoadB
    BY <1>1, <2>2, <2>4 DEF Reg!LoadB
  <2>5. CASE Reg!LoadP
    BY <1>1, <2>2, <2>5 DEF Reg!LoadP
  <2> QED
    BY <2>1, <2>3, <2>4, <2>5 DEF Reg!Next
<1> QED
  BY <1>2, <1>3

\* For registers of any width and all operands, the masks and loops of the instructions move
\* bits as the instruction set says: AND, OR, XOR and NOT on the register, the word and the
\* immediate, SBIT and CBIT, shifts and rotations by a bit and a byte, and SWE.
THEOREM InstructionBits == SubjectSpec => []BitsAsTold
<1>1. RegistersInv => BitsAsTold
  BY LogicTold, OneBitTold, ShiftsTold, SweTold DEF RegistersInv, BitsAsTold
<1> QED
  BY <1>1, RegistersInit, RegistersStep, PTL DEF SubjectSpec

\* For registers of any width, all operands and every R31: of reduced operands ADDP and SUBP
\* are inverse, and the number SCB leaves in two registers is congruent to the scalar, with
\* a mask whose top bits are set and no carry cut.
THEOREM ResultsCongruent == SubjectSpec => []CongruentResults
<1>1. RegistersInv => CongruentResults
  BY SubPTold, BlindTold DEF RegistersInv, CongruentResults
<1> QED
  BY <1>1, RegistersInit, RegistersStep, PTL DEF SubjectSpec

================================================================================
