------------------------------- MODULE IsaProofs -------------------------------
(*****************************************************************************)
(* Proofs about the data path: for registers, words, regions and a memory    *)
(* map of any size, and whatever the hash function and the sponge are, what  *)
(* each instruction of both versions and each call of the host puts into the *)
(* change queue replays to what it did.  First sequences of change entries:  *)
(* which values of an object they replay to, and what becomes of that when   *)
(* two are concatenated or one is made word by word; then the ways in which  *)
(* a step ends; then the instructions and calls of each part.                *)
(*****************************************************************************)
EXTENDS MCIsa, SequencesExt, SequenceTheorems, WellFoundedInduction, FiniteSetTheorems, TLAPS

--------------------------------------------------------------------------------
(* Entries and what they replay to *)

IsSeq(s) == \E T : s \in Seq(T)

Concerning(chs, kind, objs) == {k \in DOMAIN chs : chs[k].kind = kind /\ chs[k].obj \in objs}

\* The entries about objs lead from before to after.
Replays(chs, kind, objs, before, after) ==
  LET ks == Concerning(chs, kind, objs)
  IN /\ ks = {} => after = before
     /\ \A k \in ks :
          /\ (\A j \in ks : j >= k) => chs[k].old = before
          /\ (\A j \in ks : j <= k) => chs[k].new = after
          /\ \A j \in ks : (j < k /\ ~\E l \in ks : j < l /\ l < k) => chs[k].old = chs[j].new

LEMMA ConcatSeqs ==
  ASSUME NEW s, NEW t, IsSeq(s), IsSeq(t)
  PROVE  /\ IsSeq(s \o t) /\ Len(s) \in Nat /\ Len(t) \in Nat
         /\ DOMAIN s = 1 .. Len(s) /\ DOMAIN t = 1 .. Len(t)
         /\ DOMAIN (s \o t) = 1 .. Len(s) + Len(t) /\ Len(s \o t) = Len(s) + Len(t)
         /\ \A k \in 1 .. Len(s) : (s \o t)[k] = s[k]
         /\ \A k \in 1 .. Len(t) : (s \o t)[Len(s) + k] = t[k]
<1>1. PICK S : s \in Seq(S)
  BY DEF IsSeq
<1>2. PICK T : t \in Seq(T)
  BY DEF IsSeq
<1> DEFINE U == S \cup T
<1>3. s \in Seq(U) /\ t \in Seq(U)
  BY <1>1, <1>2
<1> HIDE DEF U
<1>4. PICK q : q = s \o t
  OBVIOUS
<1>5. /\ q \in Seq(U) /\ Len(q) = Len(s) + Len(t) /\ Len(s) \in Nat /\ Len(t) \in Nat
      /\ \A k \in 1 .. Len(q) : q[k] = IF k <= Len(s) THEN s[k] ELSE t[k - Len(s)]
  BY <1>3, <1>4, ConcatProperties
<1>6. \A k \in 1 .. Len(s) : q[k] = s[k]
  BY <1>5
<1>7. ASSUME NEW k \in 1 .. Len(t) PROVE q[Len(s) + k] = t[k]
  <2>1. Len(s) + k \in 1 .. Len(q) /\ ~(Len(s) + k <= Len(s)) /\ (Len(s) + k) - Len(s) = k
    BY <1>5
  <2> QED
    BY <1>5, <2>1
<1> QED
  BY <1>3, <1>4, <1>5, <1>6, <1>7 DEF IsSeq

\* Where an entry of a concatenation comes from.
LEMMA ConcerningConcat ==
  ASSUME NEW s, NEW t, IsSeq(s), IsSeq(t), NEW kind, NEW objs
  PROVE  /\ \A k \in 1 .. Len(s) :
              k \in Concerning(s \o t, kind, objs) <=> k \in Concerning(s, kind, objs)
         /\ \A k \in 1 .. Len(t) :
              Len(s) + k \in Concerning(s \o t, kind, objs) <=> k \in Concerning(t, kind, objs)
         /\ \A k \in Concerning(s \o t, kind, objs) :
              k \in 1 .. Len(s) \/ \E j \in 1 .. Len(t) : k = Len(s) + j
         /\ Concerning(s, kind, objs) \subseteq 1 .. Len(s)
         /\ Concerning(t, kind, objs) \subseteq 1 .. Len(t)
<1>1. PICK q : q = s \o t
  OBVIOUS
<1>2. /\ Len(s) \in Nat /\ Len(t) \in Nat
      /\ DOMAIN s = 1 .. Len(s) /\ DOMAIN t = 1 .. Len(t)
      /\ DOMAIN q = 1 .. Len(s) + Len(t)
      /\ \A k \in 1 .. Len(s) : q[k] = s[k]
      /\ \A k \in 1 .. Len(t) : q[Len(s) + k] = t[k]
  BY <1>1, ConcatSeqs
<1>3. \A k \in 1 .. Len(s) : k \in Concerning(q, kind, objs) <=> k \in Concerning(s, kind, objs)
  BY <1>2 DEF Concerning
<1>4. ASSUME NEW k \in 1 .. Len(t)
      PROVE  Len(s) + k \in Concerning(q, kind, objs) <=> k \in Concerning(t, kind, objs)
  <2>1. Len(s) + k \in DOMAIN q /\ q[Len(s) + k] = t[k] /\ k \in DOMAIN t
    BY <1>2
  <2> QED
    BY <2>1 DEF Concerning
<1>5. ASSUME NEW k \in Concerning(q, kind, objs), k \notin 1 .. Len(s)
      PROVE  \E j \in 1 .. Len(t) : k = Len(s) + j
  <2>1. k \in 1 .. Len(s) + Len(t)
    BY <1>2 DEF Concerning
  <2>2. k - Len(s) \in 1 .. Len(t) /\ k = Len(s) + (k - Len(s))
    BY <1>2, <1>5, <2>1
  <2> QED
    BY <2>2
<1> QED
  BY <1>1, <1>2, <1>3, <1>4, <1>5 DEF Concerning

\* What leads from x to y and then to z leads from x to z.
LEMMA ReplaysConcat ==
  ASSUME NEW s, NEW t, IsSeq(s), IsSeq(t), NEW kind, NEW objs, NEW x, NEW y, NEW z,
         Replays(s, kind, objs, x, y), Replays(t, kind, objs, y, z)
  PROVE  Replays(s \o t, kind, objs, x, z)
<1>1. PICK q, n, m : q = s \o t /\ n = Len(s) /\ m = Len(t)
  OBVIOUS
<1>2. PICK ks, kt, kq : /\ ks = Concerning(s, kind, objs) /\ kt = Concerning(t, kind, objs)
                        /\ kq = Concerning(q, kind, objs)
  OBVIOUS
<1>3. /\ n \in Nat /\ m \in Nat /\ ks \subseteq 1 .. n /\ kt \subseteq 1 .. m
      /\ \A k \in 1 .. n : k \in kq <=> k \in ks
      /\ \A k \in 1 .. m : n + k \in kq <=> k \in kt
      /\ \A k \in kq : k \in 1 .. n \/ \E j \in 1 .. m : k = n + j
  BY <1>1, <1>2, ConcatSeqs, ConcerningConcat
<1>4. /\ \A k \in 1 .. n : q[k] = s[k]
      /\ \A k \in 1 .. m : q[n + k] = t[k]
  BY <1>1, ConcatSeqs
<1>5. /\ ks = {} => y = x
      /\ \A k \in ks :
           /\ (\A j \in ks : j >= k) => s[k].old = x
           /\ (\A j \in ks : j <= k) => s[k].new = y
           /\ \A j \in ks : (j < k /\ ~\E l \in ks : j < l /\ l < k) => s[k].old = s[j].new
  BY <1>2 DEF Replays
<1>6. /\ kt = {} => z = y
      /\ \A k \in kt :
           /\ (\A j \in kt : j >= k) => t[k].old = y
           /\ (\A j \in kt : j <= k) => t[k].new = z
           /\ \A j \in kt : (j < k /\ ~\E l \in kt : j < l /\ l < k) => t[k].old = t[j].new
  BY <1>2 DEF Replays
<1>7. kq = {} => z = x
  <2> SUFFICES ASSUME kq = {} PROVE z = x
    OBVIOUS
  <2>1. ks = {} /\ kt = {}
    BY <1>3
  <2> QED
    BY <1>5, <1>6, <2>1
<1>8. ASSUME NEW k \in kq, \A j \in kq : j >= k PROVE q[k].old = x
  <2>1. CASE k \in 1 .. n
    <3>1. k \in ks /\ \A j \in ks : j >= k
      BY <1>3, <1>8, <2>1
    <3> QED
      BY <1>4, <1>5, <2>1, <3>1
  <2>2. ASSUME NEW i \in 1 .. m, k = n + i PROVE q[k].old = x
    <3>1. i \in kt /\ \A j \in kt : j >= i
      BY <1>3, <1>8, <2>2
    <3>2. ks = {}
      BY <1>3, <1>8, <2>2
    <3> QED
      BY <1>4, <1>5, <1>6, <2>2, <3>1, <3>2
  <2> QED
    BY <1>3, <2>1, <2>2
<1>9. ASSUME NEW k \in kq, \A j \in kq : j <= k PROVE q[k].new = z
  <2>1. CASE k \in 1 .. n
    <3>1. k \in ks /\ \A j \in ks : j <= k
      BY <1>3, <1>9, <2>1
    <3>2. kt = {}
      BY <1>3, <1>9, <2>1
    <3> QED
      BY <1>4, <1>5, <1>6, <2>1, <3>1, <3>2
  <2>2. ASSUME NEW i \in 1 .. m, k = n + i PROVE q[k].new = z
    <3>1. i \in kt /\ \A j \in kt : j <= i
      BY <1>3, <1>9, <2>2
    <3> QED
      BY <1>4, <1>6, <2>2, <3>1
  <2> QED
    BY <1>3, <2>1, <2>2
<1>10. ASSUME NEW k \in kq, NEW j \in kq, j < k, ~\E l \in kq : j < l /\ l < k
       PROVE  q[k].old = q[j].new
  <2>1. CASE k \in 1 .. n
    <3>1. k \in ks /\ j \in 1 .. n /\ j \in ks
      BY <1>3, <1>10, <2>1
    <3>2. ~\E l \in ks : j < l /\ l < k
      BY <1>3, <1>10
    <3>3. s[k].old = s[j].new
      BY <1>5, <1>10, <3>1, <3>2
    <3> QED
      BY <1>4, <2>1, <3>1, <3>3
  <2>2. ASSUME NEW i \in 1 .. m, k = n + i, j \in 1 .. n PROVE q[k].old = q[j].new
    <3>1. i \in kt /\ j \in ks
      BY <1>3, <2>2
    <3>2. \A l \in kt : l >= i
      BY <1>3, <1>10, <2>2, <3>1
    <3>3. \A l \in ks : l <= j
      BY <1>3, <1>10, <2>2, <3>1
    <3> QED
      BY <1>4, <1>5, <1>6, <2>2, <3>1, <3>2, <3>3
  <2>3. ASSUME NEW i \in 1 .. m, k = n + i, NEW h \in 1 .. m, j = n + h
        PROVE  q[k].old = q[j].new
    <3>1. i \in kt /\ h \in kt /\ h < i
      BY <1>3, <1>10, <2>3
    <3>2. ~\E l \in kt : h < l /\ l < i
      BY <1>3, <1>10, <2>3
    <3> QED
      BY <1>4, <1>6, <2>3, <3>1, <3>2
  <2> QED
    BY <1>3, <2>1, <2>2, <2>3
<1>11. Replays(q, kind, objs, x, z)
  BY <1>2, <1>7, <1>8, <1>9, <1>10 DEF Replays
<1> QED
  BY <1>1, <1>11

\* Without an entry about objs nothing happens to them.
LEMMA ReplaysNone ==
  ASSUME NEW s, NEW kind, NEW objs, Concerning(s, kind, objs) = {}, NEW x
  PROVE  Replays(s, kind, objs, x, x)
  BY DEF Replays

\* The only entry about objs leads from its old value to its new one.
LEMMA ReplaysSole ==
  ASSUME NEW s, NEW kind, NEW objs, NEW i \in DOMAIN s, i \in Nat,
         Concerning(s, kind, objs) = {i}
  PROVE  Replays(s, kind, objs, s[i].old, s[i].new)
  BY DEF Replays

LEMMA OneEntry ==
  ASSUME NEW e
  PROVE  /\ IsSeq(<<e>>) /\ DOMAIN <<e>> = {1} /\ <<e>>[1] = e
         /\ \A kind, objs : Concerning(<<e>>, kind, objs) =
                              IF e.kind = kind /\ e.obj \in objs THEN {1} ELSE {}
<1>1. <<e>> \in Seq({e}) /\ Len(<<e>>) = 1 /\ DOMAIN <<e>> = {1} /\ <<e>>[1] = e
  OBVIOUS
<1>2. PICK q : q = <<e>>
  OBVIOUS
<1>3. \A kind, objs : Concerning(q, kind, objs) =
                        IF e.kind = kind /\ e.obj \in objs THEN {1} ELSE {}
  BY <1>1, <1>2 DEF Concerning
<1> QED
  BY <1>1, <1>2, <1>3 DEF IsSeq

LEMMA ReplaysEntry ==
  ASSUME NEW e, NEW kind, NEW objs, NEW x, NEW y,
         IF e.kind = kind /\ e.obj \in objs THEN e.old = x /\ e.new = y ELSE y = x
  PROVE  Replays(<<e>>, kind, objs, x, y)
<1>1. PICK q : q = <<e>>
  OBVIOUS
<1>2. /\ DOMAIN q = {1} /\ q[1] = e
      /\ Concerning(q, kind, objs) = IF e.kind = kind /\ e.obj \in objs THEN {1} ELSE {}
  BY <1>1, OneEntry
<1>3. Replays(q, kind, objs, x, y)
  <2>1. CASE e.kind = kind /\ e.obj \in objs
    <3>1. 1 \in DOMAIN q /\ 1 \in Nat /\ Concerning(q, kind, objs) = {1}
      BY <1>2, <2>1
    <3> QED
      BY <1>2, <2>1, <3>1, ReplaysSole
  <2>2. CASE ~(e.kind = kind /\ e.obj \in objs)
    BY <1>2, <2>2, ReplaysNone
  <2> QED
    BY <2>1, <2>2
<1> QED
  BY <1>1, <1>3

LEMMA NoEntries ==
  /\ IsSeq(<<>>)
  /\ \A kind, objs : Concerning(<<>>, kind, objs) = {}
<1>1. <<>> \in Seq({}) /\ DOMAIN <<>> = {}
  OBVIOUS
<1> QED
  BY <1>1 DEF IsSeq, Concerning

\* Entries of which none is about memory.
NoMemory1(s) == \A k \in DOMAIN s : s[k].kind # "MEM"

LEMMA NoMemoryConcat ==
  ASSUME NEW s, NEW t, IsSeq(s), IsSeq(t), NoMemory1(s), NoMemory1(t)
  PROVE  NoMemory1(s \o t)
<1>1. PICK q : q = s \o t
  OBVIOUS
<1>2. /\ Len(s) \in Nat /\ Len(t) \in Nat
      /\ DOMAIN s = 1 .. Len(s) /\ DOMAIN t = 1 .. Len(t)
      /\ DOMAIN q = 1 .. Len(s) + Len(t)
      /\ \A k \in 1 .. Len(s) : q[k] = s[k]
      /\ \A k \in 1 .. Len(t) : q[Len(s) + k] = t[k]
  BY <1>1, ConcatSeqs
<1>3. ASSUME NEW k \in DOMAIN q PROVE q[k].kind # "MEM"
  <2>1. CASE k \in 1 .. Len(s)
    BY <1>2, <2>1 DEF NoMemory1
  <2>2. CASE k \notin 1 .. Len(s)
    <3>1. k - Len(s) \in 1 .. Len(t) /\ k = Len(s) + (k - Len(s))
      BY <1>2, <2>2
    <3>2. q[k] = t[k - Len(s)]
      BY <1>2, <3>1
    <3> QED
      BY <1>2, <3>1, <3>2 DEF NoMemory1
  <2> QED
    BY <2>1, <2>2
<1> QED
  BY <1>1, <1>3 DEF NoMemory1

--------------------------------------------------------------------------------
(* Entries of several words *)

\* A set of numbers that holds 0 and, with a number, the next one holds all.
LEMMA NatInSet ==
  ASSUME NEW S, 0 \in S, \A n \in Nat : n \in S => n + 1 \in S
  PROVE  Nat \subseteq S
<1> DEFINE bad == Nat \ S
<1> SUFFICES ASSUME bad # {} PROVE FALSE
  OBVIOUS
<1>1. PICK x \in bad : \A y \in bad : ~ (<<y, x>> \in OpToRel(<, Nat))
  <2>1. bad \in SUBSET Nat
    OBVIOUS
  <2> HIDE DEF bad
  <2> QED
    BY <2>1, NatLessThanWellFounded, WFMin
<1>2. x \in Nat /\ x # 0 /\ x - 1 \in Nat /\ (x - 1) + 1 = x
  OBVIOUS
<1>3. x - 1 \in bad
  BY <1>2
<1>4. <<x - 1, x>> \in OpToRel(<, Nat)
  <2>1. <<x - 1, x>> \in Nat \X Nat /\ <<x - 1, x>>[1] < <<x - 1, x>>[2]
    BY <1>2
  <2> QED
    BY <2>1, Zenon DEF OpToRel
<1> QED
  BY <1>1, <1>3, <1>4

\* f concatenates the first sequences of s.
Concatenates(f, s, m) == f = [i \in 1 .. m |-> IF i = 1 THEN s[i] ELSE f[i - 1] \o s[i]]

LEMMA ConcatenationExists ==
  ASSUME NEW s, NEW m \in Nat
  PROVE  \E f : Concatenates(f, s, m)
<1> DEFINE good == {k \in Nat : \E f : Concatenates(f, s, k)}
<1>1. 0 \in good
  <2>1. Concatenates([i \in 1 .. 0 |-> <<>>], s, 0)
    BY DEF Concatenates
  <2> QED
    BY <2>1
<1>2. ASSUME NEW k \in Nat, k \in good PROVE k + 1 \in good
  <2>1. PICK f : Concatenates(f, s, k)
    BY <1>2
  <2>0. PICK last : last = IF k = 0 THEN s[1] ELSE f[k] \o s[k + 1]
    OBVIOUS
  <2> DEFINE g == [i \in 1 .. k + 1 |-> IF i = k + 1 THEN last ELSE f[i]]
  <2>2. g[k + 1] = last /\ \A i \in 1 .. k : g[i] = f[i]
    OBVIOUS
  <2>3. \A i \in 1 .. k : f[i] = IF i = 1 THEN s[i] ELSE f[i - 1] \o s[i]
    BY <2>1 DEF Concatenates
  <2>4. g = [i \in 1 .. k + 1 |-> g[i]]
    OBVIOUS
  <2> HIDE DEF g
  <2>5. ASSUME NEW i \in 1 .. k + 1
        PROVE  g[i] = IF i = 1 THEN s[i] ELSE g[i - 1] \o s[i]
    <3>1. CASE i = k + 1
      <4>1. CASE k = 0
        BY <2>0, <2>2, <3>1, <4>1
      <4>2. CASE k # 0
        <5>1. k \in 1 .. k /\ i # 1 /\ i - 1 = k
          BY <3>1, <4>2
        <5>2. g[i] = f[k] \o s[k + 1]
          BY <2>0, <2>2, <3>1, <4>2
        <5>3. f[k] = g[k]
          BY <2>2, <5>1
        <5> QED
          BY <3>1, <5>1, <5>2, <5>3
      <4> QED
        BY <4>1, <4>2
    <3>2. CASE i # k + 1
      <4>1. i \in 1 .. k /\ (i # 1 => i - 1 \in 1 .. k)
        BY <3>2
      <4> QED
        BY <2>2, <2>3, <4>1
    <3> QED
      BY <3>1, <3>2
  <2>6. Concatenates(g, s, k + 1)
    BY <2>4, <2>5 DEF Concatenates
  <2> QED
    BY <2>6
<1> HIDE DEF good
<1>3. m \in good
  BY <1>1, <1>2, NatInSet
<1> QED
  BY <1>3 DEF good

LEMMA FlattenSeqIs ==
  ASSUME NEW s, Len(s) \in Nat, Len(s) >= 1
  PROVE  \E f : Concatenates(f, s, Len(s)) /\ FlattenSeq(s) = f[Len(s)]
<1> DEFINE f == CHOOSE g : Concatenates(g, s, Len(s))
<1>1. Concatenates(f, s, Len(s))
  BY ConcatenationExists
<1>2. FlattenSeq(s) = f[Len(s)]
  BY DEF FlattenSeq, Concatenates
<1> QED
  BY <1>1, <1>2

\* e is the only entry about objs.
Sole(s, kind, objs, e) ==
  \E j \in DOMAIN s : j \in Nat /\ Concerning(s, kind, objs) = {j} /\ s[j] = e

LEMMA NoneConcat ==
  ASSUME NEW s, NEW t, IsSeq(s), IsSeq(t), NEW kind, NEW objs,
         Concerning(s, kind, objs) = {}, Concerning(t, kind, objs) = {}
  PROVE  Concerning(s \o t, kind, objs) = {}
  BY ConcerningConcat

LEMMA SoleConcat ==
  ASSUME NEW s, NEW t, IsSeq(s), IsSeq(t), NEW kind, NEW objs, NEW e,
         \/ Sole(s, kind, objs, e) /\ Concerning(t, kind, objs) = {}
         \/ Concerning(s, kind, objs) = {} /\ Sole(t, kind, objs, e)
  PROVE  Sole(s \o t, kind, objs, e)
<1>1. PICK q, ks, kt, kq : /\ q = s \o t /\ ks = Concerning(s, kind, objs)
                           /\ kt = Concerning(t, kind, objs) /\ kq = Concerning(q, kind, objs)
  OBVIOUS
<1>2. /\ Len(s) \in Nat /\ Len(t) \in Nat /\ ks \subseteq 1 .. Len(s) /\ kt \subseteq 1 .. Len(t)
      /\ \A k \in 1 .. Len(s) : k \in kq <=> k \in ks
      /\ \A k \in 1 .. Len(t) : Len(s) + k \in kq <=> k \in kt
      /\ \A k \in kq : k \in 1 .. Len(s) \/ \E j \in 1 .. Len(t) : k = Len(s) + j
  BY <1>1, ConcatSeqs, ConcerningConcat
<1>3. /\ DOMAIN s = 1 .. Len(s) /\ DOMAIN t = 1 .. Len(t) /\ DOMAIN q = 1 .. Len(s) + Len(t)
      /\ \A k \in 1 .. Len(s) : q[k] = s[k]
      /\ \A k \in 1 .. Len(t) : q[Len(s) + k] = t[k]
  BY <1>1, ConcatSeqs
<1>4. Sole(q, kind, objs, e)
  <2>1. ASSUME Sole(s, kind, objs, e), kt = {} PROVE Sole(q, kind, objs, e)
    <3>1. PICK j \in DOMAIN s : j \in Nat /\ ks = {j} /\ s[j] = e
      BY <1>1, <2>1 DEF Sole
    <3>2. j \in DOMAIN q /\ kq = {j} /\ q[j] = e
      BY <1>2, <1>3, <2>1, <3>1
    <3> QED
      BY <1>1, <3>1, <3>2 DEF Sole
  <2>2. ASSUME Sole(t, kind, objs, e), ks = {} PROVE Sole(q, kind, objs, e)
    <3>1. PICK j \in DOMAIN t : j \in Nat /\ kt = {j} /\ t[j] = e
      BY <1>1, <2>2 DEF Sole
    <3>2. PICK i : i = Len(s) + j
      OBVIOUS
    <3>3. j \in 1 .. Len(t) /\ i \in DOMAIN q /\ i \in Nat /\ q[i] = e
      BY <1>2, <1>3, <3>1, <3>2
    <3>4. i \in kq
      BY <1>2, <3>1, <3>2, <3>3
    <3>5. ASSUME NEW k \in kq PROVE k = i
      <4>1. PICK l \in 1 .. Len(t) : k = Len(s) + l
        BY <1>2, <2>2
      <4>2. l \in kt
        BY <1>2, <4>1
      <4> QED
        BY <3>1, <3>2, <4>1, <4>2
    <3>6. kq = {i}
      BY <3>4, <3>5
    <3> QED
      BY <1>1, <3>3, <3>6 DEF Sole
  <2> QED
    BY <1>1, <2>1, <2>2
<1> QED
  BY <1>1, <1>4

\* Those of the entries x[k], with k in keep, that are about objs.
Touching(keep, x, kind, objs) == {k \in keep : x[k].kind = kind /\ x[k].obj \in objs}

\* The sequence has the entries x[k] with k in keep and no others, as far as no two are
\* about the same.
Lists(s, keep, x) ==
  /\ IsSeq(s)
  /\ \A kind, objs :
       /\ Touching(keep, x, kind, objs) = {} => Concerning(s, kind, objs) = {}
       /\ \A i \in keep : Touching(keep, x, kind, objs) = {i} => Sole(s, kind, objs, x[i])

LEMMA ListsOne == ASSUME NEW x, NEW i PROVE Lists(<<x[i]>>, {i}, x)
<1>1. PICK e : e = x[i]
  OBVIOUS
<1>2. PICK s : s = <<e>>
  OBVIOUS
<1>3. /\ IsSeq(s) /\ DOMAIN s = {1} /\ s[1] = e
      /\ \A kind, objs : Concerning(s, kind, objs) =
                           IF e.kind = kind /\ e.obj \in objs THEN {1} ELSE {}
  BY <1>2, OneEntry
<1>4. ASSUME NEW kind, NEW objs, Touching({i}, x, kind, objs) = {}
      PROVE  Concerning(s, kind, objs) = {}
  BY <1>1, <1>3, <1>4 DEF Touching
<1>5. ASSUME NEW kind, NEW objs, Touching({i}, x, kind, objs) = {i}
      PROVE  Sole(s, kind, objs, e)
  BY <1>1, <1>3, <1>5 DEF Touching, Sole
<1>6. Lists(s, {i}, x)
  BY <1>1, <1>3, <1>4, <1>5 DEF Lists
<1> QED
  BY <1>1, <1>2, <1>6

LEMMA ListsNone == ASSUME NEW x PROVE Lists(<<>>, {}, x)
  BY NoEntries DEF Lists

LEMMA ListsConcat ==
  ASSUME NEW s, NEW t, NEW keep, NEW more, NEW x, Lists(s, keep, x), Lists(t, more, x),
         keep \cap more = {}
  PROVE  Lists(s \o t, keep \cup more, x)
<1>1. IsSeq(s) /\ IsSeq(t) /\ IsSeq(s \o t)
  BY ConcatSeqs DEF Lists
<1>2. ASSUME NEW kind, NEW objs, Touching(keep \cup more, x, kind, objs) = {}
      PROVE  Concerning(s \o t, kind, objs) = {}
  <2>1. Touching(keep, x, kind, objs) = {} /\ Touching(more, x, kind, objs) = {}
    BY <1>2 DEF Touching
  <2>2. Concerning(s, kind, objs) = {} /\ Concerning(t, kind, objs) = {}
    BY <2>1 DEF Lists
  <2> QED
    BY <1>1, <2>2, NoneConcat
<1>3. ASSUME NEW kind, NEW objs, NEW i \in keep \cup more,
             Touching(keep \cup more, x, kind, objs) = {i}
      PROVE  Sole(s \o t, kind, objs, x[i])
  <2>1. CASE i \in keep
    <3>1. Touching(keep, x, kind, objs) = {i} /\ Touching(more, x, kind, objs) = {}
      BY <1>3, <2>1 DEF Touching
    <3>2. Sole(s, kind, objs, x[i]) /\ Concerning(t, kind, objs) = {}
      BY <2>1, <3>1 DEF Lists
    <3> QED
      BY <1>1, <3>2, SoleConcat
  <2>2. CASE i \in more
    <3>1. Touching(keep, x, kind, objs) = {} /\ Touching(more, x, kind, objs) = {i}
      BY <1>3, <2>2 DEF Touching
    <3>2. Concerning(s, kind, objs) = {} /\ Sole(t, kind, objs, x[i])
      BY <2>2, <3>1 DEF Lists
    <3> QED
      BY <1>1, <3>2, SoleConcat
  <2> QED
    BY <2>1, <2>2
<1> QED
  BY <1>1, <1>2, <1>3 DEF Lists

\* One piece for each word, with an entry or without.
LEMMA PiecesList ==
  ASSUME NEW n \in Nat, n >= 1, NEW keep \in SUBSET (1 .. n), NEW x,
         NEW p, p = [k \in 1 .. n |-> p[k]],
         \A k \in 1 .. n : p[k] = IF k \in keep THEN <<x[k]>> ELSE <<>>
  PROVE  Lists(FlattenSeq(p), keep, x)
<1>1. Len(p) = n
  OBVIOUS
<1>2. PICK f : Concatenates(f, p, n) /\ FlattenSeq(p) = f[n]
  BY <1>1, FlattenSeqIs
<1>3. f[1] = p[1] /\ \A i \in 2 .. n : f[i] = f[i - 1] \o p[i]
  <2>1. PICK s : s = p
    OBVIOUS
  <2>2. Concatenates(f, s, n)
    BY <1>2, <2>1
  <2>3. \A i \in 1 .. n : f[i] = IF i = 1 THEN s[i] ELSE f[i - 1] \o s[i]
    BY <2>2 DEF Concatenates
  <2>4. 1 \in 1 .. n /\ \A i \in 2 .. n : i \in 1 .. n /\ i # 1
    OBVIOUS
  <2>5. f[1] = s[1]
    BY <2>3, <2>4
  <2>6. ASSUME NEW i \in 2 .. n PROVE f[i] = f[i - 1] \o s[i]
    BY <2>3, <2>4
  <2> QED
    BY <2>1, <2>5, <2>6
<1>4. ASSUME NEW k \in 1 .. n PROVE Lists(p[k], keep \cap {k}, x)
  <2>1. CASE k \in keep
    <3>1. p[k] = <<x[k]>> /\ keep \cap {k} = {k}
      BY <2>1
    <3> QED
      BY <3>1, ListsOne
  <2>2. CASE k \notin keep
    <3>1. p[k] = <<>> /\ keep \cap {k} = {}
      BY <2>2
    <3> QED
      BY <3>1, ListsNone
  <2> QED
    BY <2>1, <2>2
<1> DEFINE good == {k \in Nat : k \in 1 .. n => Lists(f[k], keep \cap (1 .. k), x)}
<1>5. 0 \in good
  OBVIOUS
<1>6. ASSUME NEW k \in Nat, k \in good PROVE k + 1 \in good
  <2> SUFFICES ASSUME k + 1 \in 1 .. n PROVE Lists(f[k + 1], keep \cap (1 .. k + 1), x)
    OBVIOUS
  <2>1. CASE k = 0
    <3>1. k + 1 = 1 /\ keep \cap (1 .. k + 1) = keep \cap {1}
      BY <2>1
    <3> QED
      BY <1>3, <1>4, <3>1
  <2>2. CASE k # 0
    <3>1. k \in 1 .. n /\ k + 1 \in 2 .. n /\ (k + 1) - 1 = k
      BY <2>2
    <3>2. f[k + 1] = f[k] \o p[k + 1]
      BY <1>3, <3>1
    <3>3. PICK s, t, u, v : /\ s = f[k] /\ t = p[k + 1] /\ u = keep \cap (1 .. k)
                            /\ v = keep \cap {k + 1}
      OBVIOUS
    <3>4. Lists(s, u, x) /\ Lists(t, v, x)
      BY <1>4, <1>6, <3>1, <3>3
    <3>5. u \cap v = {} /\ keep \cap (1 .. k + 1) = u \cup v
      BY <3>3
    <3>6. Lists(s \o t, u \cup v, x)
      BY <3>4, <3>5, ListsConcat
    <3> QED
      BY <3>2, <3>3, <3>5, <3>6
  <2> QED
    BY <2>1, <2>2
<1> HIDE DEF good
<1>7. n \in good
  BY <1>5, <1>6, NatInSet
<1>8. Lists(f[n], keep \cap (1 .. n), x) /\ keep \cap (1 .. n) = keep
  <2>1. n \in 1 .. n
    OBVIOUS
  <2> QED
    BY <1>7, <2>1 DEF good
<1> QED
  BY <1>2, <1>8

--------------------------------------------------------------------------------
(* Where the words of a register lie in memory *)

\* Division.
LEMMA Quotient ==
  ASSUME NEW b \in Nat, b > 0, NEW q \in Nat, NEW r \in 0 .. b - 1, NEW x, x = b * q + r
  PROVE  x \in Nat /\ x \div b = q
<1>1. x \in Nat
  OBVIOUS
<1>2. PICK d, e : d = x \div b /\ e = x % b
  OBVIOUS
<1>3. d \in Int /\ e \in 0 .. b - 1 /\ x = b * d + e
  BY <1>1, <1>2
<1>4. ~(d >= q + 1)
  <2> SUFFICES ASSUME d >= q + 1 PROVE FALSE
    OBVIOUS
  <2>1. b * d >= b * (q + 1)
    BY <1>3
  <2>2. b * (q + 1) = b * q + b
    OBVIOUS
  <2>3. b * q \in Int /\ b * d \in Int /\ b * (q + 1) \in Int
    BY <1>3
  <2> QED
    BY <1>3, <2>1, <2>2, <2>3
<1>5. ~(q >= d + 1)
  <2> SUFFICES ASSUME q >= d + 1 PROVE FALSE
    OBVIOUS
  <2>1. b * q >= b * (d + 1)
    BY <1>3
  <2>2. b * (d + 1) = b * d + b
    BY <1>3
  <2>3. b * q \in Int /\ b * d \in Int /\ b * (d + 1) \in Int
    BY <1>3
  <2> QED
    BY <1>3, <2>1, <2>2, <2>3
<1> QED
  BY <1>1, <1>2, <1>3, <1>4, <1>5

LEMMA Wraps ==
  ASSUME NEW m \in Nat, m > 0, NEW x \in 0 .. 2 * m - 1
  PROVE  x % m = IF x < m THEN x ELSE x - m
<1>1. CASE x < m
  BY <1>1
<1>2. CASE x >= m
  <2>1. x - m \in 0 .. m - 1
    BY <1>2
  <2> QED
    BY <1>2, <2>1
<1> QED
  BY <1>1, <1>2

\* n words of B bytes fit in A bytes, which are whole words.
Fits(A, B, n) ==
  /\ A \in Nat /\ A > 0 /\ B \in Nat /\ B > 0 /\ A % B = 0
  /\ n \in Nat /\ n * B <= A

WordAt(A, B, a, i) == (a + B * i) % A

\* The word of memory in which it lies.
Place(A, B, a, i) ==
  LET m == A \div B
      q == a \div B
  IN IF q + i < m THEN q + i ELSE q + i - m

LEMMA WordPlace ==
  ASSUME NEW A, NEW B, NEW n, Fits(A, B, n), NEW a \in 0 .. A - 1, NEW i \in 0 .. n - 1
  PROVE  /\ WordAt(A, B, a, i) \in 0 .. A - 1
         /\ WordAt(A, B, a, i) \div B = Place(A, B, a, i)
         /\ Place(A, B, a, i) \in 0 .. A \div B - 1
         /\ n <= A \div B /\ A \div B \in Nat /\ a \div B \in 0 .. A \div B - 1
<1>0. /\ A \in Nat /\ A > 0 /\ B \in Nat /\ B > 0 /\ A % B = 0
      /\ n \in Nat /\ n * B <= A
  BY DEF Fits
<1>1. PICK m, q, r : m = A \div B /\ q = a \div B /\ r = a % B
  OBVIOUS
<1>2. /\ m \in Nat /\ A = B * m /\ q \in Nat /\ r \in 0 .. B - 1 /\ a = B * q + r
  BY <1>0, <1>1
<1>3. n <= m
  <2> SUFFICES ASSUME n >= m + 1 PROVE FALSE
    BY <1>0, <1>2
  <2>1. B * n >= B * (m + 1) /\ B * (m + 1) = B * m + B
    BY <1>0, <1>2
  <2>2. B * n = n * B /\ B * n \in Int /\ B * m \in Int /\ B * (m + 1) \in Int
    BY <1>0, <1>2
  <2> QED
    BY <1>0, <1>2, <2>1, <2>2
<1>4. q < m
  <2> SUFFICES ASSUME q >= m PROVE FALSE
    BY <1>0, <1>2
  <2>1. B * q >= B * m /\ B * q \in Int /\ B * m \in Int
    BY <1>0, <1>2
  <2> QED
    BY <1>0, <1>2, <2>1
<1>5. PICK p : p = q + i
  OBVIOUS
<1>6. p \in Nat /\ p < 2 * m
  BY <1>0, <1>2, <1>3, <1>4, <1>5
<1>7. PICK x : x = a + B * i
  OBVIOUS
<1>8. x = B * p + r /\ x \in Nat
  BY <1>0, <1>2, <1>5, <1>7
<1>9. PICK c : c = IF p < m THEN p ELSE p - m
  OBVIOUS
<1>10. c \in 0 .. m - 1
  BY <1>0, <1>2, <1>6, <1>9
<1>11. x % A = B * c + r /\ B * c + r \in 0 .. A - 1
  <2>1. B * c + B <= B * m
    <3>1. B * c + B = B * (c + 1) /\ B * (c + 1) <= B * m
      BY <1>0, <1>2, <1>10
    <3> QED
      BY <1>0, <3>1
  <2>2. B * c \in Nat /\ B * m \in Nat
    BY <1>0, <1>2, <1>10
  <2>3. B * c + r \in 0 .. A - 1
    BY <1>0, <1>2, <2>1, <2>2
  <2>4. x = B * c + r \/ x = B * c + r + A
    <3>1. CASE p < m
      BY <1>0, <1>8, <1>9, <3>1
    <3>2. CASE ~(p < m)
      <4>1. B * p = B * c + B * m
        BY <1>0, <1>2, <1>6, <1>9, <3>2
      <4> QED
        BY <1>0, <1>2, <1>8, <4>1, <2>2
    <3> QED
      BY <1>0, <3>1, <3>2
  <2>5. PICK y : y = B * c + r
    OBVIOUS
  <2>6. x \in 0 .. 2 * A - 1 /\ y \in 0 .. A - 1 /\ (x = y \/ x = y + A)
    BY <1>0, <2>3, <2>4, <2>5
  <2>7. x % A = y
    BY <1>0, <2>6, Wraps
  <2> QED
    BY <1>0, <2>3, <2>5, <2>7
<1>12. PICK y : y = x % A
  OBVIOUS
<1>13. y \div B = c /\ y \in 0 .. A - 1
  BY <1>0, <1>2, <1>10, <1>11, <1>12, Quotient
<1>14. y = WordAt(A, B, a, i)
  BY <1>7, <1>12 DEF WordAt
<1>15. q \in 0 .. m - 1 /\ c = Place(A, B, a, i)
  <2>1. Place(A, B, a, i) = IF q + i < m THEN q + i ELSE q + i - m
    BY <1>1, Zenon DEF Place
  <2> QED
    BY <1>2, <1>4, <1>5, <1>9, <2>1
<1> QED
  BY <1>1, <1>2, <1>3, <1>10, <1>13, <1>14, <1>15

\* The words of a register lie in different words of memory.
LEMMA WordsApart ==
  ASSUME NEW A, NEW B, NEW n, Fits(A, B, n), NEW a \in 0 .. A - 1,
         NEW i \in 0 .. n - 1, NEW j \in 0 .. n - 1,
         WordAt(A, B, a, i) \div B = WordAt(A, B, a, j) \div B
  PROVE  i = j
<1>1. /\ n <= A \div B /\ A \div B \in Nat /\ a \div B \in 0 .. A \div B - 1
      /\ WordAt(A, B, a, i) \div B = Place(A, B, a, i)
      /\ WordAt(A, B, a, j) \div B = Place(A, B, a, j)
  BY WordPlace
<1>2. Place(A, B, a, i) = Place(A, B, a, j) /\ n \in Nat
  BY <1>1 DEF Fits
<1>3. PICK m, q : m = A \div B /\ q = a \div B
  OBVIOUS
<1>4. (IF q + i < m THEN q + i ELSE q + i - m) = (IF q + j < m THEN q + j ELSE q + j - m)
  BY <1>2, <1>3 DEF Place
<1> QED
  BY <1>1, <1>2, <1>3, <1>4

--------------------------------------------------------------------------------
(* What is told of registers and flags *)

CoreFlags == {1, 2, 4}

\* The entries lead from registers g and flags f to h and u.
Tells(chs, regs, g, h, f, u) ==
  /\ \A r \in regs : Replays(chs, "GPR", {r}, g[r], h[r])
  /\ \A x \in CoreFlags : Replays(chs, "FLAG", {x}, f[x], u[x])

LEMMA TellsConcat ==
  ASSUME NEW s, NEW t, IsSeq(s), IsSeq(t), NEW regs,
         NEW g, NEW h, NEW i, NEW f, NEW u, NEW v,
         Tells(s, regs, g, h, f, u), Tells(t, regs, h, i, u, v)
  PROVE  Tells(s \o t, regs, g, i, f, v)
<1>1. ASSUME NEW r \in regs PROVE Replays(s \o t, "GPR", {r}, g[r], i[r])
  <2>1. PICK x, y, z : x = g[r] /\ y = h[r] /\ z = i[r]
    OBVIOUS
  <2>2. Replays(s, "GPR", {r}, x, y) /\ Replays(t, "GPR", {r}, y, z)
    BY <2>1 DEF Tells
  <2> QED
    BY <2>1, <2>2, ReplaysConcat
<1>2. ASSUME NEW r \in CoreFlags PROVE Replays(s \o t, "FLAG", {r}, f[r], v[r])
  <2>1. PICK x, y, z : x = f[r] /\ y = u[r] /\ z = v[r]
    OBVIOUS
  <2>2. Replays(s, "FLAG", {r}, x, y) /\ Replays(t, "FLAG", {r}, y, z)
    BY <2>1 DEF Tells
  <2> QED
    BY <2>1, <2>2, ReplaysConcat
<1> QED
  BY <1>1, <1>2 DEF Tells

\* No entry about a register or flag.
LEMMA TellsNothing ==
  ASSUME NEW s, NEW regs, NEW g, NEW f,
         \A k \in DOMAIN s : s[k].kind \notin {"GPR", "FLAG"}
  PROVE  Tells(s, regs, g, g, f, f)
<1>1. \A objs : Concerning(s, "GPR", objs) = {} /\ Concerning(s, "FLAG", objs) = {}
  BY DEF Concerning
<1> QED
  BY <1>1, ReplaysNone DEF Tells

\* No register is in two entries.
Once(chs) == \A r : \A j, k \in Concerning(chs, "GPR", {r}) : j = k

LEMMA OnceConcat ==
  ASSUME NEW s, NEW t, IsSeq(s), IsSeq(t), Once(s), Once(t),
         \A r : Concerning(s, "GPR", {r}) = {} \/ Concerning(t, "GPR", {r}) = {}
  PROVE  Once(s \o t)
<1> SUFFICES ASSUME NEW r, NEW j \in Concerning(s \o t, "GPR", {r}),
                    NEW k \in Concerning(s \o t, "GPR", {r})
             PROVE  j = k
  BY DEF Once
<1>1. PICK objs, ks, kt, kq : /\ objs = {r} /\ ks = Concerning(s, "GPR", objs)
                              /\ kt = Concerning(t, "GPR", objs)
                              /\ kq = Concerning(s \o t, "GPR", objs)
  OBVIOUS
<1>2. /\ \A i \in 1 .. Len(s) : i \in kq <=> i \in ks
      /\ \A i \in 1 .. Len(t) : Len(s) + i \in kq <=> i \in kt
      /\ \A i \in kq : i \in 1 .. Len(s) \/ \E l \in 1 .. Len(t) : i = Len(s) + l
  BY <1>1, ConcerningConcat
<1>3. /\ \A h, i \in ks : h = i
      /\ \A h, i \in kt : h = i
      /\ ks = {} \/ kt = {}
  BY <1>1 DEF Once
<1>4. j \in kq /\ k \in kq
  BY <1>1
<1> QED
  BY <1>2, <1>3, <1>4

--------------------------------------------------------------------------------
(* What is told of memory *)

\* The entries tell what became of the words m: addrs gives the addresses of each; those in
\* ext belong to an external memory, at those in out the core writes to one.  A word of a
\* store has one entry.
MemTells(chs, cells, addrs, ext, out, m, u) ==
  /\ \A c \in cells \ ext : Replays(chs, "MEM", addrs[c], m[c], u[c])
  /\ \A c \in cells :
       LET ks == Concerning(chs, "MEM", addrs[c] \cap out)
       IN \/ ks = {} /\ (c \in ext => u[c] = m[c])
          \/ \E j \in Nat : ks = {j} /\ chs[j].new = u[c]

LEMMA MemTellsNothing ==
  ASSUME NEW s, NEW cells, NEW addrs, NEW ext, NEW out, NEW m,
         \A c \in cells \ ext : Concerning(s, "MEM", addrs[c]) = {},
         \A c \in cells : Concerning(s, "MEM", addrs[c] \cap out) = {}
  PROVE  MemTells(s, cells, addrs, ext, out, m, m)
<1>1. ASSUME NEW c \in cells \ ext PROVE Replays(s, "MEM", addrs[c], m[c], m[c])
  <2>1. PICK objs, v : objs = addrs[c] /\ v = m[c]
    OBVIOUS
  <2>2. Concerning(s, "MEM", objs) = {}
    BY <2>1
  <2> QED
    BY <2>1, <2>2, ReplaysNone
<1> QED
  BY <1>1 DEF MemTells

\* Entries about memory only.
LEMMA ListsMemory ==
  ASSUME NEW s, NEW keep, NEW x, Lists(s, keep, x), \A k \in keep : x[k].kind = "MEM"
  PROVE  \A objs : Concerning(s, "GPR", objs) = {} /\ Concerning(s, "FLAG", objs) = {}
  BY DEF Lists, Touching

\* The words wc[k] with k in keep are written, each with the entry x[k].
Written(keep, x, wc, cells, addrs, ext, out, m, u) ==
  /\ \A k \in keep : x[k].kind = "MEM" /\ wc[k] \in cells
  /\ \A k \in keep : \A c \in cells : x[k].obj \in addrs[c] <=> wc[k] = c
  /\ \A j, k \in keep : wc[j] = wc[k] => j = k
  /\ \A k \in keep : x[k].obj \in out <=> wc[k] \in ext
  /\ \A k \in keep : x[k].obj \notin out => x[k].old = m[wc[k]]
  /\ \A k \in keep : x[k].new = u[wc[k]]
  /\ \A c \in cells : (\A k \in keep : wc[k] # c) => u[c] = m[c]

LEMMA ListsTell ==
  ASSUME NEW s, NEW keep, NEW x, Lists(s, keep, x),
         NEW cells, NEW addrs, NEW ext, NEW out, NEW m, NEW u, NEW wc,
         Written(keep, x, wc, cells, addrs, ext, out, m, u)
  PROVE  MemTells(s, cells, addrs, ext, out, m, u)
<1>0. /\ \A k \in keep : x[k].kind = "MEM" /\ wc[k] \in cells
      /\ \A k \in keep : \A c \in cells : x[k].obj \in addrs[c] <=> wc[k] = c
      /\ \A j, k \in keep : wc[j] = wc[k] => j = k
      /\ \A k \in keep : x[k].obj \in out <=> wc[k] \in ext
      /\ \A k \in keep : x[k].obj \notin out => x[k].old = m[wc[k]]
      /\ \A k \in keep : x[k].new = u[wc[k]]
      /\ \A c \in cells : (\A k \in keep : wc[k] # c) => u[c] = m[c]
  BY DEF Written
<1>1. ASSUME NEW c \in cells \ ext PROVE Replays(s, "MEM", addrs[c], m[c], u[c])
  <2>0. PICK objs, y, z : objs = addrs[c] /\ y = m[c] /\ z = u[c]
    OBVIOUS
  <2>1. CASE \A k \in keep : wc[k] # c
    <3>1. Touching(keep, x, "MEM", objs) = {}
      BY <1>0, <2>0, <2>1 DEF Touching
    <3>2. Concerning(s, "MEM", objs) = {} /\ z = y
      BY <1>0, <2>0, <2>1, <3>1 DEF Lists
    <3> QED
      BY <1>0, <2>0, <3>2, ReplaysNone
  <2>2. ASSUME NEW k \in keep, wc[k] = c PROVE Replays(s, "MEM", addrs[c], m[c], u[c])
    <3>1. Touching(keep, x, "MEM", objs) = {k}
      BY <1>0, <2>0, <2>2 DEF Touching
    <3>2. Sole(s, "MEM", objs, x[k])
      BY <3>1 DEF Lists
    <3>3. PICK j \in DOMAIN s : j \in Nat /\ Concerning(s, "MEM", objs) = {j} /\ s[j] = x[k]
      BY <3>2 DEF Sole
    <3>4. s[j].old = y /\ s[j].new = z
      BY <1>0, <2>0, <2>2, <3>3
    <3>5. Replays(s, "MEM", objs, s[j].old, s[j].new)
      BY <3>3, ReplaysSole
    <3> QED
      BY <1>0, <2>0, <3>4, <3>5
  <2> QED
    BY <1>0, <2>1, <2>2
<1>2. ASSUME NEW c \in cells
      PROVE  LET ks == Concerning(s, "MEM", addrs[c] \cap out)
             IN \/ ks = {} /\ (c \in ext => u[c] = m[c])
                \/ \E j \in Nat : ks = {j} /\ s[j].new = u[c]
  <2>0. PICK objs, ks : objs = addrs[c] \cap out /\ ks = Concerning(s, "MEM", objs)
    OBVIOUS
  <2>1. CASE \A k \in keep : wc[k] = c => c \notin ext
    <3>1. Touching(keep, x, "MEM", objs) = {}
      BY <1>0, <2>0, <2>1 DEF Touching
    <3>2. ks = {}
      BY <1>0, <2>0, <3>1 DEF Lists
    <3>3. c \in ext => u[c] = m[c]
      BY <1>0, <2>1
    <3> QED
      BY <1>0, <2>0, <3>2, <3>3
  <2>2. ASSUME NEW k \in keep, wc[k] = c, c \in ext
        PROVE  \E j \in Nat : ks = {j} /\ s[j].new = u[c]
    <3>1. Touching(keep, x, "MEM", objs) = {k}
      BY <1>0, <2>0, <2>2 DEF Touching
    <3>2. Sole(s, "MEM", objs, x[k])
      BY <3>1 DEF Lists
    <3>3. PICK j \in DOMAIN s : j \in Nat /\ Concerning(s, "MEM", objs) = {j} /\ s[j] = x[k]
      BY <3>2 DEF Sole
    <3>4. ks = {j} /\ s[j].new = u[c]
      BY <1>0, <2>0, <2>2, <3>3
    <3> QED
      BY <3>3, <3>4
  <2> QED
    BY <1>0, <2>0, <2>1, <2>2
<1> QED
  BY <1>1, <1>2 DEF MemTells

--------------------------------------------------------------------------------
(* What is told of registers and flags *)

LEMMA EntryFields ==
  ASSUME NEW kind, NEW obj, NEW old, NEW new
  PROVE  LET e == Alu!Entry(kind, obj, old, new)
         IN e.kind = kind /\ e.obj = obj /\ e.old = old /\ e.new = new
  BY DEF Alu!Entry

LEMMA TellsGpr ==
  ASSUME NEW regs, NEW r \in regs, NEW g, NEW h, NEW f, NEW v,
         h = [g EXCEPT ![r] = v], g = [x \in regs |-> g[x]]
  PROVE  Tells(<<Alu!Entry("GPR", r, g[r], v)>>, regs, g, h, f, f)
<1>1. PICK e : e = Alu!Entry("GPR", r, g[r], v)
  OBVIOUS
<1>2. e.kind = "GPR" /\ e.obj = r /\ e.old = g[r] /\ e.new = v
  BY <1>1, EntryFields
<1>3. h[r] = v /\ \A x \in regs : x # r => h[x] = g[x]
  OBVIOUS
<1>4. ASSUME NEW x \in regs PROVE Replays(<<e>>, "GPR", {x}, g[x], h[x])
  <2>1. IF e.kind = "GPR" /\ e.obj \in {x} THEN e.old = g[x] /\ e.new = h[x] ELSE h[x] = g[x]
    BY <1>2, <1>3
  <2> QED
    BY <2>1, ReplaysEntry
<1>5. ASSUME NEW x \in CoreFlags PROVE Replays(<<e>>, "FLAG", {x}, f[x], f[x])
  <2>1. ~(e.kind = "FLAG" /\ e.obj \in {x})
    BY <1>2
  <2> QED
    BY <2>1, ReplaysEntry
<1> QED
  BY <1>1, <1>4, <1>5 DEF Tells

LEMMA TellsFlag ==
  ASSUME NEW regs, NEW x \in CoreFlags, NEW g, NEW f, NEW u, NEW v,
         u = [f EXCEPT ![x] = v], f = [y \in CoreFlags |-> f[y]]
  PROVE  Tells(<<Alu!Entry("FLAG", x, f[x], v)>>, regs, g, g, f, u)
<1>1. PICK e : e = Alu!Entry("FLAG", x, f[x], v)
  OBVIOUS
<1>2. e.kind = "FLAG" /\ e.obj = x /\ e.old = f[x] /\ e.new = v
  BY <1>1, EntryFields
<1>3. u[x] = v /\ \A y \in CoreFlags : y # x => u[y] = f[y]
  OBVIOUS
<1>4. ASSUME NEW y \in CoreFlags PROVE Replays(<<e>>, "FLAG", {y}, f[y], u[y])
  <2>1. IF e.kind = "FLAG" /\ e.obj \in {y} THEN e.old = f[y] /\ e.new = u[y] ELSE u[y] = f[y]
    BY <1>2, <1>3
  <2> QED
    BY <2>1, ReplaysEntry
<1>5. ASSUME NEW y \in regs PROVE Replays(<<e>>, "GPR", {y}, g[y], g[y])
  <2>1. ~(e.kind = "GPR" /\ e.obj \in {y})
    BY <1>2
  <2> QED
    BY <2>1, ReplaysEntry
<1> QED
  BY <1>1, <1>4, <1>5 DEF Tells

--------------------------------------------------------------------------------
(* Steps.  What a step appends to the queue, and what follows for the parts; the       *)
(* operators of one part that mention no constant serve for all.                       *)

Shape(regs, cells) ==
  /\ gpr = [r \in regs |-> gpr[r]]
  /\ flags = [x \in CoreFlags |-> flags[x]]
  /\ memory = [c \in cells |-> memory[c]]
  /\ IsSeq(changes)

RegsTold(regs) == changeReporting => Tells(Alu!NewEntries, regs, gpr, gpr', flags, flags')
MemoryQuiet == memory' = memory /\ (changeReporting => NoMemory1(Alu!NewEntries))
StepTells(regs, cells) == RegsTold(regs) /\ MemoryQuiet /\ Shape(regs, cells)'

LEMMA NewOfConcat ==
  ASSUME NEW c, NEW s, IsSeq(c), IsSeq(s)
  PROVE  SubSeq(c \o s, Len(c) + 1, Len(c \o s)) = s
<1>1. PICK q : q = c \o s
  OBVIOUS
<1>2. PICK S : q \in Seq(S)
  BY <1>1, ConcatSeqs DEF IsSeq
<1>3. PICK T : s \in Seq(T)
  BY DEF IsSeq
<1>4. /\ Len(q) = Len(c) + Len(s) /\ Len(c) \in Nat /\ Len(s) \in Nat
      /\ \A k \in 1 .. Len(s) : q[Len(c) + k] = s[k]
  BY <1>1, ConcatSeqs
<1>5. PICK u, a, b : u = SubSeq(q, a, b) /\ a = Len(c) + 1 /\ b = Len(q)
  OBVIOUS
<1>6. /\ u \in Seq(S) /\ Len(u) = (IF a <= b THEN b - a + 1 ELSE 0)
      /\ \A k \in 1 .. b - a + 1 : u[k] = q[a + k - 1]
  <2>1. a \in Int /\ b \in Int /\ \A k \in a .. b : q[k] \in S
    BY <1>2, <1>4, <1>5
  <2> QED
    BY <1>5, <2>1, SubSeqProperties
<1>7. Len(u) = Len(s)
  BY <1>4, <1>5, <1>6
<1>8. ASSUME NEW k \in 1 .. Len(s) PROVE u[k] = s[k]
  <2>1. k \in 1 .. b - a + 1 /\ a + k - 1 = Len(c) + k
    BY <1>4, <1>5
  <2> QED
    BY <1>4, <1>6, <2>1
<1>9. u = s
  <2>1. u \in Seq(S \cup T) /\ s \in Seq(S \cup T)
    BY <1>3, <1>6
  <2> QED
    BY <1>7, <1>8, <2>1, SeqEqual
<1> QED
  BY <1>1, <1>5, <1>9

\* A step that reports chs appends them, or nothing.
LEMMA Reported ==
  ASSUME IsSeq(changes), NEW chs, IsSeq(chs), Alu!ReportChanges(chs)
  PROVE  IsSeq(changes') /\ (changeReporting => Alu!NewEntries = chs)
<1>1. CASE changeReporting
  <2>1. changes' = changes \o chs
    BY <1>1 DEF Alu!ReportChanges
  <2> QED
    BY <2>1, ConcatSeqs, NewOfConcat DEF Alu!NewEntries
<1>2. CASE ~changeReporting
  BY <1>2 DEF Alu!ReportChanges
<1> QED
  BY <1>1, <1>2

\* An instruction that stores registers g and flags fl and tells so.
LEMMA Retires ==
  ASSUME NEW regs, NEW cells, Shape(regs, cells), NEW g, NEW fl, NEW chs,
         gpr' = g, flags' = fl, memory' = memory, Alu!ReportChanges(chs),
         g = [r \in regs |-> g[r]], fl = [x \in CoreFlags |-> fl[x]],
         IsSeq(chs), NoMemory1(chs), Tells(chs, regs, gpr, g, flags, fl)
  PROVE  StepTells(regs, cells)
<1>1. IsSeq(changes') /\ (changeReporting => Alu!NewEntries = chs)
  BY Reported DEF Shape
<1>2. Shape(regs, cells)'
  BY <1>1 DEF Shape
<1> QED
  BY <1>1, <1>2 DEF StepTells, RegsTold, MemoryQuiet

LEMMA NothingNew ==
  ASSUME IsSeq(changes), changes' = changes \/ (changes # <<>> /\ changes' = Tail(changes))
  PROVE  IsSeq(changes') /\ Alu!NewEntries = <<>>
<1>1. PICK S : changes \in Seq(S)
  BY DEF IsSeq
<1>2. changes' \in Seq(S) /\ Len(changes') <= Len(changes)
  BY <1>1
<1> QED
  BY <1>1, <1>2 DEF Alu!NewEntries, IsSeq

\* A step that leaves all of this alone.
LEMMA NothingToTell ==
  ASSUME NEW regs, NEW cells, Shape(regs, cells),
         gpr' = gpr, flags' = flags, memory' = memory,
         changes' = changes \/ (changes # <<>> /\ changes' = Tail(changes))
  PROVE  StepTells(regs, cells)
<1>2. IsSeq(changes') /\ Alu!NewEntries = <<>>
  BY NothingNew DEF Shape
<1>3. Alu!NewEntries = <<>>
  BY <1>2
<1>4. \A k \in DOMAIN Alu!NewEntries : FALSE
  BY <1>3
<1>5. Tells(Alu!NewEntries, regs, gpr, gpr, flags, flags)
  BY <1>4, TellsNothing
<1>6. NoMemory1(Alu!NewEntries)
  BY <1>4 DEF NoMemory1
<1>7. Shape(regs, cells)'
  BY <1>2 DEF Shape
<1> QED
  BY <1>5, <1>6, <1>7 DEF StepTells, RegsTold, MemoryQuiet

LEMMA GprEntryIs ==
  ASSUME NEW r, NEW g
  PROVE  /\ Alu!GprEntry(r, g) = <<Alu!Entry("GPR", r, gpr[r], g[r])>>
         /\ IsSeq(Alu!GprEntry(r, g)) /\ NoMemory1(Alu!GprEntry(r, g))
<1>1. PICK e : e = Alu!Entry("GPR", r, gpr[r], g[r])
  OBVIOUS
<1>2. e.kind = "GPR"
  BY <1>1, EntryFields
<1>3. IsSeq(<<e>>) /\ NoMemory1(<<e>>)
  BY <1>2, OneEntry DEF NoMemory1
<1> QED
  BY <1>1, <1>3 DEF Alu!GprEntry

LEMMA FlagEntryIs ==
  ASSUME NEW f, NEW fl
  PROVE  /\ Alu!FlagEntry(f, fl) = <<Alu!Entry("FLAG", f, flags[f], fl[f])>>
         /\ IsSeq(Alu!FlagEntry(f, fl)) /\ NoMemory1(Alu!FlagEntry(f, fl))
<1>1. PICK e : e = Alu!Entry("FLAG", f, flags[f], fl[f])
  OBVIOUS
<1>2. e.kind = "FLAG"
  BY <1>1, EntryFields
<1>3. IsSeq(<<e>>) /\ NoMemory1(<<e>>)
  BY <1>2, OneEntry DEF NoMemory1
<1> QED
  BY <1>1, <1>3 DEF Alu!FlagEntry

\* The entry of a register that is stored, and of a flag.
LEMMA GprEntryTells ==
  ASSUME NEW regs, gpr = [x \in regs |-> gpr[x]], NEW r \in regs, NEW v, NEW f
  PROVE  /\ Alu!SetGpr(r, v) = [x \in regs |-> Alu!SetGpr(r, v)[x]]
         /\ Tells(Alu!GprEntry(r, Alu!SetGpr(r, v)), regs, gpr, Alu!SetGpr(r, v), f, f)
<1>1. PICK g : g = [gpr EXCEPT ![r] = v]
  OBVIOUS
<1>2. g[r] = v /\ g = [x \in regs |-> g[x]]
  BY <1>1
<1>3. Tells(<<Alu!Entry("GPR", r, gpr[r], v)>>, regs, gpr, g, f, f)
  BY <1>1, TellsGpr
<1> QED
  BY <1>1, <1>2, <1>3, GprEntryIs DEF Alu!SetGpr

LEMMA FlagEntryTells ==
  ASSUME NEW regs, flags = [x \in CoreFlags |-> flags[x]], NEW f \in CoreFlags, NEW cond, NEW g
  PROVE  LET fl == Alu!SetCpuFlag(f, cond)
         IN /\ fl = [x \in CoreFlags |-> fl[x]]
            /\ Tells(Alu!FlagEntry(f, fl), regs, g, g, flags, fl)
<1>1. PICK v, fl : v = (IF cond THEN 1 ELSE 0) /\ fl = [flags EXCEPT ![f] = v]
  OBVIOUS
<1>2. fl[f] = v /\ fl = [x \in CoreFlags |-> fl[x]]
  BY <1>1
<1>3. Tells(<<Alu!Entry("FLAG", f, flags[f], v)>>, regs, g, g, flags, fl)
  BY <1>1, TellsFlag
<1>4. fl = Alu!SetCpuFlag(f, cond)
  BY <1>1 DEF Alu!SetCpuFlag
<1> QED
  BY <1>2, <1>3, <1>4, FlagEntryIs

\* The entries of two registers, which are the same only if nothing happens to it.
LEMMA PairTells ==
  ASSUME NEW regs, gpr = [x \in regs |-> gpr[x]], NEW r \in regs, NEW s \in regs, NEW f,
         NEW g, g = [x \in regs |-> g[x]],
         \A x \in regs : x \notin {r, s} => g[x] = gpr[x],
         r = s => g[r] = gpr[r]
  PROVE  Tells(Alu!GprEntry(r, g) \o Alu!GprEntry(s, g), regs, gpr, g, f, f)
<1>1. PICK v, w, h : v = g[r] /\ w = g[s] /\ h = [gpr EXCEPT ![r] = v]
  OBVIOUS
<1>2. /\ h = [x \in regs |-> h[x]] /\ h[s] = gpr[s]
      /\ \A x \in regs : x # s => h[x] = g[x]
  BY <1>1
<1>3. g = [h EXCEPT ![s] = w]
  <2>1. PICK i : i = [h EXCEPT ![s] = w]
    OBVIOUS
  <2>2. i = [x \in regs |-> i[x]] /\ \A x \in regs : i[x] = g[x]
    BY <1>1, <1>2, <2>1
  <2> QED
    BY <2>1, <2>2
<1>4. Tells(<<Alu!Entry("GPR", r, gpr[r], v)>>, regs, gpr, h, f, f)
  BY <1>1, TellsGpr
<1>5. Tells(<<Alu!Entry("GPR", s, h[s], w)>>, regs, h, g, f, f)
  BY <1>2, <1>3, TellsGpr
<1>6. /\ Tells(Alu!GprEntry(r, g), regs, gpr, h, f, f)
      /\ Tells(Alu!GprEntry(s, g), regs, h, g, f, f)
      /\ IsSeq(Alu!GprEntry(r, g)) /\ IsSeq(Alu!GprEntry(s, g))
  BY <1>1, <1>2, <1>4, <1>5, GprEntryIs
<1> QED
  BY <1>6, TellsConcat

LEMMA SetGpr2Is ==
  ASSUME NEW regs, gpr = [x \in regs |-> gpr[x]], NEW r \in regs, NEW s \in regs, NEW v, NEW w,
         NEW g, g = Alu!SetGpr2(r, v, s, w)
  PROVE  /\ g = [x \in regs |-> g[x]]
         /\ g[s] = w /\ (r # s => g[r] = v)
         /\ \A x \in regs : x \notin {r, s} => g[x] = gpr[x]
<1>1. PICK h : h = [gpr EXCEPT ![r] = v]
  OBVIOUS
<1>2. PICK i : i = [h EXCEPT ![s] = w]
  OBVIOUS
<1>3. g = i
  BY <1>1, <1>2, Zenon DEF Alu!SetGpr2
<1>4. h = [x \in regs |-> h[x]] /\ h[r] = v /\ \A x \in regs : x # r => h[x] = gpr[x]
  BY <1>1
<1>5. i = [x \in regs |-> i[x]] /\ i[s] = w /\ \A x \in regs : x # s => i[x] = h[x]
  BY <1>2, <1>4
<1> QED
  BY <1>3, <1>4, <1>5

LEMMA NextRegister ==
  ASSUME NEW n \in Nat, n >= 2, NEW r \in 0 .. n - 1
  PROVE  (r + 1) % n \in 0 .. n - 1 /\ (r + 1) % n # r
<1>1. CASE r + 1 < n
  <2>1. (r + 1) % n = r + 1
    BY <1>1
  <2> QED
    BY <1>1, <2>1
<1>2. CASE r + 1 = n
  <2>1. (r + 1) % n = 0
    BY <1>2
  <2> QED
    BY <1>2, <2>1
<1> QED
  BY <1>1, <1>2

\* The ways in which most instructions end.
LEMMA StoredGprTells ==
  ASSUME NEW regs, NEW cells, Shape(regs, cells), NEW r \in regs, NEW v,
         gpr' = Alu!SetGpr(r, v), flags' = flags, memory' = memory,
         Alu!ReportChanges(Alu!GprEntry(r, gpr'))
  PROVE  StepTells(regs, cells)
<1>1. PICK g : g = Alu!SetGpr(r, v)
  OBVIOUS
<1>2. gpr' = g /\ Alu!ReportChanges(Alu!GprEntry(r, g))
  BY <1>1, Zenon
<1>3. /\ gpr = [x \in regs |-> gpr[x]] /\ flags = [x \in CoreFlags |-> flags[x]]
  BY DEF Shape
<1>4. /\ g = [x \in regs |-> g[x]]
      /\ Tells(Alu!GprEntry(r, g), regs, gpr, g, flags, flags)
  BY <1>1, <1>3, GprEntryTells
<1> QED
  BY <1>2, <1>3, <1>4, GprEntryIs, Retires

LEMMA PutGprTells ==
  ASSUME NEW regs, NEW cells, Shape(regs, cells), NEW r \in regs, NEW v, Alu!PutGpr(r, v)
  PROVE  StepTells(regs, cells)
<1>1. gpr' = Alu!SetGpr(r, v) /\ flags' = flags /\ memory' = memory
  BY DEF Alu!PutGpr, Alu!Retire
<1>2. Alu!ReportChanges(Alu!GprEntry(r, gpr'))
  BY Zenon DEF Alu!PutGpr, Alu!Retire
<1> QED
  BY <1>1, <1>2, StoredGprTells

LEMMA PutFlagTells ==
  ASSUME NEW regs, NEW cells, Shape(regs, cells), NEW f \in CoreFlags, NEW c, Alu!PutFlag(f, c)
  PROVE  StepTells(regs, cells)
<1>1. PICK fl : fl = Alu!SetCpuFlag(f, c)
  OBVIOUS
<1>2. /\ gpr' = gpr /\ flags' = fl /\ memory' = memory
      /\ Alu!ReportChanges(Alu!FlagEntry(f, fl))
  BY <1>1 DEF Alu!PutFlag, Alu!Retire
<1>3. /\ gpr = [x \in regs |-> gpr[x]] /\ flags = [x \in CoreFlags |-> flags[x]]
  BY DEF Shape
<1>4. /\ fl = [x \in CoreFlags |-> fl[x]]
      /\ Tells(Alu!FlagEntry(f, fl), regs, gpr, gpr, flags, fl)
  BY <1>1, <1>3, FlagEntryTells
<1> QED
  BY <1>2, <1>3, <1>4, FlagEntryIs, Retires

LEMMA PutBothTells ==
  ASSUME NEW regs, NEW cells, Shape(regs, cells), NEW r \in regs, NEW v,
         NEW f \in CoreFlags, NEW c, Alu!PutBoth(r, v, f, c)
  PROVE  StepTells(regs, cells)
<1>1. PICK g, fl : g = Alu!SetGpr(r, v) /\ fl = Alu!SetCpuFlag(f, c)
  OBVIOUS
<1>2. PICK s, t : s = Alu!GprEntry(r, g) /\ t = Alu!FlagEntry(f, fl)
  OBVIOUS
<1>3. /\ gpr' = g /\ flags' = fl /\ memory' = memory /\ Alu!ReportChanges(s \o t)
  BY <1>1, <1>2 DEF Alu!PutBoth, Alu!Retire
<1>4. /\ gpr = [x \in regs |-> gpr[x]] /\ flags = [x \in CoreFlags |-> flags[x]]
  BY DEF Shape
<1>5. /\ g = [x \in regs |-> g[x]] /\ fl = [x \in CoreFlags |-> fl[x]]
      /\ Tells(s, regs, gpr, g, flags, flags) /\ Tells(t, regs, g, g, flags, fl)
  BY <1>1, <1>2, <1>4, GprEntryTells, FlagEntryTells
<1>6. IsSeq(s) /\ IsSeq(t) /\ NoMemory1(s) /\ NoMemory1(t)
  BY <1>2, GprEntryIs, FlagEntryIs
<1>7. IsSeq(s \o t) /\ NoMemory1(s \o t) /\ Tells(s \o t, regs, gpr, g, flags, fl)
  BY <1>5, <1>6, ConcatSeqs, NoMemoryConcat, TellsConcat
<1> QED
  BY <1>3, <1>4, <1>5, <1>7, Retires

\* Two registers are stored and reported, r before s.
LEMMA PutTwoTells ==
  ASSUME NEW regs, NEW cells, Shape(regs, cells), NEW r \in regs, NEW s \in regs,
         NEW g, g = [x \in regs |-> g[x]],
         \A x \in regs : x \notin {r, s} => g[x] = gpr[x],
         r = s => g[r] = gpr[r],
         gpr' = g, flags' = flags, memory' = memory,
         Alu!ReportChanges(Alu!GprEntry(r, g) \o Alu!GprEntry(s, g))
  PROVE  StepTells(regs, cells)
<1>1. PICK t, u : t = Alu!GprEntry(r, g) /\ u = Alu!GprEntry(s, g)
  OBVIOUS
<1>2. /\ gpr = [x \in regs |-> gpr[x]] /\ flags = [x \in CoreFlags |-> flags[x]]
  BY DEF Shape
<1>3. IsSeq(t) /\ IsSeq(u) /\ NoMemory1(t) /\ NoMemory1(u)
  BY <1>1, GprEntryIs
<1>4. Tells(t \o u, regs, gpr, g, flags, flags)
  BY <1>1, <1>2, PairTells
<1>5. IsSeq(t \o u) /\ NoMemory1(t \o u)
  BY <1>3, ConcatSeqs, NoMemoryConcat
<1> QED
  BY <1>1, <1>2, <1>4, <1>5, Retires

--------------------------------------------------------------------------------
(* Loads and stores *)

LEMMA SameFlatten ==
  ASSUME NEW s
  PROVE  Memory!FlattenSeq(s) = FlattenSeq(s) /\ V1!FlattenSeq(s) = FlattenSeq(s)
  BY DEF Memory!FlattenSeq, V1!FlattenSeq, FlattenSeq

MemTold(cells, addrs, ext, out) ==
  changeReporting => MemTells(Alu!NewEntries, cells, addrs, ext, out, memory, memory')

LEMMA ReportedOnce ==
  ASSUME IsSeq(changes), NEW chs, IsSeq(chs), Once(chs), Alu!ReportChanges(chs)
  PROVE  Once(Alu!NewEntries)
<1>1. CASE changeReporting
  BY <1>1, Reported
<1>2. CASE ~changeReporting
  <2>1. changes' = changes
    BY <1>2 DEF Alu!ReportChanges
  <2>2. Alu!NewEntries = <<>>
    BY <2>1, NothingNew
  <2> QED
    BY <2>2, NoEntries DEF Once
<1> QED
  BY <1>1, <1>2

LEMMA QuietMemory ==
  ASSUME MemoryQuiet, NEW cells, NEW addrs, NEW ext, NEW out
  PROVE  MemTold(cells, addrs, ext, out)
<1>1. ASSUME changeReporting, NEW objs PROVE Concerning(Alu!NewEntries, "MEM", objs) = {}
  BY <1>1 DEF MemoryQuiet, NoMemory1, Concerning
<1>2. CASE changeReporting
  <2>1. PICK s : s = Alu!NewEntries
    OBVIOUS
  <2>2. \A objs : Concerning(s, "MEM", objs) = {}
    BY <1>1, <1>2, <2>1
  <2>3. MemTells(s, cells, addrs, ext, out, memory, memory)
    BY <2>2, MemTellsNothing
  <2> QED
    BY <2>1, <2>3 DEF MemTold, MemoryQuiet
<1> QED
  BY <1>2 DEF MemTold

\* A step that appends entries about memory, none about a register or flag.
LEMMA MemoryReports ==
  ASSUME NEW regs, NEW cells, Shape(regs, cells), NEW addrs, NEW ext, NEW out,
         NEW s, NEW keep, NEW x, Lists(s, keep, x), \A k \in keep : x[k].kind = "MEM",
         gpr' = gpr, flags' = flags, Alu!ReportChanges(s),
         memory' = [c \in cells |-> memory'[c]],
         MemTells(s, cells, addrs, ext, out, memory, memory')
  PROVE  /\ RegsTold(regs) /\ MemTold(cells, addrs, ext, out) /\ Shape(regs, cells)'
         /\ Once(Alu!NewEntries)
<1>1. IsSeq(s) /\ \A objs : Concerning(s, "GPR", objs) = {} /\ Concerning(s, "FLAG", objs) = {}
  <2>1. IsSeq(s)
    BY DEF Lists
  <2>2. \A objs : Concerning(s, "GPR", objs) = {} /\ Concerning(s, "FLAG", objs) = {}
    BY ListsMemory, Zenon
  <2> QED
    BY <2>1, <2>2
<1>2. IsSeq(changes') /\ (changeReporting => Alu!NewEntries = s)
  BY <1>1, Reported DEF Shape
<1>3. Tells(s, regs, gpr, gpr, flags, flags)
  BY <1>1, ReplaysNone DEF Tells
<1>4. Shape(regs, cells)'
  BY <1>2 DEF Shape
<1>5. Once(s)
  BY <1>1 DEF Once
<1>6. Once(Alu!NewEntries)
  BY <1>1, <1>5, ReportedOnce DEF Shape
<1> QED
  BY <1>2, <1>3, <1>4, <1>6 DEF RegsTold, MemTold

\* A load: entries of words of the external memory that the core reads, then the register.
LEMMA LoadTells ==
  ASSUME NEW regs, NEW cells, Shape(regs, cells), NEW addrs, NEW ext, NEW out,
         NEW s, NEW keep, NEW x, Lists(s, keep, x), \A k \in keep : x[k].kind = "MEM",
         \A k \in keep : x[k].obj \notin out,
         \A k \in keep : \A c \in cells : x[k].obj \in addrs[c] => c \in ext,
         NEW r \in regs, NEW v, NEW g, g = Alu!SetGpr(r, v),
         gpr' = g, flags' = flags, memory' = memory,
         Alu!ReportChanges(s \o Alu!GprEntry(r, g))
  PROVE  /\ RegsTold(regs) /\ MemTold(cells, addrs, ext, out) /\ Shape(regs, cells)'
         /\ Once(Alu!NewEntries)
<1>0. PICK t : t = Alu!GprEntry(r, g)
  OBVIOUS
<1>1. IsSeq(s) /\ \A objs : Concerning(s, "GPR", objs) = {} /\ Concerning(s, "FLAG", objs) = {}
  <2>1. IsSeq(s)
    BY DEF Lists
  <2>2. \A objs : Concerning(s, "GPR", objs) = {} /\ Concerning(s, "FLAG", objs) = {}
    BY ListsMemory, Zenon
  <2> QED
    BY <2>1, <2>2
<1>2. PICK e : e = Alu!Entry("GPR", r, gpr[r], g[r])
  OBVIOUS
<1>3. e.kind = "GPR" /\ e.obj = r /\ t = <<e>> /\ IsSeq(t)
  <2>1. e.kind = "GPR" /\ e.obj = r
    BY <1>2, EntryFields
  <2>2. t = <<e>> /\ IsSeq(t)
    BY <1>0, <1>2, GprEntryIs
  <2> QED
    BY <2>1, <2>2
<1>4. \A objs : Concerning(t, "MEM", objs) = {}
  BY <1>3, OneEntry
<1>5. PICK q : q = s \o t
  OBVIOUS
<1>6. IsSeq(changes') /\ (changeReporting => Alu!NewEntries = q)
  <2>1. IsSeq(q) /\ Alu!ReportChanges(q)
    BY <1>0, <1>1, <1>3, <1>5, ConcatSeqs
  <2> QED
    BY <2>1, Reported DEF Shape
<1>7. gpr = [y \in regs |-> gpr[y]] /\ flags = [y \in CoreFlags |-> flags[y]]
  BY DEF Shape
<1>8. g = [y \in regs |-> g[y]] /\ Tells(t, regs, gpr, g, flags, flags)
  BY <1>0, <1>7, GprEntryTells
<1>9. Tells(q, regs, gpr, g, flags, flags)
  <2>1. Tells(s, regs, gpr, gpr, flags, flags)
    BY <1>1, ReplaysNone DEF Tells
  <2> QED
    BY <1>1, <1>3, <1>5, <1>8, <2>1, TellsConcat
<1>10. MemTells(q, cells, addrs, ext, out, memory, memory)
  <2>1. ASSUME NEW c \in cells \ ext PROVE Concerning(q, "MEM", addrs[c]) = {}
    <3>1. PICK objs : objs = addrs[c]
      OBVIOUS
    <3>2. Touching(keep, x, "MEM", objs) = {}
      BY <3>1 DEF Touching
    <3>3. Concerning(s, "MEM", objs) = {} /\ Concerning(t, "MEM", objs) = {}
      BY <1>4, <3>2 DEF Lists
    <3> QED
      BY <1>1, <1>3, <1>5, <3>1, <3>3, NoneConcat
  <2>2. ASSUME NEW c \in cells PROVE Concerning(q, "MEM", addrs[c] \cap out) = {}
    <3>1. PICK objs : objs = addrs[c] \cap out
      OBVIOUS
    <3>2. Touching(keep, x, "MEM", objs) = {}
      BY <3>1 DEF Touching
    <3>3. Concerning(s, "MEM", objs) = {} /\ Concerning(t, "MEM", objs) = {}
      BY <1>4, <3>2 DEF Lists
    <3> QED
      BY <1>1, <1>3, <1>5, <3>1, <3>3, NoneConcat
  <2> QED
    BY <2>1, <2>2, MemTellsNothing
<1>11. Shape(regs, cells)'
  BY <1>6, <1>8 DEF Shape
<1>12. Once(q)
  <2>1. Once(s) /\ Once(t)
    <3>1. \A y : Concerning(t, "GPR", {y}) \subseteq {1}
      BY <1>3, OneEntry
    <3> QED
      BY <1>1, <3>1 DEF Once
  <2>2. \A y : Concerning(s, "GPR", {y}) = {} \/ Concerning(t, "GPR", {y}) = {}
    BY <1>1
  <2> QED
    BY <1>1, <1>3, <1>5, <2>1, <2>2, OnceConcat
<1>13. Once(Alu!NewEntries)
  <2>1. IsSeq(q) /\ Alu!ReportChanges(q)
    BY <1>0, <1>1, <1>3, <1>5, ConcatSeqs
  <2> QED
    BY <1>12, <2>1, ReportedOnce DEF Shape
<1> QED
  BY <1>6, <1>9, <1>10, <1>11, <1>13 DEF RegsTold, MemTold

--------------------------------------------------------------------------------
(* Arithmetic, logic, shifts and moves *)

LEMMA AluTold == ASSUME RegsTold(Alu!Regs), MemoryQuiet PROVE Alu!Told
<1>1. Alu!RegistersTold
  BY DEF RegsTold, Tells, Replays, Concerning, CoreFlags, Alu!RegistersTold, Alu!Leads,
         Alu!About, Alu!Flags, Alu!ZERO, Alu!CARRY, Alu!ERROR
<1>2. ASSUME changeReporting, NEW objs PROVE Alu!About(Alu!NewEntries, "MEM", objs) = {}
  BY <1>2 DEF MemoryQuiet, NoMemory1, Alu!About
<1>3. Alu!MemoryTold
  BY <1>2 DEF Alu!MemoryTold, Alu!Leads, MemoryQuiet
<1>4. Alu!OutputTold
  BY <1>2 DEF Alu!OutputTold, MemoryQuiet
<1> QED
  BY <1>1, <1>3, <1>4 DEF Alu!Told

LEMMA AluStep ==
  ASSUME Shape(Alu!Regs, Alu!Cells), Alu!ExecuteAlu
  PROVE  StepTells(Alu!Regs, Alu!Cells)
<1>0. Alu!ZERO \in CoreFlags /\ Alu!CARRY \in CoreFlags
  BY DEF Alu!ZERO, Alu!CARRY, CoreFlags
<1>1. ASSUME NEW r \in Alu!Regs, NEW v, Alu!PutGpr(r, v) PROVE StepTells(Alu!Regs, Alu!Cells)
  BY <1>1, PutGprTells
<1>2. ASSUME NEW f \in CoreFlags, NEW c, Alu!PutFlag(f, c)
      PROVE  StepTells(Alu!Regs, Alu!Cells)
  BY <1>2, PutFlagTells
<1>3. ASSUME NEW r \in Alu!Regs, NEW v, NEW f \in CoreFlags, NEW c, Alu!PutBoth(r, v, f, c)
      PROVE  StepTells(Alu!Regs, Alu!Cells)
  BY <1>3, PutBothTells
<1>4. CASE Alu!ArithR
  BY <1>0, <1>3, <1>4, Zenon DEF Alu!ArithR
<1>5. CASE Alu!Cmp
  BY <1>0, <1>2, <1>5, Zenon DEF Alu!Cmp
<1>6. CASE Alu!LogicR
  BY <1>0, <1>3, <1>6, Zenon DEF Alu!LogicR
<1>7. CASE Alu!Not1
  BY <1>0, <1>3, <1>7, Zenon DEF Alu!Not1
<1>8. CASE Alu!SetOrClearBit
  BY <1>1, <1>8, Zenon DEF Alu!SetOrClearBit
<1>9. CASE Alu!ShiftByOne
  BY <1>0, <1>3, <1>9, Zenon DEF Alu!ShiftByOne
<1>10. CASE Alu!ShiftByByte
  BY <1>1, <1>10, Zenon DEF Alu!ShiftByByte
<1>11. CASE Alu!Swe \/ Alu!Mov \/ Alu!MovI
  BY <1>1, <1>11, Zenon DEF Alu!Swe, Alu!Mov, Alu!MovI
<1>12. CASE Alu!ArithI
  BY <1>0, <1>3, <1>12, Zenon DEF Alu!ArithI
<1>13. CASE Alu!CmpI
  BY <1>0, <1>2, <1>13, Zenon DEF Alu!CmpI
<1>14. CASE Alu!LogicI
  BY <1>0, <1>3, <1>14, Zenon DEF Alu!LogicI
<1>15. CASE Alu!Modular \/ Alu!SubPrime
  BY <1>1, <1>15, Zenon DEF Alu!Modular, Alu!SubPrime
<1>16. CASE Alu!Swap
  <2>1. PICK f \in {Alu!CARRY, Alu!ZERO}, r1 \in Alu!Regs, r2 \in Alu!Regs :
          LET g == IF flags[f] = 1 THEN Alu!SetGpr2(r2, gpr[r1], r1, gpr[r2]) ELSE gpr
          IN Alu!Retire(g, flags, Alu!GprEntry(r1, g) \o Alu!GprEntry(r2, g))
    BY <1>16 DEF Alu!Swap
  <2>2. PICK g : g = IF flags[f] = 1 THEN Alu!SetGpr2(r2, gpr[r1], r1, gpr[r2]) ELSE gpr
    OBVIOUS
  <2>3. Alu!Retire(g, flags, Alu!GprEntry(r1, g) \o Alu!GprEntry(r2, g))
    BY <2>1, <2>2, Zenon
  <2>4. gpr = [x \in Alu!Regs |-> gpr[x]]
    BY DEF Shape
  <2>5. /\ g = [x \in Alu!Regs |-> g[x]]
        /\ \A x \in Alu!Regs : x \notin {r1, r2} => g[x] = gpr[x]
        /\ r1 = r2 => g[r1] = gpr[r1]
    <3>1. CASE flags[f] = 1
      <4>1. PICK v, w : v = gpr[r1] /\ w = gpr[r2]
        OBVIOUS
      <4>2. g = Alu!SetGpr2(r2, v, r1, w)
        BY <2>2, <3>1, <4>1
      <4>3. /\ g = [x \in Alu!Regs |-> g[x]] /\ g[r1] = w
            /\ \A x \in Alu!Regs : x \notin {r2, r1} => g[x] = gpr[x]
        BY <2>4, <4>2, SetGpr2Is
      <4> QED
        BY <4>1, <4>3
    <3>2. CASE flags[f] # 1
      BY <2>2, <2>4, <3>2
    <3> QED
      BY <3>1, <3>2
  <2> QED
    BY <2>3, <2>5, PutTwoTells DEF Alu!Retire
<1>17. CASE Alu!Scb
  <2>1. PICK r, v : r \in Alu!Regs /\ Alu!PutPair(r, v)
    BY <1>17, Zenon DEF Alu!Scb
  <2>2. PICK n : n = Alu!Next1(r)
    OBVIOUS
  <2>3. n \in Alu!Regs /\ n # r
    BY <2>1, <2>2, NextRegister, PartAssumption DEF Alu!CoreAssumption, Alu!Regs, Alu!Next1
  <2>4. PICK g, lo, hi : lo = Alu!Low(v) /\ hi = Alu!High(v) /\ g = Alu!SetGpr2(r, lo, n, hi)
    OBVIOUS
  <2>5. /\ gpr' = g /\ flags' = flags /\ memory' = memory
        /\ Alu!ReportChanges(Alu!GprEntry(r, g) \o Alu!GprEntry(n, g))
    BY <2>1, <2>2, <2>4, Zenon DEF Alu!PutPair, Alu!Retire
  <2>6. /\ g = [x \in Alu!Regs |-> g[x]]
        /\ \A x \in Alu!Regs : x \notin {r, n} => g[x] = gpr[x]
    <3>1. gpr = [x \in Alu!Regs |-> gpr[x]]
      BY DEF Shape
    <3> QED
      BY <2>1, <2>3, <2>4, <3>1, SetGpr2Is
  <2> QED
    BY <2>1, <2>3, <2>5, <2>6, PutTwoTells
<1> QED
  BY <1>4, <1>5, <1>6, <1>7, <1>8, <1>9, <1>10, <1>11, <1>12, <1>13, <1>14, <1>15, <1>16,
     <1>17 DEF Alu!ExecuteAlu

--------------------------------------------------------------------------------
(* Random words, hash, MAC and key bus *)

LEMMA UnitsTold == ASSUME RegsTold(Units!Regs), MemoryQuiet PROVE Units!Told
<1>1. Units!RegistersTold
  BY DEF RegsTold, Tells, Replays, Concerning, CoreFlags, Units!RegistersTold, Units!Leads,
         Units!About, Units!Flags, Units!ZERO, Units!CARRY, Units!ERROR, Alu!NewEntries,
         Units!NewEntries
<1>2. ASSUME changeReporting, NEW objs PROVE Units!About(Units!NewEntries, "MEM", objs) = {}
  BY <1>2 DEF MemoryQuiet, NoMemory1, Units!About, Units!NewEntries, Alu!NewEntries
<1>3. Units!MemoryTold
  BY <1>2 DEF Units!MemoryTold, Units!Leads, MemoryQuiet
<1>4. Units!OutputTold
  BY <1>2 DEF Units!OutputTold, MemoryQuiet
<1> QED
  BY <1>1, <1>3, <1>4 DEF Units!Told

\* A function on 1 .. n is a sequence.
LEMMA FunctionIsSeq ==
  ASSUME NEW n \in Nat, NEW s, s = [k \in 1 .. n |-> s[k]]
  PROVE  IsSeq(s) /\ DOMAIN s = 1 .. n
<1> DEFINE T == {s[k] : k \in 1 .. n}
<1>1. s \in [1 .. n -> T]
  OBVIOUS
<1> HIDE DEF T
<1>2. s \in Seq(T) /\ DOMAIN s = 1 .. n
  BY <1>1
<1> QED
  BY <1>2 DEF IsSeq

\* The entries of n transactions lead the error flag to what the last one left.
LEMMA TransactionsTell ==
  ASSUME NEW regs, flags = [x \in CoreFlags |-> flags[x]], NEW g, NEW op, NEW n \in Nat, n >= 1,
         NEW e \in {0, 1}, NEW v, NEW fl, fl = [flags EXCEPT ![4] = e],
         NEW t, t = Units!TransactionEntries(op, n, e, v)
  PROVE  /\ IsSeq(t) /\ NoMemory1(t) /\ fl = [x \in CoreFlags |-> fl[x]]
         /\ Tells(t, regs, g, g, flags, fl)
<1>1. t = [k \in 1 .. 2 * n |-> t[k]]
  BY DEF Units!TransactionEntries
<1>2. IsSeq(t) /\ DOMAIN t = 1 .. 2 * n
  <2>1. 2 * n \in Nat
    OBVIOUS
  <2> QED
    BY <1>1, <2>1, FunctionIsSeq
<1>3. ASSUME NEW k \in 1 .. 2 * n, k % 2 = 1
      PROVE  t[k].kind = "KBUS"
  BY <1>3 DEF Units!TransactionEntries, Units!Entry
<1>4. ASSUME NEW k \in 1 .. 2 * n, k % 2 # 1
      PROVE  /\ t[k].kind = "FLAG" /\ t[k].obj = 4
             /\ t[k].old = IF k = 2 THEN flags[4] ELSE 0
             /\ t[k].new = IF k = 2 * n THEN e ELSE 0
  <2>1. PICK i : i = (k - 1) \div 2
    OBVIOUS
  <2>2. (i = 0 <=> k = 2) /\ (i = n - 1 <=> k = 2 * n)
    BY <1>4, <2>1
  <2>3. t[k] = Units!Entry("FLAG", Units!ERROR, IF i = 0 THEN flags[Units!ERROR] ELSE 0,
                           IF i = n - 1 THEN e ELSE 0)
    BY <1>4, <2>1, Zenon DEF Units!TransactionEntries
  <2> QED
    BY <2>2, <2>3 DEF Units!Entry, Units!ERROR
<1>5. NoMemory1(t)
  BY <1>2, <1>3, <1>4 DEF NoMemory1
<1>7. fl = [x \in CoreFlags |-> fl[x]] /\ fl[4] = e /\ fl[1] = flags[1] /\ fl[2] = flags[2]
  <2>1. 1 \in CoreFlags /\ 2 \in CoreFlags /\ 4 \in CoreFlags
    BY DEF CoreFlags
  <2> QED
    BY <2>1
<1>8. \A objs : Concerning(t, "GPR", objs) = {}
  BY <1>2, <1>3, <1>4 DEF Concerning
<1>9. Concerning(t, "FLAG", {1}) = {} /\ Concerning(t, "FLAG", {2}) = {}
  BY <1>2, <1>3, <1>4 DEF Concerning
<1>10. Replays(t, "FLAG", {4}, flags[4], fl[4])
  <2>1. PICK ks : ks = Concerning(t, "FLAG", {4})
    OBVIOUS
  <2>2. \A k : k \in ks <=> k \in 1 .. 2 * n /\ k % 2 # 1
    BY <1>2, <1>3, <1>4, <2>1 DEF Concerning
  <2>3. 2 \in ks /\ 2 * n \in ks
    BY <2>2
  <2>4. ASSUME NEW k \in ks, \A j \in ks : j >= k PROVE t[k].old = flags[4]
    BY <1>4, <2>2, <2>3, <2>4
  <2>5. ASSUME NEW k \in ks, \A j \in ks : j <= k PROVE t[k].new = fl[4]
    BY <1>4, <1>7, <2>2, <2>3, <2>5
  <2>6. ASSUME NEW k \in ks, NEW j \in ks, j < k PROVE t[k].old = t[j].new
    BY <1>4, <2>2, <2>6
  <2> QED
    BY <2>1, <2>3, <2>4, <2>5, <2>6 DEF Replays
<1>11. Tells(t, regs, g, g, flags, fl)
  BY <1>7, <1>8, <1>9, <1>10, ReplaysNone DEF Tells, CoreFlags
<1> QED
  BY <1>2, <1>5, <1>7, <1>11

\* The result of a hash is stored in two registers, the one behind r first.
LEMMA HashTells ==
  ASSUME Shape(Units!Regs, Units!Cells), NEW r1 \in Units!Regs, NEW r2, Units!HashInto(r1, r2)
  PROVE  StepTells(Units!Regs, Units!Cells)
<1>1. PICK n : n = Units!Next1(r1)
  OBVIOUS
<1>2. n \in Units!Regs /\ n # r1
  BY <1>1, NextRegister, PartAssumption DEF Units!CoreAssumption, Units!Regs, Units!Next1
<1>3. PICK h : h = HashUpdate(sha512, Units!Message(r2))
  OBVIOUS
<1>4. LET g == Units!SetGpr2(Units!Next1(r1), h[1], r1, h[2])
      IN /\ gpr' = g /\ flags' = flags /\ memory' = memory
         /\ Units!ReportChanges(Units!GprEntry(r1, g) \o Units!GprEntry(Units!Next1(r1), g))
  BY <1>3, Zenon DEF Units!HashInto
<1>5. PICK g, a, b : a = h[1] /\ b = h[2] /\ g = Units!SetGpr2(n, a, r1, b)
  OBVIOUS
<1>6. /\ gpr' = g /\ flags' = flags /\ memory' = memory
      /\ Units!ReportChanges(Units!GprEntry(r1, g) \o Units!GprEntry(n, g))
  BY <1>1, <1>4, <1>5, Zenon
<1>7. g = Alu!SetGpr2(n, a, r1, b)
  BY <1>5, Zenon DEF Units!SetGpr2, Alu!SetGpr2
<1>8. Alu!ReportChanges(Alu!GprEntry(r1, g) \o Alu!GprEntry(n, g))
  BY <1>6 DEF Units!ReportChanges, Alu!ReportChanges, Units!GprEntry, Alu!GprEntry, Units!Entry,
              Alu!Entry
<1>9. gpr = [x \in Units!Regs |-> gpr[x]]
  BY DEF Shape
<1>10. /\ g = [x \in Units!Regs |-> g[x]]
       /\ \A x \in Units!Regs : x \notin {n, r1} => g[x] = gpr[x]
  <2>1. PICK regs : regs = Units!Regs
    OBVIOUS
  <2>2. gpr = [x \in regs |-> gpr[x]] /\ n \in regs /\ r1 \in regs
    BY <1>2, <1>9, <2>1
  <2>3. /\ g = [x \in regs |-> g[x]]
        /\ \A x \in regs : x \notin {n, r1} => g[x] = gpr[x]
    <3>1. PICK x1, x2, x3, x4 : x1 = n /\ x2 = a /\ x3 = r1 /\ x4 = b
      OBVIOUS
    <3>2. /\ g = Alu!SetGpr2(x1, x2, x3, x4) /\ x1 \in regs /\ x3 \in regs
          /\ gpr = [x \in regs |-> gpr[x]]
      BY <1>7, <2>2, <3>1
    <3>3. g = [x \in regs |-> g[x]]
      BY <3>2, SetGpr2Is
    <3>4. \A x \in regs : x \notin {x1, x3} => g[x] = gpr[x]
      BY <3>2, SetGpr2Is
    <3> QED
      BY <3>1, <3>3, <3>4
  <2> QED
    BY <2>1, <2>3
<1>11. \A x \in Units!Regs : x \notin {r1, n} => g[x] = gpr[x]
  BY <1>10
<1> QED
  BY <1>2, <1>6, <1>8, <1>10, <1>11, PutTwoTells

\* Words taken from the bus, each with an entry, and the register they make.
LEMMA GrvTells ==
  ASSUME Shape(Units!Regs, Units!Cells), Units!Grv
  PROVE  StepTells(Units!Regs, Units!Cells)
<1>1. PICK r \in Units!Regs :
        LET g == Units!SetGpr(r, Units!FromWords([i \in 0 .. Words - 1 |-> Units!GrvQueuePop(i)]))
            taken == [i \in 1 .. Words |->
                        Units!Entry("RBUS", IF i = 1 THEN Units!DPI_RBUS_FRESH_ENT
                                            ELSE Units!DPI_RBUS_NO_FRESH_ENT, 0, 0)]
        IN Units!Retire(g, flags, taken \o Units!GprEntry(r, g))
  BY DEF Units!Grv
<1>2. PICK v : v = Units!FromWords([i \in 0 .. Words - 1 |-> Units!GrvQueuePop(i)])
  OBVIOUS
<1>3. PICK g : g = Units!SetGpr(r, v)
  OBVIOUS
<1>4. PICK t : t = [i \in 1 .. Words |->
                      Units!Entry("RBUS", IF i = 1 THEN Units!DPI_RBUS_FRESH_ENT
                                          ELSE Units!DPI_RBUS_NO_FRESH_ENT, 0, 0)]
  OBVIOUS
<1>5. PICK s : s = Units!GprEntry(r, g)
  OBVIOUS
<1>6. /\ gpr' = g /\ flags' = flags /\ memory' = memory /\ Alu!ReportChanges(t \o s)
      /\ g = Alu!SetGpr(r, v) /\ s = Alu!GprEntry(r, g)
  <2>1. Units!Retire(g, flags, t \o s)
    BY <1>1, <1>2, <1>3, <1>4, <1>5, Zenon
  <2>2. g = Alu!SetGpr(r, v) /\ s = Alu!GprEntry(r, g)
    BY <1>3, <1>5
    DEF Units!SetGpr, Alu!SetGpr, Units!GprEntry, Alu!GprEntry, Units!Entry, Alu!Entry
  <2> QED
    BY <2>1, <2>2 DEF Units!Retire, Units!ReportChanges, Alu!ReportChanges
<1>7. Words \in Nat
  BY WidthAssumption
<1>8. IsSeq(t) /\ DOMAIN t = 1 .. Words /\ \A k \in 1 .. Words : t[k].kind = "RBUS"
  <2>1. t = [k \in 1 .. Words |-> t[k]]
    BY <1>4
  <2>2. \A k \in 1 .. Words : t[k].kind = "RBUS"
    BY <1>4 DEF Units!Entry
  <2> QED
    BY <1>7, <2>1, <2>2, FunctionIsSeq
<1>9. NoMemory1(t) /\ Tells(t, Units!Regs, gpr, gpr, flags, flags)
  BY <1>8, TellsNothing DEF NoMemory1
<1>10. /\ gpr = [x \in Units!Regs |-> gpr[x]] /\ flags = [x \in CoreFlags |-> flags[x]]
  BY DEF Shape
<1>11. /\ g = [x \in Units!Regs |-> g[x]] /\ Tells(s, Units!Regs, gpr, g, flags, flags)
  BY <1>6, <1>10, GprEntryTells
<1>12. IsSeq(s) /\ NoMemory1(s)
  BY <1>6, GprEntryIs
<1>13. /\ IsSeq(t \o s) /\ NoMemory1(t \o s)
       /\ Tells(t \o s, Units!Regs, gpr, g, flags, flags)
  BY <1>8, <1>9, <1>11, <1>12, ConcatSeqs, NoMemoryConcat, TellsConcat
<1> QED
  BY <1>6, <1>10, <1>11, <1>13, Retires

LEMMA ErrorFlagIs ==
  ASSUME NEW e \in {0, 1} PROVE Units!SetCpuFlag(Units!ERROR, e = 1) = [flags EXCEPT ![4] = e]
<1>1. CASE e = 0
  BY <1>1 DEF Units!SetCpuFlag, Units!ERROR
<1>2. CASE e = 1
  BY <1>2 DEF Units!SetCpuFlag, Units!ERROR
<1> QED
  BY <1>1, <1>2

\* LDK: the transactions, then the register if there was no error.
LEMMA LdkTells ==
  ASSUME Shape(Units!Regs, Units!Cells), Units!Ldk
  PROVE  StepTells(Units!Regs, Units!Cells)
<1>1. PICK r \in Units!Regs, v \in Units!Gpr, p \in Units!Series :
        LET g == IF p[2] = 0 THEN Units!SetGpr(r, v) ELSE gpr
        IN Units!Retire(g, Units!SetCpuFlag(Units!ERROR, p[2] = 1),
             Units!TransactionEntries(Units!DPI_KBUS_LDK_READ, p[1], p[2], v)
               \o (IF p[2] = 0 THEN Units!GprEntry(r, g) ELSE <<>>))
  BY Zenon DEF Units!Ldk
<1>2. PICK n, e, op : n = p[1] /\ e = p[2] /\ op = Units!DPI_KBUS_LDK_READ
  OBVIOUS
<1>3. n \in Nat /\ n >= 1 /\ e \in {0, 1}
  BY <1>2, WidthAssumption DEF Units!Series
<1>4. PICK g : g = IF p[2] = 0 THEN Units!SetGpr(r, v) ELSE gpr
  OBVIOUS
<1>5. PICK fl : fl = Units!SetCpuFlag(Units!ERROR, p[2] = 1)
  OBVIOUS
<1>6. PICK t : t = Units!TransactionEntries(op, p[1], p[2], v)
  OBVIOUS
<1>7. PICK s : s = IF p[2] = 0 THEN Units!GprEntry(r, g) ELSE <<>>
  OBVIOUS
<1>8. Units!Retire(g, fl, t \o s)
  BY <1>1, <1>2, <1>4, <1>5, <1>6, <1>7, Zenon
<1>9. gpr' = g /\ flags' = fl /\ memory' = memory /\ Alu!ReportChanges(t \o s)
  BY <1>8 DEF Units!Retire, Units!ReportChanges, Alu!ReportChanges
<1>10. /\ gpr = [x \in Units!Regs |-> gpr[x]] /\ flags = [x \in CoreFlags |-> flags[x]]
  BY DEF Shape
<1>11. fl = [flags EXCEPT ![4] = e]
  <2>1. fl = Units!SetCpuFlag(Units!ERROR, e = 1)
    BY <1>2, <1>5, Zenon
  <2> QED
    BY <1>3, <2>1, ErrorFlagIs
<1>12. t = Units!TransactionEntries(op, n, e, v)
  BY <1>2, <1>6
<1>13. /\ IsSeq(t) /\ NoMemory1(t) /\ fl = [x \in CoreFlags |-> fl[x]]
       /\ Tells(t, Units!Regs, gpr, gpr, flags, fl)
  BY <1>3, <1>10, <1>11, <1>12, TransactionsTell
<1>14. /\ IsSeq(s) /\ NoMemory1(s) /\ g = [x \in Units!Regs |-> g[x]]
       /\ Tells(s, Units!Regs, gpr, g, fl, fl)
  <2>1. CASE e = 0
    <3>1. g = Alu!SetGpr(r, v) /\ s = Alu!GprEntry(r, g)
      BY <1>2, <1>4, <1>7, <2>1
      DEF Units!SetGpr, Alu!SetGpr, Units!GprEntry, Alu!GprEntry, Units!Entry, Alu!Entry
    <3> QED
      BY <1>10, <3>1, GprEntryTells, GprEntryIs
  <2>2. CASE e = 1
    <3>1. g = gpr /\ s = <<>>
      BY <1>2, <1>4, <1>7, <2>2
    <3>2. DOMAIN s = {}
      BY <3>1
    <3> QED
      BY <1>10, <3>1, <3>2, NoEntries, TellsNothing DEF NoMemory1
  <2> QED
    BY <1>3, <2>1, <2>2
<1>15. /\ IsSeq(t \o s) /\ NoMemory1(t \o s)
       /\ Tells(t \o s, Units!Regs, gpr, g, flags, fl)
  BY <1>13, <1>14, ConcatSeqs, NoMemoryConcat, TellsConcat
<1> QED
  BY <1>9, <1>13, <1>14, <1>15, Retires

\* STK and KBO: the transactions only.
LEMMA TransactionsRetire ==
  ASSUME Shape(Units!Regs, Units!Cells), NEW op, NEW n \in Nat, n >= 1, NEW e \in {0, 1}, NEW v,
         NEW fl, fl = Units!SetCpuFlag(Units!ERROR, e = 1),
         Units!Retire(gpr, fl, Units!TransactionEntries(op, n, e, v))
  PROVE  StepTells(Units!Regs, Units!Cells)
<1>1. PICK t : t = Units!TransactionEntries(op, n, e, v)
  OBVIOUS
<1>2. /\ gpr' = gpr /\ flags' = fl /\ memory' = memory /\ Alu!ReportChanges(t)
  BY <1>1 DEF Units!Retire, Units!ReportChanges, Alu!ReportChanges
<1>3. /\ gpr = [x \in Units!Regs |-> gpr[x]] /\ flags = [x \in CoreFlags |-> flags[x]]
  BY DEF Shape
<1>4. fl = [flags EXCEPT ![4] = e]
  BY ErrorFlagIs
<1>5. /\ IsSeq(t) /\ NoMemory1(t) /\ fl = [x \in CoreFlags |-> fl[x]]
      /\ Tells(t, Units!Regs, gpr, gpr, flags, fl)
  BY <1>1, <1>3, <1>4, TransactionsTell
<1> QED
  BY <1>2, <1>3, <1>5, Retires

LEMMA StkTells ==
  ASSUME Shape(Units!Regs, Units!Cells), Units!Stk
  PROVE  StepTells(Units!Regs, Units!Cells)
<1>1. PICK r \in Units!Regs, p \in Units!Series :
        Units!Retire(gpr, Units!SetCpuFlag(Units!ERROR, p[2] = 1),
                     Units!TransactionEntries(Units!DPI_KBUS_STK_WRITE, p[1], p[2], gpr[r]))
  BY Zenon DEF Units!Stk
<1>2. PICK n, e, op, v, fl : /\ n = p[1] /\ e = p[2] /\ op = Units!DPI_KBUS_STK_WRITE /\ v = gpr[r]
                             /\ fl = Units!SetCpuFlag(Units!ERROR, p[2] = 1)
  OBVIOUS
<1>3. n \in Nat /\ n >= 1 /\ e \in {0, 1}
  BY <1>2, WidthAssumption DEF Units!Series
<1>4. fl = Units!SetCpuFlag(Units!ERROR, e = 1)
  BY <1>2, Zenon
<1>5. Units!Retire(gpr, fl, Units!TransactionEntries(op, n, e, v))
  BY <1>1, <1>2, Zenon
<1> QED
  BY <1>3, <1>4, <1>5, TransactionsRetire

LEMMA KboTells ==
  ASSUME Shape(Units!Regs, Units!Cells), Units!Kbo
  PROVE  StepTells(Units!Regs, Units!Cells)
<1>1. PICK op \in 0 .. 15, e \in {0, 1} :
        Units!Retire(gpr, Units!SetCpuFlag(Units!ERROR, e = 1),
                     Units!TransactionEntries(op, 1, e, 0))
  BY Zenon DEF Units!Kbo
<1>2. PICK fl : fl = Units!SetCpuFlag(Units!ERROR, e = 1)
  OBVIOUS
<1>3. Units!Retire(gpr, fl, Units!TransactionEntries(op, 1, e, 0))
  BY <1>1, <1>2, Zenon
<1>4. 1 \in Nat /\ 1 >= 1
  OBVIOUS
<1> QED
  BY <1>2, <1>3, <1>4, TransactionsRetire

LEMMA UnitsStep ==
  ASSUME Shape(Units!Regs, Units!Cells), Units!ExecuteUnits
  PROVE  StepTells(Units!Regs, Units!Cells)
<1>1. CASE Units!Hash
  BY <1>1, HashTells DEF Units!Hash
<1>2. CASE Units!HashIt \/ Units!TmacIt \/ Units!TmacUp \/ Units!TmacIs
  <2>1. UNCHANGED <<gpr, flags, memory, changes>>
    BY <1>2 DEF Units!HashIt, Units!TmacIt, Units!TmacUp, Units!TmacIs, Units!Absorb
  <2> QED
    BY <2>1, NothingToTell
<1>3. CASE Units!TmacRd
  <2>1. PICK r \in Units!Regs :
          LET g == Units!SetGpr(r, Squeezed(keccak.sponge))
          IN /\ gpr' = g /\ Units!ReportChanges(Units!GprEntry(r, g))
             /\ flags' = flags /\ memory' = memory
    BY <1>3, Zenon DEF Units!TmacRd
  <2>2. PICK v : v = Squeezed(keccak.sponge)
    OBVIOUS
  <2>3. /\ gpr' = Units!SetGpr(r, v) /\ flags' = flags /\ memory' = memory
        /\ Units!ReportChanges(Units!GprEntry(r, gpr'))
    BY <2>1, <2>2, Zenon
  <2>4. gpr' = Alu!SetGpr(r, v) /\ Alu!ReportChanges(Alu!GprEntry(r, gpr'))
    BY <2>3 DEF Units!SetGpr, Alu!SetGpr, Units!ReportChanges, Alu!ReportChanges,
                Units!GprEntry, Alu!GprEntry, Units!Entry, Alu!Entry
  <2> QED
    BY <2>3, <2>4, StoredGprTells
<1> QED
  BY <1>1, <1>2, <1>3, GrvTells, LdkTells, StkTells, KboTells DEF Units!ExecuteUnits

--------------------------------------------------------------------------------
(* The memory part *)

MemoryAddrs == [c \in Memory!Cells |-> Memory!AddrsOf(c)]
MemoryExt == {c \in Memory!Cells : Memory!External(c)}
MemoryOut == {a \in Memory!Addr : Memory!Within("EMEM_OUT", a)}

LEMMA MemoryWords ==
  ASSUME NEW a \in Memory!Addr
  PROVE  /\ \A i \in 0 .. Words - 1 : /\ Memory!WordAddr(a, i) \in Memory!Addr
                                      /\ Memory!Cell(Memory!WordAddr(a, i)) \in Memory!Cells
         /\ \A i, j \in 0 .. Words - 1 :
              Memory!Cell(Memory!WordAddr(a, i)) = Memory!Cell(Memory!WordAddr(a, j)) => i = j
         /\ Memory!Cell(a) \in Memory!Cells
<1>1. PICK A, B : A = AddrSpace /\ B = BytesPerWord
  OBVIOUS
<1>2. Fits(A, B, Words) /\ a \in 0 .. A - 1
  BY <1>1, PartAssumption, WidthAssumption DEF Memory!CoreAssumption, Fits, Memory!Addr
<1>3. \A i : Memory!WordAddr(a, i) = WordAt(A, B, a, i)
  BY <1>1 DEF Memory!WordAddr, WordAt
<1>4. ASSUME NEW i \in 0 .. Words - 1
      PROVE  WordAt(A, B, a, i) \in 0 .. A - 1 /\ WordAt(A, B, a, i) \div B \in 0 .. A \div B - 1
  <2>1. /\ WordAt(A, B, a, i) \in 0 .. A - 1
        /\ WordAt(A, B, a, i) \div B = Place(A, B, a, i)
        /\ Place(A, B, a, i) \in 0 .. A \div B - 1
    BY <1>2, WordPlace
  <2> QED
    BY <2>1
<1>5. ASSUME NEW i \in 0 .. Words - 1, NEW j \in 0 .. Words - 1,
             WordAt(A, B, a, i) \div B = WordAt(A, B, a, j) \div B
      PROVE  i = j
  BY <1>2, <1>5, WordsApart
<1>6. a \div B \in 0 .. A \div B - 1
  <2>1. 0 \in 0 .. Words - 1
    BY WidthAssumption
  <2> QED
    BY <1>2, <2>1, WordPlace
<1> QED
  BY <1>1, <1>3, <1>4, <1>5, <1>6 DEF Memory!Addr, Memory!Cell, Memory!Cells

\* Where the core writes, where it reads from outside and where the bus writes.
LEMMA MemoryRegions ==
  ASSUME NEW w \in Memory!Addr
  PROVE  /\ Memory!CoreWritable(w) => (w \in MemoryOut <=> Memory!Cell(w) \in MemoryExt)
         /\ Memory!Within("EMEM_IN", w) => w \notin MemoryOut /\ Memory!Cell(w) \in MemoryExt
         /\ Memory!AhbWritable(w) => w \notin MemoryOut /\ Memory!Cell(w) \notin MemoryExt
<1>1. \A m, n \in Memory!CpuMemory : \A a, b \in Memory!Addr :
        Memory!Within(m, a) /\ Memory!Within(n, b) /\ Memory!Cell(a) = Memory!Cell(b) => m = n
  BY PartAssumption DEF Memory!CoreAssumption
<1>2. {"DATA_RAM_IN", "DATA_RAM_OUT", "EMEM_IN", "EMEM_OUT", "INSTR_MEM"} \subseteq Memory!CpuMemory
  BY DEF Memory!CpuMemory
<1>3. Memory!Cell(w) \in Memory!Cells
  BY MemoryWords
<1>4. ASSUME NEW m \in {"EMEM_IN", "EMEM_OUT"}, Memory!Within(m, w)
      PROVE  Memory!Cell(w) \in MemoryExt
  BY <1>3, <1>4 DEF MemoryExt, Memory!External, Memory!AddrsOf
<1>5. ASSUME NEW m \in Memory!CpuMemory, Memory!Within(m, w), Memory!Cell(w) \in MemoryExt
      PROVE  m \in {"EMEM_IN", "EMEM_OUT"}
  <2>1. PICK b \in Memory!Addr, n \in {"EMEM_IN", "EMEM_OUT"} :
          Memory!Cell(b) = Memory!Cell(w) /\ Memory!Within(n, b)
    BY <1>5 DEF MemoryExt, Memory!External, Memory!AddrsOf
  <2> QED
    BY <1>1, <1>2, <1>5, <2>1
<1>6. \A m \in Memory!CpuMemory : Memory!Within(m, w) /\ w \in MemoryOut => m = "EMEM_OUT"
  BY <1>1, <1>2 DEF MemoryOut
<1>7. Memory!Within("EMEM_OUT", w) => w \in MemoryOut
  BY DEF MemoryOut
<1>8. Memory!CoreWritable(w) => (w \in MemoryOut <=> Memory!Cell(w) \in MemoryExt)
  BY <1>2, <1>4, <1>5, <1>6, <1>7 DEF Memory!CoreWritable, MemoryOut
<1>9. Memory!AhbWritable(w) => w \notin MemoryOut /\ Memory!Cell(w) \notin MemoryExt
  BY <1>2, <1>5, <1>6 DEF Memory!AhbWritable
<1> QED
  BY <1>2, <1>4, <1>6, <1>8, <1>9

MemoryTells ==
  /\ RegsTold(Memory!Regs) /\ MemTold(Memory!Cells, MemoryAddrs, MemoryExt, MemoryOut)
  /\ Shape(Memory!Regs, Memory!Cells)'

LEMMA MemoryLoad ==
  ASSUME Shape(Memory!Regs, Memory!Cells), NEW r \in Memory!Regs, NEW a \in Memory!Addr,
         Memory!Load(r, a)
  PROVE  MemoryTells /\ Once(Alu!NewEntries)
<1> DEFINE w == [k \in 1 .. Words |-> Memory!WordAddr(a, k - 1)]
           keep == {k \in 1 .. Words : Memory!Within("EMEM_IN", w[k])}
           x == [k \in 1 .. Words |-> Memory!Entry("MEM", w[k], 0, 0)]
           p == [k \in 1 .. Words |-> IF k \in keep THEN <<x[k]>> ELSE <<>>]
<1>1. Words \in Nat /\ Words >= 1
  BY WidthAssumption
<1>2. Memory!LoadEntries(a) = FlattenSeq(p)
  <2>1. p = [k \in 1 .. Words |->
               LET y == Memory!WordAddr(a, k - 1)
               IN IF Memory!Within("EMEM_IN", y) THEN <<Memory!Entry("MEM", y, 0, 0)>> ELSE <<>>]
    OBVIOUS
  <2> HIDE DEF p
  <2>2. Memory!LoadEntries(a) = Memory!FlattenSeq(p)
    BY <2>1, Zenon DEF Memory!LoadEntries
  <2> QED
    BY <2>2, SameFlatten
<1>3. /\ p = [k \in 1 .. Words |-> p[k]]
      /\ \A k \in 1 .. Words : p[k] = IF k \in keep THEN <<x[k]>> ELSE <<>>
      /\ keep \in SUBSET (1 .. Words)
  OBVIOUS
<1>4. /\ \A k \in keep : x[k].kind = "MEM" /\ x[k].obj = w[k]
      /\ \A k \in keep : Memory!Within("EMEM_IN", w[k]) /\ w[k] \in Memory!Addr
  <2>1. \A k \in 1 .. Words : x[k].kind = "MEM" /\ x[k].obj = w[k]
    BY DEF Memory!Entry
  <2>2. \A k \in 1 .. Words : w[k] \in Memory!Addr
    BY <1>1, MemoryWords
  <2> QED
    BY <2>1, <2>2
<1> HIDE DEF w, keep, x, p
<1>5. PICK s : s = Memory!LoadEntries(a)
  OBVIOUS
<1>6. Lists(s, keep, x)
  BY <1>1, <1>2, <1>3, <1>5, PiecesList
<1>7. ASSUME NEW k \in keep
      PROVE  /\ x[k].obj \notin MemoryOut
             /\ \A c \in Memory!Cells : x[k].obj \in MemoryAddrs[c] => c \in MemoryExt
  <2>1. PICK y : y = w[k]
    OBVIOUS
  <2>2. y \in Memory!Addr /\ x[k].obj = y /\ Memory!Within("EMEM_IN", y)
    BY <1>4, <2>1
  <2>3. y \notin MemoryOut /\ Memory!Cell(y) \in MemoryExt
    BY <2>2, MemoryRegions
  <2> QED
    BY <2>2, <2>3 DEF MemoryAddrs, Memory!AddrsOf
<1>8. PICK v, g : v = Memory!LoadedGpr(a) /\ g = Memory!SetGpr(r, v)
  OBVIOUS
<1>9. Memory!Retire(g, flags, s \o Memory!GprEntry(r, g))
  BY <1>5, <1>8, Zenon DEF Memory!Load
<1>10. /\ gpr' = g /\ flags' = flags /\ memory' = memory /\ g = Alu!SetGpr(r, v)
       /\ Alu!ReportChanges(s \o Alu!GprEntry(r, g))
  <2>1. g = Alu!SetGpr(r, v) /\ Memory!GprEntry(r, g) = Alu!GprEntry(r, g)
    BY <1>8 DEF Memory!SetGpr, Alu!SetGpr, Memory!GprEntry, Alu!GprEntry, Memory!Entry, Alu!Entry
  <2> QED
    BY <1>9, <2>1 DEF Memory!Retire, Memory!ReportChanges, Alu!ReportChanges
<1>11. \A k \in keep : x[k].kind = "MEM"
  BY <1>4
<1>12. PICK regs, cells, addrs, ext, out :
         /\ regs = Memory!Regs /\ cells = Memory!Cells /\ addrs = MemoryAddrs
         /\ ext = MemoryExt /\ out = MemoryOut
  OBVIOUS
<1>13. /\ RegsTold(regs) /\ MemTold(cells, addrs, ext, out) /\ Shape(regs, cells)'
       /\ Once(Alu!NewEntries)
  <2>1. /\ Shape(regs, cells) /\ r \in regs
        /\ \A k \in keep : x[k].obj \notin out
        /\ \A k \in keep : \A c \in cells : x[k].obj \in addrs[c] => c \in ext
    BY <1>7, <1>12
  <2> QED
    BY <1>6, <1>10, <1>11, <2>1, LoadTells
<1> QED
  BY <1>12, <1>13 DEF MemoryTells

LEMMA MemoryStore ==
  ASSUME Shape(Memory!Regs, Memory!Cells), NEW r \in Memory!Regs, NEW a \in Memory!Addr,
         Memory!Store(r, a)
  PROVE  MemoryTells /\ Once(Alu!NewEntries)
<1>0. PICK v : v = gpr[r]
  OBVIOUS
<1> DEFINE w == [k \in 1 .. Words |-> Memory!WordAddr(a, k - 1)]
           wc == [k \in 1 .. Words |-> Memory!Cell(w[k])]
           keep == {k \in 1 .. Words : Memory!CoreWritable(w[k])}
           old == [k \in 1 .. Words |->
                     IF Memory!Within("EMEM_OUT", w[k]) THEN 0 ELSE memory[wc[k]]]
           x == [k \in 1 .. Words |->
                   Memory!Entry("MEM", w[k], old[k], Memory!Part(v, k - 1))]
           p == [k \in 1 .. Words |-> IF k \in keep THEN <<x[k]>> ELSE <<>>]
<1>1. Words \in Nat /\ Words >= 1
  BY WidthAssumption
<1>2. Memory!StoreEntries(a, v) = FlattenSeq(p)
  <2>1. p = [k \in 1 .. Words |->
               LET y == Memory!WordAddr(a, k - 1)
                   z == IF Memory!Within("EMEM_OUT", y) THEN 0 ELSE memory[Memory!Cell(y)]
               IN IF Memory!CoreWritable(y)
                  THEN <<Memory!Entry("MEM", y, z, Memory!Part(v, k - 1))>> ELSE <<>>]
    OBVIOUS
  <2> HIDE DEF p
  <2>2. Memory!StoreEntries(a, v) = Memory!FlattenSeq(p)
    BY <2>1, Zenon DEF Memory!StoreEntries
  <2> QED
    BY <2>2, SameFlatten
<1>3. /\ p = [k \in 1 .. Words |-> p[k]]
      /\ \A k \in 1 .. Words : p[k] = IF k \in keep THEN <<x[k]>> ELSE <<>>
      /\ keep \in SUBSET (1 .. Words)
  OBVIOUS
<1>4. \A k \in 1 .. Words :
        /\ x[k].kind = "MEM" /\ x[k].obj = w[k] /\ x[k].new = Memory!Part(v, k - 1)
        /\ x[k].old = IF Memory!Within("EMEM_OUT", w[k]) THEN 0 ELSE memory[wc[k]]
  BY DEF Memory!Entry
<1>5. /\ \A k \in 1 .. Words : w[k] \in Memory!Addr /\ wc[k] = Memory!Cell(w[k])
      /\ \A k \in 1 .. Words : wc[k] \in Memory!Cells
      /\ \A j, k \in 1 .. Words : wc[j] = wc[k] => j = k
  <2>1. \A k \in 1 .. Words : k - 1 \in 0 .. Words - 1
    BY <1>1
  <2>2. \A j, k \in 1 .. Words : wc[j] = wc[k] => j - 1 = k - 1
    BY <2>1, MemoryWords
  <2>3. \A j, k \in 1 .. Words : j - 1 = k - 1 => j = k
    OBVIOUS
  <2> QED
    BY <2>1, <2>2, <2>3, MemoryWords
<1>6. \A k \in 1 .. Words : k \in keep <=> Memory!CoreWritable(w[k])
  OBVIOUS
<1>7. \A k \in 1 .. Words : Memory!WordAddr(a, k - 1) = w[k]
  OBVIOUS
<1> HIDE DEF w, wc, keep, old, x, p
<1>8. PICK s, u : s = Memory!StoreEntries(a, v) /\ u = Memory!StoredMemory(a, v)
  OBVIOUS
<1>9. Lists(s, keep, x)
  BY <1>1, <1>2, <1>3, <1>8, PiecesList
<1>10. /\ gpr' = gpr /\ flags' = flags /\ memory' = u /\ Alu!ReportChanges(s)
  BY <1>0, <1>8 DEF Memory!Store, Memory!ReportChanges, Alu!ReportChanges
<1>11. u = [c \in Memory!Cells |-> u[c]]
  BY <1>8 DEF Memory!StoredMemory
<1>12. ASSUME NEW c \in Memory!Cells
       PROVE  /\ (\A k \in keep : wc[k] # c) => u[c] = memory[c]
              /\ \A k \in keep : wc[k] = c => u[c] = Memory!Part(v, k - 1)
  <2>1. PICK here : here = {i \in Memory!Stored(a) : Memory!Cell(Memory!WordAddr(a, i)) = c}
    OBVIOUS
  <2>2. u[c] = IF here = {} THEN memory[c] ELSE Memory!Part(v, Memory!Max(here))
    BY <1>8, <2>1, Zenon DEF Memory!StoredMemory
  <2>3. ASSUME NEW i PROVE i \in here <=> \E k \in keep : k - 1 = i /\ wc[k] = c
    <3>1. i \in here <=> /\ i \in 0 .. Words - 1 /\ Memory!CoreWritable(Memory!WordAddr(a, i))
                         /\ Memory!Cell(Memory!WordAddr(a, i)) = c
      BY <2>1 DEF Memory!Stored
    <3>2. ASSUME i \in here PROVE \E k \in keep : k - 1 = i /\ wc[k] = c
      <4>1. i + 1 \in 1 .. Words /\ (i + 1) - 1 = i
        BY <1>1, <3>1, <3>2
      <4>2. w[i + 1] = Memory!WordAddr(a, i)
        BY <1>7, <4>1
      <4>3. i + 1 \in keep /\ wc[i + 1] = c
        BY <1>5, <1>6, <3>1, <3>2, <4>1, <4>2
      <4> QED
        BY <4>1, <4>3
    <3>3. ASSUME NEW k \in keep, k - 1 = i, wc[k] = c PROVE i \in here
      <4>1. k \in 1 .. Words
        BY <1>3
      <4>2. i \in 0 .. Words - 1 /\ Memory!WordAddr(a, i) = w[k]
        BY <1>1, <1>7, <3>3, <4>1
      <4> QED
        BY <1>5, <1>6, <3>1, <3>3, <4>1, <4>2
    <3> QED
      BY <3>2, <3>3
  <2>4. (\A k \in keep : wc[k] # c) => u[c] = memory[c]
    <3>1. (\A k \in keep : wc[k] # c) => here = {}
      BY <2>3
    <3> QED
      BY <2>2, <3>1
  <2>5. ASSUME NEW k \in keep, wc[k] = c PROVE u[c] = Memory!Part(v, k - 1)
    <3>1. PICK i : i = k - 1
      OBVIOUS
    <3>2. here = {i} /\ i \in Nat
      <4>1. k \in 1 .. Words /\ \A j \in keep : wc[j] = c => j = k
        BY <1>3, <1>5, <2>5
      <4> QED
        BY <2>3, <2>5, <3>1, <4>1
    <3>3. Memory!Max({i}) = i
      BY <3>2 DEF Memory!Max
    <3> QED
      BY <2>2, <3>1, <3>2, <3>3
  <2> QED
    BY <2>4, <2>5
<1>13. ASSUME NEW k \in keep
       PROVE  /\ x[k].kind = "MEM" /\ wc[k] \in Memory!Cells
              /\ \A c \in Memory!Cells : x[k].obj \in MemoryAddrs[c] <=> wc[k] = c
              /\ \A j \in keep : wc[j] = wc[k] => j = k
              /\ x[k].obj \in MemoryOut <=> wc[k] \in MemoryExt
              /\ x[k].obj \notin MemoryOut => x[k].old = memory[wc[k]]
              /\ x[k].new = u[wc[k]]
  <2>0. PICK y : y = w[k]
    OBVIOUS
  <2>1. /\ k \in 1 .. Words /\ y \in Memory!Addr /\ wc[k] = Memory!Cell(y) /\ x[k].obj = y
        /\ Memory!CoreWritable(y) /\ wc[k] \in Memory!Cells /\ x[k].kind = "MEM"
    BY <1>3, <1>4, <1>5, <1>6, <2>0
  <2>2. y \in MemoryOut <=> Memory!Cell(y) \in MemoryExt
    BY <2>1, MemoryRegions
  <2>3. \A c \in Memory!Cells : y \in MemoryAddrs[c] <=> Memory!Cell(y) = c
    BY <2>1 DEF MemoryAddrs, Memory!AddrsOf
  <2>4. y \notin MemoryOut => ~Memory!Within("EMEM_OUT", y)
    BY <2>1 DEF MemoryOut
  <2>5. y \notin MemoryOut => x[k].old = memory[wc[k]]
    BY <1>4, <2>0, <2>1, <2>4
  <2>6. x[k].new = u[wc[k]]
    BY <1>4, <1>12, <2>1
  <2>7. \A j \in keep : wc[j] = wc[k] => j = k
    BY <1>3, <1>5, <2>1
  <2> QED
    BY <2>1, <2>2, <2>3, <2>5, <2>6, <2>7
<1>14. PICK regs, cells, addrs, ext, out, m :
         /\ regs = Memory!Regs /\ cells = Memory!Cells /\ addrs = MemoryAddrs
         /\ ext = MemoryExt /\ out = MemoryOut /\ m = memory
  OBVIOUS
<1>15. MemTells(s, cells, addrs, ext, out, m, u)
  <2>1. Written(keep, x, wc, cells, addrs, ext, out, m, u)
    BY <1>12, <1>13, <1>14 DEF Written
  <2> QED
    BY <1>9, <2>1, ListsTell
<1>16. /\ RegsTold(regs) /\ MemTold(cells, addrs, ext, out) /\ Shape(regs, cells)'
       /\ Once(Alu!NewEntries)
  <2>1. /\ Shape(regs, cells) /\ \A k \in keep : x[k].kind = "MEM"
        /\ memory' = [c \in cells |-> memory'[c]]
        /\ MemTells(s, cells, addrs, ext, out, memory, memory')
    BY <1>10, <1>11, <1>13, <1>14, <1>15
  <2> QED
    BY <1>9, <1>10, <2>1, MemoryReports
<1> QED
  BY <1>14, <1>16 DEF MemoryTells

LEMMA MemoryQuietTells ==
  ASSUME StepTells(Memory!Regs, Memory!Cells) PROVE MemoryTells
<1>1. MemTold(Memory!Cells, MemoryAddrs, MemoryExt, MemoryOut)
  BY QuietMemory DEF StepTells
<1> QED
  BY <1>1 DEF StepTells, MemoryTells

LEMMA MemoryToldFrom == ASSUME MemoryTells PROVE Memory!Told
<1>1. Memory!RegistersTold
  BY DEF MemoryTells, RegsTold, Tells, Replays, Concerning, CoreFlags, Memory!RegistersTold,
         Memory!Leads, Memory!About, Memory!Flags, Memory!ZERO, Memory!CARRY, Memory!ERROR,
         Alu!NewEntries, Memory!NewEntries
<1>2. CASE changeReporting
  <2>1. PICK s : s = Memory!NewEntries
    OBVIOUS
  <2>2. MemTells(s, Memory!Cells, MemoryAddrs, MemoryExt, MemoryOut, memory, memory')
    BY <1>2, <2>1 DEF MemoryTells, MemTold, Alu!NewEntries, Memory!NewEntries
  <2>3. \A kind, objs : Memory!About(s, kind, objs) = Concerning(s, kind, objs)
    BY DEF Memory!About, Concerning
  <2>4. ASSUME NEW c \in Memory!Cells, ~Memory!External(c)
        PROVE  Memory!Leads(s, Memory!About(s, "MEM", Memory!AddrsOf(c)), memory[c], memory'[c])
    <3>1. c \in Memory!Cells \ MemoryExt /\ MemoryAddrs[c] = Memory!AddrsOf(c)
      BY <2>4 DEF MemoryExt, MemoryAddrs
    <3>2. Replays(s, "MEM", Memory!AddrsOf(c), memory[c], memory'[c])
      BY <2>2, <3>1 DEF MemTells
    <3> QED
      BY <3>2 DEF Replays, Concerning, Memory!Leads, Memory!About
  <2>5. ASSUME NEW c \in Memory!Cells
        PROVE  LET ks == Memory!About(s, "MEM",
                           {a \in Memory!AddrsOf(c) : Memory!Within("EMEM_OUT", a)})
               IN IF ks = {} THEN Memory!External(c) => memory'[c] = memory[c]
                  ELSE s[Memory!Max(ks)].new = memory'[c]
    <3>1. PICK ks : ks = Memory!About(s, "MEM",
                           {a \in Memory!AddrsOf(c) : Memory!Within("EMEM_OUT", a)})
      OBVIOUS
    <3>2. {a \in Memory!AddrsOf(c) : Memory!Within("EMEM_OUT", a)} = MemoryAddrs[c] \cap MemoryOut
      BY DEF MemoryAddrs, MemoryOut, Memory!AddrsOf
    <3>3. ks = Concerning(s, "MEM", MemoryAddrs[c] \cap MemoryOut)
      BY <2>3, <3>1, <3>2
    <3>4. \/ ks = {} /\ (c \in MemoryExt => memory'[c] = memory[c])
          \/ \E j \in Nat : ks = {j} /\ s[j].new = memory'[c]
      BY <2>2, <3>3 DEF MemTells
    <3>5. \A j \in Nat : Memory!Max({j}) = j
      BY DEF Memory!Max
    <3>6. Memory!External(c) => c \in MemoryExt
      BY DEF MemoryExt
    <3> QED
      BY <3>1, <3>4, <3>5, <3>6
  <2>6. Memory!MemoryTold
    BY <2>1, <2>4 DEF Memory!MemoryTold
  <2>7. Memory!OutputTold
    BY <2>1, <2>5 DEF Memory!OutputTold
  <2> QED
    BY <1>1, <2>6, <2>7 DEF Memory!Told
<1> QED
  BY <1>1, <1>2 DEF Memory!Told, Memory!MemoryTold, Memory!OutputTold

LEMMA BusTells ==
  ASSUME Shape(Memory!Regs, Memory!Cells), NEW a \in Memory!Addr, NEW d,
         Memory!WriteMemoryAhb(a, d)
  PROVE  MemoryTells
<1>1. CASE ~Memory!AhbWritable(a)
  <2>1. PICK S : changes \in Seq(S)
    BY DEF Shape, IsSeq
  <2>2. changes \o <<>> = changes
    BY <2>1, ConcatEmptySeq
  <2>3. gpr' = gpr /\ flags' = flags /\ memory' = memory /\ changes' = changes
    BY <1>1, <2>2 DEF Memory!WriteMemoryAhb, Memory!ReportChanges
  <2>4. StepTells(Memory!Regs, Memory!Cells)
    BY <2>3, NothingToTell
  <2> QED
    BY <2>4, MemoryQuietTells
<1>2. CASE Memory!AhbWritable(a)
  <2>1. PICK c, e : c = Memory!Cell(a) /\ e = Memory!Entry("MEM", a, memory[c], d)
    OBVIOUS
  <2>2. PICK u : u = [memory EXCEPT ![c] = d]
    OBVIOUS
  <2>3. gpr' = gpr /\ flags' = flags /\ memory' = u /\ Alu!ReportChanges(<<e>>)
    BY <1>2, <2>1, <2>2 DEF Memory!WriteMemoryAhb, Memory!ReportChanges, Alu!ReportChanges
  <2>4. c \in Memory!Cells /\ a \notin MemoryOut /\ c \notin MemoryExt
    BY <1>2, <2>1, MemoryWords, MemoryRegions
  <2>5. memory = [b \in Memory!Cells |-> memory[b]]
    BY DEF Shape
  <2>6. /\ u = [b \in Memory!Cells |-> u[b]] /\ u[c] = d
        /\ \A b \in Memory!Cells : b # c => u[b] = memory[b]
    BY <2>2, <2>4, <2>5
  <2>7. e.kind = "MEM" /\ e.obj = a /\ e.old = memory[c] /\ e.new = d
    BY <2>1 DEF Memory!Entry
  <2>8. PICK x, wc, keep : x = [k \in {1} |-> e] /\ wc = [k \in {1} |-> c] /\ keep = {1}
    OBVIOUS
  <2>9. x[1] = e /\ wc[1] = c
    BY <2>8
  <2>10. PICK s : s = <<e>>
    OBVIOUS
  <2>11. Lists(s, keep, x)
    BY <2>8, <2>9, <2>10, ListsOne
  <2>12. \A b \in Memory!Cells : a \in MemoryAddrs[b] <=> c = b
    BY <2>1 DEF MemoryAddrs, Memory!AddrsOf
  <2>13. PICK regs, cells, addrs, ext, out, m :
           /\ regs = Memory!Regs /\ cells = Memory!Cells /\ addrs = MemoryAddrs
           /\ ext = MemoryExt /\ out = MemoryOut /\ m = memory
    OBVIOUS
  <2>14. Written(keep, x, wc, cells, addrs, ext, out, m, u)
    BY <2>4, <2>6, <2>7, <2>8, <2>9, <2>12, <2>13 DEF Written
  <2>15. MemTells(s, cells, addrs, ext, out, m, u)
    BY <2>11, <2>14, ListsTell
  <2>16. RegsTold(regs) /\ MemTold(cells, addrs, ext, out) /\ Shape(regs, cells)'
    <3>1. /\ Shape(regs, cells) /\ \A k \in keep : x[k].kind = "MEM"
          /\ memory' = [b \in cells |-> memory'[b]] /\ Alu!ReportChanges(s)
          /\ MemTells(s, cells, addrs, ext, out, memory, memory')
      BY <2>3, <2>6, <2>7, <2>8, <2>9, <2>10, <2>13, <2>15
    <3> QED
      BY <2>3, <2>11, <3>1, MemoryReports
  <2> QED
    BY <2>13, <2>16 DEF MemoryTells
<1> QED
  BY <1>1, <1>2

\* A silent call keeps the queue.
LEMMA SilentShape ==
  ASSUME Shape(Memory!Regs, Memory!Cells), Memory!SilentCall
  PROVE  Shape(Memory!Regs, Memory!Cells)'
<1>1. /\ gpr = [r \in Memory!Regs |-> gpr[r]] /\ flags = [x \in CoreFlags |-> flags[x]]
      /\ memory = [c \in Memory!Cells |-> memory[c]] /\ IsSeq(changes)
  BY DEF Shape
<1>2. ASSUME Memory!ResetData
      PROVE  /\ gpr' = [r \in Memory!Regs |-> gpr'[r]] /\ flags' = [x \in CoreFlags |-> flags'[x]]
             /\ changes' = changes
  BY <1>2 DEF Memory!ResetData, CoreFlags, Memory!Flags, Memory!ZERO, Memory!CARRY, Memory!ERROR
<1>3. CASE Memory!Reset
  BY <1>1, <1>2, <1>3 DEF Memory!Reset, Shape
<1>4. ASSUME NEW a \in Memory!Addr, NEW d, Memory!SetMemory(a, d)
      PROVE  Shape(Memory!Regs, Memory!Cells)'
  <2>1. PICK c, u : c = Memory!Cell(a) /\ u = [memory EXCEPT ![c] = d]
    OBVIOUS
  <2>2. memory' = u
    BY <1>4, <2>1, Zenon DEF Memory!SetMemory
  <2>3. u = [b \in Memory!Cells |-> u[b]]
    BY <1>1, <2>1
  <2>4. CASE UNCHANGED <<gpr, flags, changes>>
    BY <1>1, <2>2, <2>3, <2>4 DEF Shape
  <2>5. CASE Memory!ResetData
    BY <1>1, <1>2, <2>2, <2>3, <2>5 DEF Shape
  <2> QED
    BY <1>4, <2>4, <2>5 DEF Memory!SetMemory
<1>5. ASSUME NEW r \in Memory!Regs, NEW i, NEW d, Memory!SetGprPart(r, i, d)
      PROVE  Shape(Memory!Regs, Memory!Cells)'
  <2>1. PICK v : gpr' = Memory!SetGpr(r, v)
    BY <1>5, Zenon DEF Memory!SetGprPart
  <2>2. PICK g : g = [gpr EXCEPT ![r] = v]
    OBVIOUS
  <2>3. gpr' = g
    BY <2>1, <2>2, Zenon DEF Memory!SetGpr
  <2>4. g = [x \in Memory!Regs |-> g[x]]
    BY <1>1, <2>2
  <2>5. flags' = flags /\ memory' = memory /\ changes' = changes
    BY <1>5 DEF Memory!SetGprPart
  <2> QED
    BY <1>1, <2>3, <2>4, <2>5 DEF Shape
<1> QED
  BY <1>3, <1>4, <1>5 DEF Memory!SilentCall

\* Every step of the memory part.
LEMMA MemoryStep ==
  ASSUME Shape(Memory!Regs, Memory!Cells),
         \/ Memory!Aloud((NoneUnread /\ Memory!ExecuteMemory) \/ Memory!ReportingCall)
         \/ NoneUnread /\ Memory!Silent
  PROVE  Memory!Told /\ Shape(Memory!Regs, Memory!Cells)'
<1>1. ASSUME MemoryTells PROVE Memory!Told /\ Shape(Memory!Regs, Memory!Cells)'
  BY <1>1, MemoryToldFrom DEF MemoryTells
<1>2. CASE Memory!ExecuteMemory
  <2>1. PICK r \in Memory!Regs, a \in Memory!Addr : Memory!Load(r, a) \/ Memory!Store(r, a)
    BY <1>2, Zenon DEF Memory!ExecuteMemory, Memory!Ldr, Memory!Str, Memory!Ld, Memory!St
  <2>2. MemoryTells
    BY <2>1, MemoryLoad, MemoryStore
  <2> QED
    BY <1>1, <2>2
<1>3. CASE Memory!ReportingCall
  <2>1. ASSUME NEW a \in Memory!Addr, NEW d, Memory!WriteMemoryAhb(a, d)
        PROVE  MemoryTells
    BY <2>1, BusTells
  <2>2. ASSUME \/ \E d \in Memory!Word : Memory!GrvQueuePush(d)
               \/ \E on \in BOOLEAN : Memory!SetChangeReporting(on)
               \/ Memory!ConsumeChange
        PROVE  MemoryTells
    <3>1. /\ gpr' = gpr /\ flags' = flags /\ memory' = memory
          /\ changes' = changes \/ (changes # <<>> /\ changes' = Tail(changes))
      BY <2>2 DEF Memory!GrvQueuePush, Memory!SetChangeReporting, Memory!ConsumeChange, Memory!data
    <3>2. StepTells(Memory!Regs, Memory!Cells)
      BY <3>1, NothingToTell
    <3> QED
      BY <3>2, MemoryQuietTells
  <2>3. MemoryTells
    BY <1>3, <2>1, <2>2, Zenon DEF Memory!ReportingCall
  <2> QED
    BY <1>1, <2>3
<1>4. CASE Memory!Silent
  BY <1>4, SilentShape DEF Memory!Silent, Memory!Told
<1> QED
  BY <1>2, <1>3, <1>4 DEF Memory!Aloud

--------------------------------------------------------------------------------
(* Instruction set version 1: its memory has the shape of that of the memory part, so *)
(* the arguments about it are the same.                                               *)

V1Addrs == [c \in V1!Cells |-> V1!AddrsOf(c)]
V1Ext == {c \in V1!Cells : V1!External(c)}
V1Out == {a \in V1!Addr : V1!Within("EMEM_OUT", a)}

LEMMA V1Words ==
  ASSUME NEW a \in V1!Addr
  PROVE  /\ \A i \in 0 .. Words - 1 : /\ V1!WordAddr(a, i) \in V1!Addr
                                      /\ V1!Cell(V1!WordAddr(a, i)) \in V1!Cells
         /\ \A i, j \in 0 .. Words - 1 :
              V1!Cell(V1!WordAddr(a, i)) = V1!Cell(V1!WordAddr(a, j)) => i = j
         /\ V1!Cell(a) \in V1!Cells
<1>1. PICK A, B : A = SmallSpace /\ B = SmallWord
  OBVIOUS
<1>2. Fits(A, B, Words) /\ a \in 0 .. A - 1
  BY <1>1, PartAssumption, WidthAssumption DEF V1!CoreAssumption, Fits, V1!Addr
<1>3. \A i : V1!WordAddr(a, i) = WordAt(A, B, a, i)
  BY <1>1 DEF V1!WordAddr, WordAt
<1>4. ASSUME NEW i \in 0 .. Words - 1
      PROVE  WordAt(A, B, a, i) \in 0 .. A - 1 /\ WordAt(A, B, a, i) \div B \in 0 .. A \div B - 1
  <2>1. /\ WordAt(A, B, a, i) \in 0 .. A - 1
        /\ WordAt(A, B, a, i) \div B = Place(A, B, a, i)
        /\ Place(A, B, a, i) \in 0 .. A \div B - 1
    BY <1>2, WordPlace
  <2> QED
    BY <2>1
<1>5. ASSUME NEW i \in 0 .. Words - 1, NEW j \in 0 .. Words - 1,
             WordAt(A, B, a, i) \div B = WordAt(A, B, a, j) \div B
      PROVE  i = j
  BY <1>2, <1>5, WordsApart
<1>6. a \div B \in 0 .. A \div B - 1
  <2>1. 0 \in 0 .. Words - 1
    BY WidthAssumption
  <2> QED
    BY <1>2, <2>1, WordPlace
<1> QED
  BY <1>1, <1>3, <1>4, <1>5, <1>6 DEF V1!Addr, V1!Cell, V1!Cells

LEMMA V1Regions ==
  ASSUME NEW w \in V1!Addr
  PROVE  /\ V1!CoreWritable(w) => (w \in V1Out <=> V1!Cell(w) \in V1Ext)
         /\ V1!Within("EMEM_IN", w) => w \notin V1Out /\ V1!Cell(w) \in V1Ext
<1>1. \A m, n \in V1!CpuMemory : \A a, b \in V1!Addr :
        V1!Within(m, a) /\ V1!Within(n, b) /\ V1!Cell(a) = V1!Cell(b) => m = n
  BY PartAssumption DEF V1!CoreAssumption
<1>2. {"DATA_RAM_IN", "DATA_RAM_OUT", "EMEM_IN", "EMEM_OUT", "INSTR_MEM"} \subseteq V1!CpuMemory
  BY DEF V1!CpuMemory
<1>3. V1!Cell(w) \in V1!Cells
  BY V1Words
<1>4. ASSUME NEW m \in {"EMEM_IN", "EMEM_OUT"}, V1!Within(m, w)
      PROVE  V1!Cell(w) \in V1Ext
  BY <1>3, <1>4 DEF V1Ext, V1!External, V1!AddrsOf
<1>5. ASSUME NEW m \in V1!CpuMemory, V1!Within(m, w), V1!Cell(w) \in V1Ext
      PROVE  m \in {"EMEM_IN", "EMEM_OUT"}
  <2>1. PICK b \in V1!Addr, n \in {"EMEM_IN", "EMEM_OUT"} :
          V1!Cell(b) = V1!Cell(w) /\ V1!Within(n, b)
    BY <1>5 DEF V1Ext, V1!External, V1!AddrsOf
  <2> QED
    BY <1>1, <1>2, <1>5, <2>1
<1>6. \A m \in V1!CpuMemory : V1!Within(m, w) /\ w \in V1Out => m = "EMEM_OUT"
  BY <1>1, <1>2 DEF V1Out
<1>7. V1!Within("EMEM_OUT", w) => w \in V1Out
  BY DEF V1Out
<1>8. V1!CoreWritable(w) => (w \in V1Out <=> V1!Cell(w) \in V1Ext)
  BY <1>2, <1>4, <1>5, <1>6, <1>7 DEF V1!CoreWritable, V1Out
<1> QED
  BY <1>2, <1>4, <1>6, <1>8

V1Tells ==
  /\ RegsTold(V1!Regs) /\ MemTold(V1!Cells, V1Addrs, V1Ext, V1Out)
  /\ Shape(V1!Regs, V1!Cells)'

LEMMA V1Load ==
  ASSUME Shape(V1!Regs, V1!Cells), NEW r \in V1!Regs, NEW a \in V1!Addr,
         V1!Load(r, a)
  PROVE  V1Tells /\ Once(Alu!NewEntries)
<1> DEFINE w == [k \in 1 .. Words |-> V1!WordAddr(a, k - 1)]
           keep == {k \in 1 .. Words : V1!Within("EMEM_IN", w[k])}
           x == [k \in 1 .. Words |-> V1!Entry("MEM", w[k], 0, 0)]
           p == [k \in 1 .. Words |-> IF k \in keep THEN <<x[k]>> ELSE <<>>]
<1>1. Words \in Nat /\ Words >= 1
  BY WidthAssumption
<1>2. V1!LoadEntries(a) = FlattenSeq(p)
  <2>1. p = [k \in 1 .. Words |->
               LET y == V1!WordAddr(a, k - 1)
               IN IF V1!Within("EMEM_IN", y) THEN <<V1!Entry("MEM", y, 0, 0)>> ELSE <<>>]
    OBVIOUS
  <2> HIDE DEF p
  <2>2. V1!LoadEntries(a) = V1!FlattenSeq(p)
    BY <2>1, Zenon DEF V1!LoadEntries
  <2> QED
    BY <2>2, SameFlatten
<1>3. /\ p = [k \in 1 .. Words |-> p[k]]
      /\ \A k \in 1 .. Words : p[k] = IF k \in keep THEN <<x[k]>> ELSE <<>>
      /\ keep \in SUBSET (1 .. Words)
  OBVIOUS
<1>4. /\ \A k \in keep : x[k].kind = "MEM" /\ x[k].obj = w[k]
      /\ \A k \in keep : V1!Within("EMEM_IN", w[k]) /\ w[k] \in V1!Addr
  <2>1. \A k \in 1 .. Words : x[k].kind = "MEM" /\ x[k].obj = w[k]
    BY DEF V1!Entry
  <2>2. \A k \in 1 .. Words : w[k] \in V1!Addr
    BY <1>1, V1Words
  <2> QED
    BY <2>1, <2>2
<1> HIDE DEF w, keep, x, p
<1>5. PICK s : s = V1!LoadEntries(a)
  OBVIOUS
<1>6. Lists(s, keep, x)
  BY <1>1, <1>2, <1>3, <1>5, PiecesList
<1>7. ASSUME NEW k \in keep
      PROVE  /\ x[k].obj \notin V1Out
             /\ \A c \in V1!Cells : x[k].obj \in V1Addrs[c] => c \in V1Ext
  <2>1. PICK y : y = w[k]
    OBVIOUS
  <2>2. y \in V1!Addr /\ x[k].obj = y /\ V1!Within("EMEM_IN", y)
    BY <1>4, <2>1
  <2>3. y \notin V1Out /\ V1!Cell(y) \in V1Ext
    BY <2>2, V1Regions
  <2> QED
    BY <2>2, <2>3 DEF V1Addrs, V1!AddrsOf
<1>8. PICK v, g : v = V1!LoadedGpr(a) /\ g = V1!SetGpr(r, v)
  OBVIOUS
<1>9. V1!Retire(g, flags, s \o V1!GprEntry(r, g))
  BY <1>5, <1>8, Zenon DEF V1!Load
<1>10. /\ gpr' = g /\ flags' = flags /\ memory' = memory /\ g = Alu!SetGpr(r, v)
       /\ Alu!ReportChanges(s \o Alu!GprEntry(r, g))
  <2>1. g = Alu!SetGpr(r, v) /\ V1!GprEntry(r, g) = Alu!GprEntry(r, g)
    BY <1>8 DEF V1!SetGpr, Alu!SetGpr, V1!GprEntry, Alu!GprEntry, V1!Entry, Alu!Entry
  <2> QED
    BY <1>9, <2>1 DEF V1!Retire, V1!ReportChanges, Alu!ReportChanges
<1>11. \A k \in keep : x[k].kind = "MEM"
  BY <1>4
<1>12. PICK regs, cells, addrs, ext, out :
         /\ regs = V1!Regs /\ cells = V1!Cells /\ addrs = V1Addrs
         /\ ext = V1Ext /\ out = V1Out
  OBVIOUS
<1>13. /\ RegsTold(regs) /\ MemTold(cells, addrs, ext, out) /\ Shape(regs, cells)'
       /\ Once(Alu!NewEntries)
  <2>1. /\ Shape(regs, cells) /\ r \in regs
        /\ \A k \in keep : x[k].obj \notin out
        /\ \A k \in keep : \A c \in cells : x[k].obj \in addrs[c] => c \in ext
    BY <1>7, <1>12
  <2> QED
    BY <1>6, <1>10, <1>11, <2>1, LoadTells
<1> QED
  BY <1>12, <1>13 DEF V1Tells

LEMMA V1Store ==
  ASSUME Shape(V1!Regs, V1!Cells), NEW r \in V1!Regs, NEW a \in V1!Addr,
         V1!Store(r, a)
  PROVE  V1Tells /\ Once(Alu!NewEntries)
<1>0. PICK v : v = gpr[r]
  OBVIOUS
<1> DEFINE w == [k \in 1 .. Words |-> V1!WordAddr(a, k - 1)]
           wc == [k \in 1 .. Words |-> V1!Cell(w[k])]
           keep == {k \in 1 .. Words : V1!CoreWritable(w[k])}
           old == [k \in 1 .. Words |->
                     IF V1!Within("EMEM_OUT", w[k]) THEN 0 ELSE memory[wc[k]]]
           x == [k \in 1 .. Words |->
                   V1!Entry("MEM", w[k], old[k], V1!Part(v, k - 1))]
           p == [k \in 1 .. Words |-> IF k \in keep THEN <<x[k]>> ELSE <<>>]
<1>1. Words \in Nat /\ Words >= 1
  BY WidthAssumption
<1>2. V1!StoreEntries(a, v) = FlattenSeq(p)
  <2>1. p = [k \in 1 .. Words |->
               LET y == V1!WordAddr(a, k - 1)
                   z == IF V1!Within("EMEM_OUT", y) THEN 0 ELSE memory[V1!Cell(y)]
               IN IF V1!CoreWritable(y)
                  THEN <<V1!Entry("MEM", y, z, V1!Part(v, k - 1))>> ELSE <<>>]
    OBVIOUS
  <2> HIDE DEF p
  <2>2. V1!StoreEntries(a, v) = V1!FlattenSeq(p)
    BY <2>1, Zenon DEF V1!StoreEntries
  <2> QED
    BY <2>2, SameFlatten
<1>3. /\ p = [k \in 1 .. Words |-> p[k]]
      /\ \A k \in 1 .. Words : p[k] = IF k \in keep THEN <<x[k]>> ELSE <<>>
      /\ keep \in SUBSET (1 .. Words)
  OBVIOUS
<1>4. \A k \in 1 .. Words :
        /\ x[k].kind = "MEM" /\ x[k].obj = w[k] /\ x[k].new = V1!Part(v, k - 1)
        /\ x[k].old = IF V1!Within("EMEM_OUT", w[k]) THEN 0 ELSE memory[wc[k]]
  BY DEF V1!Entry
<1>5. /\ \A k \in 1 .. Words : w[k] \in V1!Addr /\ wc[k] = V1!Cell(w[k])
      /\ \A k \in 1 .. Words : wc[k] \in V1!Cells
      /\ \A j, k \in 1 .. Words : wc[j] = wc[k] => j = k
  <2>1. \A k \in 1 .. Words : k - 1 \in 0 .. Words - 1
    BY <1>1
  <2>2. \A j, k \in 1 .. Words : wc[j] = wc[k] => j - 1 = k - 1
    BY <2>1, V1Words
  <2>3. \A j, k \in 1 .. Words : j - 1 = k - 1 => j = k
    OBVIOUS
  <2> QED
    BY <2>1, <2>2, <2>3, V1Words
<1>6. \A k \in 1 .. Words : k \in keep <=> V1!CoreWritable(w[k])
  OBVIOUS
<1>7. \A k \in 1 .. Words : V1!WordAddr(a, k - 1) = w[k]
  OBVIOUS
<1> HIDE DEF w, wc, keep, old, x, p
<1>8. PICK s, u : s = V1!StoreEntries(a, v) /\ u = V1!StoredMemory(a, v)
  OBVIOUS
<1>9. Lists(s, keep, x)
  BY <1>1, <1>2, <1>3, <1>8, PiecesList
<1>10. /\ gpr' = gpr /\ flags' = flags /\ memory' = u /\ Alu!ReportChanges(s)
  BY <1>0, <1>8 DEF V1!Store, V1!ReportChanges, Alu!ReportChanges
<1>11. u = [c \in V1!Cells |-> u[c]]
  BY <1>8 DEF V1!StoredMemory
<1>12. ASSUME NEW c \in V1!Cells
       PROVE  /\ (\A k \in keep : wc[k] # c) => u[c] = memory[c]
              /\ \A k \in keep : wc[k] = c => u[c] = V1!Part(v, k - 1)
  <2>1. PICK here : here = {i \in V1!Stored(a) : V1!Cell(V1!WordAddr(a, i)) = c}
    OBVIOUS
  <2>2. u[c] = IF here = {} THEN memory[c] ELSE V1!Part(v, V1!Max(here))
    BY <1>8, <2>1, Zenon DEF V1!StoredMemory
  <2>3. ASSUME NEW i PROVE i \in here <=> \E k \in keep : k - 1 = i /\ wc[k] = c
    <3>1. i \in here <=> /\ i \in 0 .. Words - 1 /\ V1!CoreWritable(V1!WordAddr(a, i))
                         /\ V1!Cell(V1!WordAddr(a, i)) = c
      BY <2>1 DEF V1!Stored
    <3>2. ASSUME i \in here PROVE \E k \in keep : k - 1 = i /\ wc[k] = c
      <4>1. i + 1 \in 1 .. Words /\ (i + 1) - 1 = i
        BY <1>1, <3>1, <3>2
      <4>2. w[i + 1] = V1!WordAddr(a, i)
        BY <1>7, <4>1
      <4>3. i + 1 \in keep /\ wc[i + 1] = c
        BY <1>5, <1>6, <3>1, <3>2, <4>1, <4>2
      <4> QED
        BY <4>1, <4>3
    <3>3. ASSUME NEW k \in keep, k - 1 = i, wc[k] = c PROVE i \in here
      <4>1. k \in 1 .. Words
        BY <1>3
      <4>2. i \in 0 .. Words - 1 /\ V1!WordAddr(a, i) = w[k]
        BY <1>1, <1>7, <3>3, <4>1
      <4> QED
        BY <1>5, <1>6, <3>1, <3>3, <4>1, <4>2
    <3> QED
      BY <3>2, <3>3
  <2>4. (\A k \in keep : wc[k] # c) => u[c] = memory[c]
    <3>1. (\A k \in keep : wc[k] # c) => here = {}
      BY <2>3
    <3> QED
      BY <2>2, <3>1
  <2>5. ASSUME NEW k \in keep, wc[k] = c PROVE u[c] = V1!Part(v, k - 1)
    <3>1. PICK i : i = k - 1
      OBVIOUS
    <3>2. here = {i} /\ i \in Nat
      <4>1. k \in 1 .. Words /\ \A j \in keep : wc[j] = c => j = k
        BY <1>3, <1>5, <2>5
      <4> QED
        BY <2>3, <2>5, <3>1, <4>1
    <3>3. V1!Max({i}) = i
      BY <3>2 DEF V1!Max
    <3> QED
      BY <2>2, <3>1, <3>2, <3>3
  <2> QED
    BY <2>4, <2>5
<1>13. ASSUME NEW k \in keep
       PROVE  /\ x[k].kind = "MEM" /\ wc[k] \in V1!Cells
              /\ \A c \in V1!Cells : x[k].obj \in V1Addrs[c] <=> wc[k] = c
              /\ \A j \in keep : wc[j] = wc[k] => j = k
              /\ x[k].obj \in V1Out <=> wc[k] \in V1Ext
              /\ x[k].obj \notin V1Out => x[k].old = memory[wc[k]]
              /\ x[k].new = u[wc[k]]
  <2>0. PICK y : y = w[k]
    OBVIOUS
  <2>1. /\ k \in 1 .. Words /\ y \in V1!Addr /\ wc[k] = V1!Cell(y) /\ x[k].obj = y
        /\ V1!CoreWritable(y) /\ wc[k] \in V1!Cells /\ x[k].kind = "MEM"
    BY <1>3, <1>4, <1>5, <1>6, <2>0
  <2>2. y \in V1Out <=> V1!Cell(y) \in V1Ext
    BY <2>1, V1Regions
  <2>3. \A c \in V1!Cells : y \in V1Addrs[c] <=> V1!Cell(y) = c
    BY <2>1 DEF V1Addrs, V1!AddrsOf
  <2>4. y \notin V1Out => ~V1!Within("EMEM_OUT", y)
    BY <2>1 DEF V1Out
  <2>5. y \notin V1Out => x[k].old = memory[wc[k]]
    BY <1>4, <2>0, <2>1, <2>4
  <2>6. x[k].new = u[wc[k]]
    BY <1>4, <1>12, <2>1
  <2>7. \A j \in keep : wc[j] = wc[k] => j = k
    BY <1>3, <1>5, <2>1
  <2> QED
    BY <2>1, <2>2, <2>3, <2>5, <2>6, <2>7
<1>14. PICK regs, cells, addrs, ext, out, m :
         /\ regs = V1!Regs /\ cells = V1!Cells /\ addrs = V1Addrs
         /\ ext = V1Ext /\ out = V1Out /\ m = memory
  OBVIOUS
<1>15. MemTells(s, cells, addrs, ext, out, m, u)
  <2>1. Written(keep, x, wc, cells, addrs, ext, out, m, u)
    BY <1>12, <1>13, <1>14 DEF Written
  <2> QED
    BY <1>9, <2>1, ListsTell
<1>16. /\ RegsTold(regs) /\ MemTold(cells, addrs, ext, out) /\ Shape(regs, cells)'
       /\ Once(Alu!NewEntries)
  <2>1. /\ Shape(regs, cells) /\ \A k \in keep : x[k].kind = "MEM"
        /\ memory' = [c \in cells |-> memory'[c]]
        /\ MemTells(s, cells, addrs, ext, out, memory, memory')
    BY <1>10, <1>11, <1>13, <1>14, <1>15
  <2> QED
    BY <1>9, <1>10, <2>1, MemoryReports
<1> QED
  BY <1>14, <1>16 DEF V1Tells

LEMMA V1QuietTells ==
  ASSUME StepTells(V1!Regs, V1!Cells) PROVE V1Tells
<1>1. MemTold(V1!Cells, V1Addrs, V1Ext, V1Out)
  BY QuietMemory DEF StepTells
<1> QED
  BY <1>1 DEF StepTells, V1Tells

LEMMA V1ToldFrom == ASSUME V1Tells PROVE V1!Told
<1>1. V1!RegistersTold
  BY DEF V1Tells, RegsTold, Tells, Replays, Concerning, CoreFlags, V1!RegistersTold,
         V1!Leads, V1!About, V1!Flags, V1!ZERO, V1!CARRY, V1!ERROR,
         Alu!NewEntries, V1!NewEntries
<1>2. CASE changeReporting
  <2>1. PICK s : s = V1!NewEntries
    OBVIOUS
  <2>2. MemTells(s, V1!Cells, V1Addrs, V1Ext, V1Out, memory, memory')
    BY <1>2, <2>1 DEF V1Tells, MemTold, Alu!NewEntries, V1!NewEntries
  <2>3. \A kind, objs : V1!About(s, kind, objs) = Concerning(s, kind, objs)
    BY DEF V1!About, Concerning
  <2>4. ASSUME NEW c \in V1!Cells, ~V1!External(c)
        PROVE  V1!Leads(s, V1!About(s, "MEM", V1!AddrsOf(c)), memory[c], memory'[c])
    <3>1. c \in V1!Cells \ V1Ext /\ V1Addrs[c] = V1!AddrsOf(c)
      BY <2>4 DEF V1Ext, V1Addrs
    <3>2. Replays(s, "MEM", V1!AddrsOf(c), memory[c], memory'[c])
      BY <2>2, <3>1 DEF MemTells
    <3> QED
      BY <3>2 DEF Replays, Concerning, V1!Leads, V1!About
  <2>5. ASSUME NEW c \in V1!Cells
        PROVE  LET ks == V1!About(s, "MEM",
                           {a \in V1!AddrsOf(c) : V1!Within("EMEM_OUT", a)})
               IN IF ks = {} THEN V1!External(c) => memory'[c] = memory[c]
                  ELSE s[V1!Max(ks)].new = memory'[c]
    <3>1. PICK ks : ks = V1!About(s, "MEM",
                           {a \in V1!AddrsOf(c) : V1!Within("EMEM_OUT", a)})
      OBVIOUS
    <3>2. {a \in V1!AddrsOf(c) : V1!Within("EMEM_OUT", a)} = V1Addrs[c] \cap V1Out
      BY DEF V1Addrs, V1Out, V1!AddrsOf
    <3>3. ks = Concerning(s, "MEM", V1Addrs[c] \cap V1Out)
      BY <2>3, <3>1, <3>2
    <3>4. \/ ks = {} /\ (c \in V1Ext => memory'[c] = memory[c])
          \/ \E j \in Nat : ks = {j} /\ s[j].new = memory'[c]
      BY <2>2, <3>3 DEF MemTells
    <3>5. \A j \in Nat : V1!Max({j}) = j
      BY DEF V1!Max
    <3>6. V1!External(c) => c \in V1Ext
      BY DEF V1Ext
    <3> QED
      BY <3>1, <3>4, <3>5, <3>6
  <2>6. V1!MemoryTold
    BY <2>1, <2>4 DEF V1!MemoryTold
  <2>7. V1!OutputTold
    BY <2>1, <2>5 DEF V1!OutputTold
  <2> QED
    BY <1>1, <2>6, <2>7 DEF V1!Told
<1> QED
  BY <1>1, <1>2 DEF V1!Told, V1!MemoryTold, V1!OutputTold

\* The entries of one register, of flags, or of two different registers.
LEMMA OnceEntries ==
  ASSUME NEW g, NEW fl
  PROVE  /\ \A r : Once(Alu!GprEntry(r, g)) /\ IsSeq(Alu!GprEntry(r, g))
         /\ \A f : /\ Once(Alu!FlagEntry(f, fl)) /\ IsSeq(Alu!FlagEntry(f, fl))
                   /\ \A r : Concerning(Alu!FlagEntry(f, fl), "GPR", {r}) = {}
         /\ \A r, x : x # r => Concerning(Alu!GprEntry(r, g), "GPR", {x}) = {}
<1>1. ASSUME NEW r
      PROVE  /\ Once(Alu!GprEntry(r, g)) /\ IsSeq(Alu!GprEntry(r, g))
             /\ \A x : x # r => Concerning(Alu!GprEntry(r, g), "GPR", {x}) = {}
  <2>1. PICK e, s : e = Alu!Entry("GPR", r, gpr[r], g[r]) /\ s = <<e>>
    OBVIOUS
  <2>2. s = Alu!GprEntry(r, g) /\ IsSeq(s)
    BY <2>1, GprEntryIs
  <2>3. e.kind = "GPR" /\ e.obj = r
    BY <2>1, EntryFields
  <2>4. \A x : Concerning(s, "GPR", {x}) = IF e.kind = "GPR" /\ e.obj \in {x} THEN {1} ELSE {}
    BY <2>1, OneEntry
  <2>5. Once(s)
    BY <2>4 DEF Once
  <2> QED
    BY <2>2, <2>3, <2>4, <2>5
<1>2. ASSUME NEW f
      PROVE  /\ Once(Alu!FlagEntry(f, fl)) /\ IsSeq(Alu!FlagEntry(f, fl))
             /\ \A r : Concerning(Alu!FlagEntry(f, fl), "GPR", {r}) = {}
  <2>1. PICK e, s : e = Alu!Entry("FLAG", f, flags[f], fl[f]) /\ s = <<e>>
    OBVIOUS
  <2>2. s = Alu!FlagEntry(f, fl) /\ IsSeq(s)
    BY <2>1, FlagEntryIs
  <2>3. e.kind = "FLAG"
    BY <2>1, EntryFields
  <2>4. \A x : Concerning(s, "GPR", {x}) = IF e.kind = "GPR" /\ e.obj \in {x} THEN {1} ELSE {}
    BY <2>1, OneEntry
  <2>5. \A x : Concerning(s, "GPR", {x}) = {}
    BY <2>3, <2>4
  <2>6. Once(s)
    BY <2>5 DEF Once
  <2> QED
    BY <2>2, <2>5, <2>6
<1> QED
  BY <1>1, <1>2

LEMMA OnceTwo ==
  ASSUME NEW r, NEW s, r # s, NEW g
  PROVE  Once(Alu!GprEntry(r, g) \o Alu!GprEntry(s, g))
<1>1. PICK t, u : t = Alu!GprEntry(r, g) /\ u = Alu!GprEntry(s, g)
  OBVIOUS
<1>2. /\ IsSeq(t) /\ IsSeq(u) /\ Once(t) /\ Once(u)
      /\ \A x : x # r => Concerning(t, "GPR", {x}) = {}
      /\ \A x : x # s => Concerning(u, "GPR", {x}) = {}
  BY <1>1, OnceEntries
<1>3. Once(t \o u)
  BY <1>2, OnceConcat
<1> QED
  BY <1>1, <1>3

LEMMA OnceBoth ==
  ASSUME NEW r, NEW g, NEW f, NEW fl
  PROVE  Once(Alu!GprEntry(r, g) \o Alu!FlagEntry(f, fl))
<1>1. PICK t, u : t = Alu!GprEntry(r, g) /\ u = Alu!FlagEntry(f, fl)
  OBVIOUS
<1>2. /\ IsSeq(t) /\ IsSeq(u) /\ Once(t) /\ Once(u)
      /\ \A x : Concerning(u, "GPR", {x}) = {}
  BY <1>1, OnceEntries
<1>3. Once(t \o u)
  BY <1>2, OnceConcat
<1> QED
  BY <1>1, <1>3

\* What every step of version 1 does.
V1Done == V1Tells /\ Once(Alu!NewEntries)

LEMMA V1StoredDone ==
  ASSUME Shape(V1!Regs, V1!Cells), NEW r \in V1!Regs, NEW v,
         gpr' = V1!SetGpr(r, v), flags' = flags, memory' = memory,
         V1!ReportChanges(V1!GprEntry(r, gpr'))
  PROVE  V1Done
<1>1. gpr' = Alu!SetGpr(r, v) /\ Alu!ReportChanges(Alu!GprEntry(r, gpr'))
  BY DEF V1!SetGpr, Alu!SetGpr, V1!GprEntry, Alu!GprEntry, V1!Entry, Alu!Entry,
         V1!ReportChanges, Alu!ReportChanges
<1>2. V1Tells
  BY <1>1, StoredGprTells, V1QuietTells
<1>3. PICK s, g : g = gpr' /\ s = Alu!GprEntry(r, g)
  OBVIOUS
<1>4. IsSeq(s) /\ Once(s) /\ Alu!ReportChanges(s)
  BY <1>1, <1>3, OnceEntries
<1> QED
  BY <1>2, <1>4, ReportedOnce DEF V1Done, Shape

LEMMA V1PutGprDone ==
  ASSUME Shape(V1!Regs, V1!Cells), NEW r \in V1!Regs, NEW v, V1!PutGpr(r, v)
  PROVE  V1Done
<1>1. gpr' = V1!SetGpr(r, v) /\ flags' = flags /\ memory' = memory
  BY DEF V1!PutGpr, V1!Retire
<1>2. V1!ReportChanges(V1!GprEntry(r, gpr'))
  BY Zenon DEF V1!PutGpr, V1!Retire
<1> QED
  BY <1>1, <1>2, V1StoredDone

LEMMA V1PutFlagDone ==
  ASSUME Shape(V1!Regs, V1!Cells), NEW f \in CoreFlags, NEW c, V1!PutFlag(f, c)
  PROVE  V1Done
<1>1. Alu!PutFlag(f, c)
  BY DEF V1!PutFlag, Alu!PutFlag, V1!Retire, Alu!Retire, V1!SetCpuFlag, Alu!SetCpuFlag,
         V1!FlagEntry, Alu!FlagEntry, V1!Entry, Alu!Entry, V1!ReportChanges, Alu!ReportChanges
<1>2. V1Tells
  BY <1>1, PutFlagTells, V1QuietTells
<1>3. PICK fl : Alu!ReportChanges(Alu!FlagEntry(f, fl))
  BY <1>1, Zenon DEF Alu!PutFlag, Alu!Retire
<1> QED
  BY <1>2, <1>3, OnceEntries, ReportedOnce DEF V1Done, Shape

LEMMA V1PutBothDone ==
  ASSUME Shape(V1!Regs, V1!Cells), NEW r \in V1!Regs, NEW v, NEW f \in CoreFlags, NEW c,
         V1!PutBoth(r, v, f, c)
  PROVE  V1Done
<1>1. Alu!PutBoth(r, v, f, c)
  BY DEF V1!PutBoth, Alu!PutBoth, V1!Retire, Alu!Retire, V1!SetCpuFlag, Alu!SetCpuFlag,
         V1!FlagEntry, Alu!FlagEntry, V1!SetGpr, Alu!SetGpr, V1!GprEntry, Alu!GprEntry,
         V1!Entry, Alu!Entry, V1!ReportChanges, Alu!ReportChanges
<1>2. V1Tells
  BY <1>1, PutBothTells, V1QuietTells
<1>3. PICK g, fl : Alu!ReportChanges(Alu!GprEntry(r, g) \o Alu!FlagEntry(f, fl))
  BY <1>1, Zenon DEF Alu!PutBoth, Alu!Retire
<1>4. PICK s : s = Alu!GprEntry(r, g) \o Alu!FlagEntry(f, fl)
  OBVIOUS
<1>5. IsSeq(s) /\ Once(s) /\ Alu!ReportChanges(s)
  BY <1>3, <1>4, OnceEntries, OnceBoth, ConcatSeqs
<1> QED
  BY <1>2, <1>5, ReportedOnce DEF V1Done, Shape

\* Two different registers are stored and reported.
LEMMA V1TwoDone ==
  ASSUME Shape(V1!Regs, V1!Cells), NEW r \in V1!Regs, NEW s \in V1!Regs, r # s,
         NEW g, g = [x \in V1!Regs |-> g[x]],
         \A x \in V1!Regs : x \notin {r, s} => g[x] = gpr[x],
         gpr' = g, flags' = flags, memory' = memory,
         V1!ReportChanges(V1!GprEntry(r, g) \o V1!GprEntry(s, g))
  PROVE  V1Done
<1>1. Alu!ReportChanges(Alu!GprEntry(r, g) \o Alu!GprEntry(s, g))
  BY DEF V1!ReportChanges, Alu!ReportChanges, V1!GprEntry, Alu!GprEntry, V1!Entry, Alu!Entry
<1>2. V1Tells
  BY <1>1, PutTwoTells, V1QuietTells
<1>3. PICK t : t = Alu!GprEntry(r, g) \o Alu!GprEntry(s, g)
  OBVIOUS
<1>4. IsSeq(t) /\ Once(t) /\ Alu!ReportChanges(t)
  BY <1>1, <1>3, OnceEntries, OnceTwo, ConcatSeqs
<1> QED
  BY <1>2, <1>4, ReportedOnce DEF V1Done, Shape

LEMMA V1QuietDone ==
  ASSUME Shape(V1!Regs, V1!Cells), gpr' = gpr, flags' = flags, memory' = memory,
         changes' = changes \/ (changes # <<>> /\ changes' = Tail(changes))
  PROVE  V1Done
<1>1. V1Tells
  BY NothingToTell, V1QuietTells
<1>2. Alu!NewEntries = <<>>
  BY NothingNew DEF Shape
<1> QED
  BY <1>1, <1>2, NoEntries DEF V1Done, Once

LEMMA V1SetGpr2Is ==
  ASSUME Shape(V1!Regs, V1!Cells), NEW r \in V1!Regs, NEW s \in V1!Regs, NEW v, NEW w,
         NEW g, g = V1!SetGpr2(r, v, s, w)
  PROVE  /\ g = [x \in V1!Regs |-> g[x]]
         /\ \A x \in V1!Regs : x \notin {r, s} => g[x] = gpr[x]
<1>1. PICK regs : regs = V1!Regs
  OBVIOUS
<1>2. gpr = [x \in regs |-> gpr[x]] /\ r \in regs /\ s \in regs
  BY <1>1 DEF Shape
<1>3. g = Alu!SetGpr2(r, v, s, w)
  BY Zenon DEF V1!SetGpr2, Alu!SetGpr2
<1>4. PICK x1, x2, x3, x4 : x1 = r /\ x2 = v /\ x3 = s /\ x4 = w
  OBVIOUS
<1>5. /\ g = Alu!SetGpr2(x1, x2, x3, x4) /\ x1 \in regs /\ x3 \in regs
      /\ gpr = [x \in regs |-> gpr[x]]
  BY <1>2, <1>3, <1>4
<1>6. g = [x \in regs |-> g[x]]
  BY <1>5, SetGpr2Is
<1>7. \A x \in regs : x \notin {x1, x3} => g[x] = gpr[x]
  BY <1>5, SetGpr2Is
<1> QED
  BY <1>1, <1>4, <1>6, <1>7

LEMMA V1Next == \A r \in V1!Regs : V1!Next1(r) \in V1!Regs /\ V1!Next1(r) # r
  BY NextRegister, PartAssumption DEF V1!CoreAssumption, V1!Regs, V1!Next1

LEMMA V1Alu == ASSUME Shape(V1!Regs, V1!Cells), V1!ExecuteAlu PROVE V1Done
<1>0. V1!ZERO \in CoreFlags /\ V1!CARRY \in CoreFlags
  BY DEF V1!ZERO, V1!CARRY, CoreFlags
<1>1. ASSUME NEW r \in V1!Regs, NEW v, V1!PutGpr(r, v) PROVE V1Done
  BY <1>1, V1PutGprDone
<1>2. ASSUME NEW f \in CoreFlags, NEW c, V1!PutFlag(f, c) PROVE V1Done
  BY <1>2, V1PutFlagDone
<1>3. ASSUME NEW r \in V1!Regs, NEW v, NEW f \in CoreFlags, NEW c, V1!PutBoth(r, v, f, c)
      PROVE  V1Done
  BY <1>3, V1PutBothDone
<1>4. CASE V1!ArithR
  BY <1>0, <1>3, <1>4, Zenon DEF V1!ArithR
<1>5. CASE V1!Cmp \/ V1!CmpI \/ V1!CmpA
  BY <1>0, <1>2, <1>5, Zenon DEF V1!Cmp, V1!CmpI, V1!CmpA
<1>6. CASE V1!LogicR
  BY <1>0, <1>3, <1>6, Zenon DEF V1!LogicR
<1>7. CASE V1!Not1
  BY <1>0, <1>3, <1>7, Zenon DEF V1!Not1
<1>8. CASE V1!ShiftByOne
  BY <1>0, <1>3, <1>8, Zenon DEF V1!ShiftByOne
<1>9. CASE V1!RotateByte
  BY <1>1, <1>9, Zenon DEF V1!RotateByte
<1>10. CASE V1!Swe \/ V1!Mov \/ V1!MovI
  BY <1>1, <1>10, Zenon DEF V1!Swe, V1!Mov, V1!MovI
<1>11. CASE V1!ArithI
  BY <1>0, <1>3, <1>11, Zenon DEF V1!ArithI
<1>12. CASE V1!LogicI
  BY <1>0, <1>3, <1>12, Zenon DEF V1!LogicI
<1>13. CASE V1!Modular \/ V1!SubPrime
  BY <1>1, <1>13, Zenon DEF V1!Modular, V1!SubPrime
<1>14. CASE V1!Gpk
  BY <1>1, <1>14, Zenon DEF V1!Gpk
<1>15. CASE V1!Scb
  <2>1. PICK r, v : r \in V1!Regs /\ V1!PutPair(r, v)
    BY <1>15, Zenon DEF V1!Scb
  <2>2. PICK n, lo, hi : n = V1!Next1(r) /\ lo = V1!Low(v) /\ hi = V1!High(v)
    OBVIOUS
  <2>3. PICK g : g = V1!SetGpr2(r, lo, n, hi)
    OBVIOUS
  <2>4. /\ gpr' = g /\ flags' = flags /\ memory' = memory
        /\ V1!ReportChanges(V1!GprEntry(r, g) \o V1!GprEntry(n, g))
    BY <2>1, <2>2, <2>3, Zenon DEF V1!PutPair, V1!Retire
  <2>5. n \in V1!Regs /\ n # r
    BY <2>1, <2>2, V1Next
  <2>6. g = [x \in V1!Regs |-> g[x]] /\ \A x \in V1!Regs : x \notin {r, n} => g[x] = gpr[x]
    BY <2>1, <2>3, <2>5, V1SetGpr2Is
  <2> QED
    BY <2>1, <2>4, <2>5, <2>6, V1TwoDone
<1>16. CASE V1!Cswap
  <2>1. PICK r \in V1!Regs, s \in V1!Regs :
          LET g == IF flags[V1!CARRY] = 1 THEN V1!SetGpr2(s, gpr[r], r, gpr[s]) ELSE gpr
          IN V1!Retire(g, flags,
               V1!GprEntry(r, g) \o (IF r # s THEN V1!GprEntry(s, g) ELSE <<>>))
    BY <1>16, Zenon DEF V1!Cswap
  <2>2. PICK g : g = IF flags[V1!CARRY] = 1 THEN V1!SetGpr2(s, gpr[r], r, gpr[s]) ELSE gpr
    OBVIOUS
  <2>3. V1!Retire(g, flags, V1!GprEntry(r, g) \o (IF r # s THEN V1!GprEntry(s, g) ELSE <<>>))
    BY <2>1, <2>2, Zenon
  <2>4. gpr = [x \in V1!Regs |-> gpr[x]]
    BY DEF Shape
  <2>5. PICK v, w : v = gpr[r] /\ w = gpr[s]
    OBVIOUS
  <2>6. /\ g = [x \in V1!Regs |-> g[x]]
        /\ \A x \in V1!Regs : x \notin {s, r} => g[x] = gpr[x]
    <3>1. CASE flags[V1!CARRY] = 1
      <4>1. g = V1!SetGpr2(s, v, r, w)
        BY <2>2, <2>5, <3>1
      <4> QED
        BY <4>1, V1SetGpr2Is
    <3>2. CASE flags[V1!CARRY] # 1
      BY <2>2, <2>4, <3>2
    <3> QED
      BY <3>1, <3>2
  <2>7. CASE r # s
    <3>1. /\ gpr' = g /\ flags' = flags /\ memory' = memory
          /\ V1!ReportChanges(V1!GprEntry(r, g) \o V1!GprEntry(s, g))
      BY <2>3, <2>7 DEF V1!Retire
    <3>2. \A x \in V1!Regs : x \notin {r, s} => g[x] = gpr[x]
      BY <2>6
    <3> QED
      BY <2>6, <2>7, <3>1, <3>2, V1TwoDone
  <2>8. CASE r = s
    <3>1. PICK t : t = V1!GprEntry(r, g)
      OBVIOUS
    <3>2. IsSeq(t) /\ t = Alu!GprEntry(r, g)
      BY <3>1, GprEntryIs DEF V1!GprEntry, Alu!GprEntry, V1!Entry, Alu!Entry
    <3>3. t \o <<>> = t
      BY <3>2, ConcatEmptySeq DEF IsSeq
    <3>4. /\ gpr' = g /\ flags' = flags /\ memory' = memory
          /\ V1!ReportChanges(t \o <<>>)
      BY <2>3, <2>8, <3>1 DEF V1!Retire
    <3>5. V1!ReportChanges(t)
      BY <3>3, <3>4
    <3>6. PICK x, h : x = g[r] /\ h = [gpr EXCEPT ![r] = x]
      OBVIOUS
    <3>7. h = [y \in V1!Regs |-> h[y]] /\ \A y \in V1!Regs : h[y] = g[y]
      BY <2>4, <2>6, <2>8, <3>6
    <3>8. h = g
      BY <2>6, <3>7
    <3>9. h = V1!SetGpr(r, x)
      BY <3>6, Zenon DEF V1!SetGpr
    <3>10. gpr' = V1!SetGpr(r, x) /\ V1!ReportChanges(V1!GprEntry(r, gpr'))
      BY <3>1, <3>4, <3>5, <3>8, <3>9
    <3> QED
      BY <3>4, <3>10, V1StoredDone
  <2> QED
    BY <2>7, <2>8
<1> QED
  BY <1>4, <1>5, <1>6, <1>7, <1>8, <1>9, <1>10, <1>11, <1>12, <1>13, <1>14, <1>15, <1>16
  DEF V1!ExecuteAlu

LEMMA V1HashDone ==
  ASSUME Shape(V1!Regs, V1!Cells), NEW r1 \in V1!Regs, NEW r2, V1!HashInto(r1, r2)
  PROVE  V1Done
<1>1. PICK n : n = V1!Next1(r1)
  OBVIOUS
<1>2. n \in V1!Regs /\ n # r1
  BY <1>1, V1Next
<1>3. PICK h : h = HashUpdate(sha512, V1!Message(r2))
  OBVIOUS
<1>4. LET g == V1!SetGpr2(V1!Next1(r1), h[1], r1, h[2])
      IN /\ gpr' = g /\ flags' = flags /\ memory' = memory
         /\ V1!ReportChanges(V1!GprEntry(r1, g) \o V1!GprEntry(V1!Next1(r1), g))
  BY <1>3, Zenon DEF V1!HashInto
<1>5. PICK g, a, b : a = h[1] /\ b = h[2] /\ g = V1!SetGpr2(n, a, r1, b)
  OBVIOUS
<1>6. /\ gpr' = g /\ flags' = flags /\ memory' = memory
      /\ V1!ReportChanges(V1!GprEntry(r1, g) \o V1!GprEntry(n, g))
  BY <1>1, <1>4, <1>5, Zenon
<1>7. g = [x \in V1!Regs |-> g[x]] /\ \A x \in V1!Regs : x \notin {n, r1} => g[x] = gpr[x]
  <2>1. PICK r : r = r1
    OBVIOUS
  <2>2. g = V1!SetGpr2(n, a, r, b) /\ r \in V1!Regs
    BY <1>5, <2>1
  <2>3. g = [x \in V1!Regs |-> g[x]] /\ \A x \in V1!Regs : x \notin {n, r} => g[x] = gpr[x]
    BY <1>2, <2>2, V1SetGpr2Is
  <2> QED
    BY <2>1, <2>3
<1>8. \A x \in V1!Regs : x \notin {r1, n} => g[x] = gpr[x]
  BY <1>7
<1> QED
  BY <1>2, <1>6, <1>7, <1>8, V1TwoDone

LEMMA V1Units == ASSUME Shape(V1!Regs, V1!Cells), V1!ExecuteUnits PROVE V1Done
<1>1. CASE V1!Hash
  BY <1>1, V1HashDone DEF V1!Hash
<1>2. CASE V1!HashIt
  BY <1>2, V1QuietDone DEF V1!HashIt
<1>3. CASE V1!Grv
  <2>1. PICK r, v : /\ r \in V1!Regs
                  /\ LET g == V1!SetGpr(r, v) IN V1!Retire(g, flags, V1!GprEntry(r, g))
    BY <1>3, Zenon DEF V1!Grv
  <2>2. /\ gpr' = V1!SetGpr(r, v) /\ flags' = flags /\ memory' = memory
        /\ V1!ReportChanges(V1!GprEntry(r, gpr'))
    BY <2>1, Zenon DEF V1!Retire
  <2> QED
    BY <2>1, <2>2, V1StoredDone
<1>4. CASE V1!Ld \/ V1!St
  <2>1. PICK r \in V1!Regs, a \in V1!Addr : V1!Load(r, a) \/ V1!Store(r, a)
    BY <1>4, Zenon DEF V1!Ld, V1!St
  <2> QED
    BY <2>1, V1Load, V1Store DEF V1Done
<1> QED
  BY <1>1, <1>2, <1>3, <1>4 DEF V1!ExecuteUnits

LEMMA V1OnceFrom == ASSUME Once(Alu!NewEntries) PROVE V1!RegistersOnce
<1>1. V1!NewEntries = Alu!NewEntries
  BY DEF V1!NewEntries, Alu!NewEntries
<1>2. ASSUME NEW r PROVE V1!Cardinality(V1!About(V1!NewEntries, "GPR", {r})) <= 1
  <2>1. PICK ks : ks = Concerning(Alu!NewEntries, "GPR", {r})
    OBVIOUS
  <2>2. V1!About(V1!NewEntries, "GPR", {r}) = ks
    BY <1>1, <2>1 DEF V1!About, Concerning
  <2>3. \A j, k \in ks : j = k
    BY <2>1 DEF Once
  <2>4. V1!Cardinality(ks) = Cardinality(ks)
    BY DEF V1!Cardinality, Cardinality
  <2>5. CASE ks = {}
    BY <2>2, <2>4, <2>5, FS_EmptySet
  <2>6. ASSUME NEW k \in ks PROVE Cardinality(ks) = 1
    <3>1. ks = {k}
      BY <2>3, <2>6
    <3> QED
      BY <3>1, FS_Singleton
  <2> QED
    BY <2>2, <2>4, <2>5, <2>6
<1> QED
  BY <1>2 DEF V1!RegistersOnce

\* Every step of the part of version 1.
LEMMA V1Step ==
  ASSUME Shape(V1!Regs, V1!Cells),
         V1!Aloud(V1!Execute \/ (RandomWords /\ grvQ = <<>>) \/ Testbench)
  PROVE  V1!Told /\ V1!RegistersOnce /\ Shape(V1!Regs, V1!Cells)'
<1>1. V1Done
  <2>1. CASE V1!Execute
    BY <2>1, V1Alu, V1Units DEF V1!Execute
  <2>2. CASE RandomWords \/ Testbench
    <3>1. /\ gpr' = gpr /\ flags' = flags /\ memory' = memory
          /\ changes' = changes \/ (changes # <<>> /\ changes' = Tail(changes))
      BY <2>2 DEF RandomWords, Testbench, Units!GrvQueuePush, Units!SetChangeReporting,
                  Units!ConsumeChange, Units!data
    <3> QED
      BY <3>1, V1QuietDone
  <2> QED
    BY <2>1, <2>2 DEF V1!Aloud
<1> QED
  BY <1>1, V1ToldFrom, V1OnceFrom DEF V1Done, V1Tells

--------------------------------------------------------------------------------
(* All parts *)

\* The registers, flags and words are those of the chosen part; the queue is a sequence.
\* This is inductive, and all that the steps need.
PartShape ==
  /\ part = "alu" => Shape(Alu!Regs, Alu!Cells)
  /\ part = "memory" => Shape(Memory!Regs, Memory!Cells)
  /\ part = "units" => Shape(Units!Regs, Units!Cells)
  /\ part = "v1" => Shape(V1!Regs, V1!Cells)
  /\ part \in {"alu", "memory", "units", "v1"}

LEMMA TestbenchQuiet ==
  ASSUME NEW regs, NEW cells, Shape(regs, cells), RandomWords \/ Testbench
  PROVE  StepTells(regs, cells)
<1>1. /\ gpr' = gpr /\ flags' = flags /\ memory' = memory
      /\ changes' = changes \/ (changes # <<>> /\ changes' = Tail(changes))
  BY DEF RandomWords, Testbench, Units!GrvQueuePush, Units!SetChangeReporting,
         Units!ConsumeChange, Units!data
<1> QED
  BY <1>1, NothingToTell

LEMMA AluPartStep ==
  ASSUME Shape(Alu!Regs, Alu!Cells), Alu!Aloud((NoneUnread /\ Alu!ExecuteAlu) \/ Testbench)
  PROVE  Alu!Told /\ Shape(Alu!Regs, Alu!Cells)'
<1>1. StepTells(Alu!Regs, Alu!Cells)
  BY AluStep, TestbenchQuiet DEF Alu!Aloud
<1> QED
  BY <1>1, AluTold DEF StepTells

LEMMA UnitsPartStep ==
  ASSUME Shape(Units!Regs, Units!Cells),
         Units!Aloud((NoneUnread /\ Units!ExecuteUnits) \/ RandomWords \/ Testbench)
  PROVE  Units!Told /\ Shape(Units!Regs, Units!Cells)'
<1>1. StepTells(Units!Regs, Units!Cells)
  BY UnitsStep, TestbenchQuiet DEF Units!Aloud
<1> QED
  BY <1>1, UnitsTold DEF StepTells

LEMMA InitShape == Init => PartShape
<1>1. ASSUME Alu!InitCore PROVE Shape(Alu!Regs, Alu!Cells)
  BY <1>1, NoEntries DEF Alu!InitCore, Shape, CoreFlags, Alu!Flags, Alu!ZERO, Alu!CARRY, Alu!ERROR
<1>2. ASSUME Memory!InitCore PROVE Shape(Memory!Regs, Memory!Cells)
  BY <1>2, NoEntries DEF Memory!InitCore, Shape, CoreFlags, Memory!Flags, Memory!ZERO,
                         Memory!CARRY, Memory!ERROR
<1>3. ASSUME Units!InitCore PROVE Shape(Units!Regs, Units!Cells)
  BY <1>3, NoEntries DEF Units!InitCore, Shape, CoreFlags, Units!Flags, Units!ZERO, Units!CARRY,
                         Units!ERROR
<1>4. ASSUME V1!InitCore PROVE Shape(V1!Regs, V1!Cells)
  BY <1>4, NoEntries DEF V1!InitCore, Shape, CoreFlags, V1!Flags, V1!ZERO, V1!CARRY, V1!ERROR
<1> QED
  BY <1>1, <1>2, <1>3, <1>4 DEF Init, PartShape

\* What the steps of the chosen part have to tell.
StepTold ==
  CASE part = "alu" -> Alu!Told [] part = "memory" -> Memory!Told
    [] part = "units" -> Units!Told [] part = "v1" -> V1!Told /\ V1!RegistersOnce

LEMMA PartStep == PartShape /\ Next => StepTold /\ PartShape'
<1> SUFFICES ASSUME PartShape, Next PROVE StepTold /\ PartShape'
  OBVIOUS
<1>0. part' = part
  BY DEF Next
<1>1. CASE part = "alu"
  <2>1. Alu!Told /\ Shape(Alu!Regs, Alu!Cells)'
    BY <1>1, AluPartStep DEF Next, PartShape
  <2> QED
    BY <1>0, <1>1, <2>1 DEF StepTold, PartShape
<1>2. CASE part = "memory"
  <2>1. Memory!Told /\ Shape(Memory!Regs, Memory!Cells)'
    BY <1>2, MemoryStep DEF Next, PartShape
  <2> QED
    BY <1>0, <1>2, <2>1 DEF StepTold, PartShape
<1>3. CASE part = "units"
  <2>1. Units!Told /\ Shape(Units!Regs, Units!Cells)'
    BY <1>3, UnitsPartStep DEF Next, PartShape
  <2> QED
    BY <1>0, <1>3, <2>1 DEF StepTold, PartShape
<1>4. CASE part = "v1"
  <2>1. V1!Told /\ V1!RegistersOnce /\ Shape(V1!Regs, V1!Cells)'
    BY <1>4, V1Step DEF Next, PartShape
  <2> QED
    BY <1>0, <1>4, <2>1 DEF StepTold, PartShape
<1> QED
  BY <1>1, <1>2, <1>3, <1>4 DEF PartShape

\* A testbench that mirrors the core from the change queue is right after every
\* instruction of both versions and every call that reports: the entries of the step lead
\* from the old value of every register, flag and memory word to the new one, and in
\* version 1 no register has two (ReportChange).
THEOREM ChangesMirrorTheCore == MCSpec => PartChangesTold
<1>1. Init => PartShape
  BY InitShape
<1>2. PartShape /\ [Next]_vars => PartShape'
  <2>1. PartShape /\ UNCHANGED vars => PartShape'
    BY DEF PartShape, Shape, vars, data
  <2> QED
    BY <2>1, PartStep
<1>3. PartShape /\ [Next]_vars => [StepTold]_vars
  BY PartStep
<1>4. MCSpec => [][StepTold]_vars
  BY <1>1, <1>2, <1>3, PTL DEF MCSpec
<1> QED
  BY <1>4 DEF PartChangesTold, StepTold

================================================================================
