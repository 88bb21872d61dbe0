----------------------------- MODULE FormatsProofs -----------------------------
(*****************************************************************************)
(* What one part of the programs writes and another reads back, for every    *)
(* size of a memory, a register file or a program.  Hex files: a line that   *)
(* is loaded lands where it was dumped from, whatever the offset.  Lines of  *)
(* instructions: the pieces and the fields are taken in one order.  Context  *)
(* files: a number is its digits, and each part of the core stands where the *)
(* reader looks for it.  Words: a fold of exclusive ors counts the bits of a *)
(* word, the encodings of a table differ, and a field is the bits put in it. *)
(*****************************************************************************)
EXTENDS MCFormats, Integers, SequencesExt, SequenceTheorems, FiniteSetTheorems,
        WellFoundedInduction, TLAPS

--------------------------------------------------------------------------------
(* Numbers, recursion and sequences *)

IsSequence(l) == \E S : l \in Seq(S)

\* A set of numbers that holds 0 and, with a number, the next one holds all.
LEMMA NatInSet ==
  ASSUME NEW S, 0 \in S, \A n \in Nat : n \in S => n + 1 \in S
  PROVE  Nat \subseteq S
<1> DEFINE bad == Nat \ S
<1> SUFFICES ASSUME bad # {} PROVE FALSE
  OBVIOUS
<1>1. PICK x \in bad : \A y \in bad : ~ (<<y, x>> \in OpToRel(<, Nat))
  <2>1. bad \in SUBSET Nat
    OBVIOUS
  <2> HIDE DEF bad
  <2> QED
    BY <2>1, NatLessThanWellFounded, WFMin
<1>2. x \in Nat /\ x # 0 /\ x - 1 \in Nat /\ (x - 1) + 1 = x
  OBVIOUS
<1>3. x - 1 \in bad
  BY <1>2
<1>4. <<x - 1, x>> \in OpToRel(<, Nat)
  <2>1. <<x - 1, x>> \in Nat \X Nat /\ <<x - 1, x>>[1] < <<x - 1, x>>[2]
    BY <1>2
  <2> QED
    BY <2>1, Zenon DEF OpToRel
<1> QED
  BY <1>1, <1>3, <1>4

\* f begins with start and goes on by step.
Iterates(f, start, step, m) ==
  f = [n \in 0 .. m |-> IF n = 0 THEN start ELSE step[<<n, f[n - 1]>>]]

LEMMA IterationExists ==
  ASSUME NEW S, NEW start \in S, NEW m \in Nat, NEW step \in [(1 .. m) \X S -> S]
  PROVE  \E f \in [0 .. m -> S] : Iterates(f, start, step, m)
<1> DEFINE good == {k \in Nat : k <= m => \E f \in [0 .. k -> S] : Iterates(f, start, step, k)}
<1>1. 0 \in good
  <2>1. [n \in 0 .. 0 |-> start] \in [0 .. 0 -> S]
    OBVIOUS
  <2>2. Iterates([n \in 0 .. 0 |-> start], start, step, 0)
    BY DEF Iterates
  <2> QED
    BY <2>1, <2>2
<1>2. ASSUME NEW k \in Nat, k \in good PROVE k + 1 \in good
  <2> SUFFICES ASSUME k + 1 <= m
               PROVE  \E f \in [0 .. k + 1 -> S] : Iterates(f, start, step, k + 1)
    OBVIOUS
  <2>1. PICK f \in [0 .. k -> S] : Iterates(f, start, step, k)
    BY <1>2
  <2>2. PICK last : last = step[<<k + 1, f[k]>>]
    OBVIOUS
  <2>3. last \in S
    BY <2>2
  <2> DEFINE g == [n \in 0 .. k + 1 |-> IF n = k + 1 THEN last ELSE f[n]]
  <2>4. g \in [0 .. k + 1 -> S] /\ g[k + 1] = last /\ \A n \in 0 .. k : g[n] = f[n]
    BY <2>3
  <2> HIDE DEF g
  <2>5. \A n \in 0 .. k : f[n] = IF n = 0 THEN start ELSE step[<<n, f[n - 1]>>]
    BY <2>1 DEF Iterates
  <2>6. ASSUME NEW n \in 0 .. k + 1
        PROVE  g[n] = IF n = 0 THEN start ELSE step[<<n, g[n - 1]>>]
    <3>1. CASE n = k + 1
      <4>1. n - 1 = k /\ k \in 0 .. k /\ n # 0
        BY <3>1
      <4> QED
        BY <2>2, <2>4, <3>1, <4>1
    <3>2. CASE n # k + 1
      <4>1. n \in 0 .. k /\ (n # 0 => n - 1 \in 0 .. k)
        BY <3>2
      <4> QED
        BY <2>4, <2>5, <4>1
    <3> QED
      BY <3>1, <3>2
  <2>7. Iterates(g, start, step, k + 1)
    BY <2>4, <2>6 DEF Iterates
  <2> QED
    BY <2>4, <2>7
<1> HIDE DEF good
<1>3. m \in good
  BY <1>1, <1>2, NatInSet
<1> QED
  BY <1>3 DEF good

--------------------------------------------------------------------------------
(* Hex files *)

\* What is known of a file that was loaded in part.
Loads == [at : Nat, first : BOOLEAN, ok : BOOLEAN, places : SUBSET Nat, memory : [Hex!Cells -> Nat]]

LoadStart(cells) == [at |-> 0, first |-> TRUE, ok |-> TRUE, memory |-> cells, places |-> {}]

\* f has the loads of the first lines of the file.
LoadsOf(f, offset, m) ==
  f = [n \in 0 .. m |-> IF n = 0 THEN LoadStart(memory)
                        ELSE Hex!ReadLine(f[n - 1], file[n], offset)]

LEMMA ReadLineType ==
  ASSUME NEW r \in Loads, NEW l \in Hex!HexLines, NEW offset \in Nat
  PROVE  Hex!ReadLine(r, l, offset) \in Loads
<1>1. PICK from : from = IF r.first /\ l.kind # "at" THEN offset \div Hex!Byte ELSE r.at
  OBVIOUS
<1>2. PICK place : place = IF l.kind = "at" THEN from + l.addr \div Hex!Byte ELSE from
  OBVIOUS
<1>3. PICK next : next = IF l.kind = "at" THEN from ELSE from + 1
  OBVIOUS
<1>4. /\ from \in Nat /\ l.kind \in {"blank", "bad", "at", "raw"}
      /\ l.kind = "at" => l.addr \in Nat /\ l.val \in Nat
      /\ l.kind = "raw" => l.val \in Nat
  BY <1>1 DEF Loads, Hex!HexLines, Hex!Byte
<1>5. place \in Nat /\ next \in Nat
  BY <1>2, <1>3, <1>4 DEF Hex!Byte
<1>6. PICK cells : cells = [c \in Hex!Cells |-> IF c = place THEN l.val ELSE r.memory[c]]
  OBVIOUS
<1>7. l.kind \in {"at", "raw"} => cells \in [Hex!Cells -> Nat]
  BY <1>4, <1>6 DEF Loads
<1>8. Hex!ReadLine(r, l, offset)
        = IF ~r.ok \/ l.kind = "blank" THEN r
          ELSE IF l.kind = "bad" THEN [r EXCEPT !.ok = FALSE]
          ELSE [at |-> next, first |-> FALSE, ok |-> TRUE,
                places |-> r.places \cup {place}, memory |-> cells]
  BY <1>1, <1>2, <1>3, <1>6, Zenon DEF Hex!ReadLine
<1>9. CASE ~r.ok \/ l.kind = "blank"
  BY <1>8, <1>9
<1>10. CASE ~(~r.ok \/ l.kind = "blank") /\ l.kind = "bad"
  <2>1. [r EXCEPT !.ok = FALSE] \in Loads
    BY DEF Loads
  <2> QED
    BY <1>8, <1>10, <2>1
<1>11. CASE ~(~r.ok \/ l.kind = "blank") /\ l.kind # "bad"
  <2>1. cells \in [Hex!Cells -> Nat] /\ r.places \cup {place} \in SUBSET Nat
    BY <1>4, <1>5, <1>7, <1>11 DEF Loads
  <2>2. [at |-> next, first |-> FALSE, ok |-> TRUE, places |-> r.places \cup {place}, memory |-> cells]
          \in Loads
    BY <1>5, <2>1 DEF Loads
  <2> QED
    BY <1>8, <1>11, <2>2
<1> QED
  BY <1>9, <1>10, <1>11

LEMMA ReadingIs ==
  ASSUME memory \in [Hex!Cells -> Nat], file \in Seq(Hex!HexLines), NEW offset \in Nat
  PROVE  \E f \in [0 .. Len(file) -> Loads] :
           LoadsOf(f, offset, Len(file)) /\ Hex!Reading(offset) = f[Len(file)]
<1>1. PICK m : m = Len(file)
  OBVIOUS
<1>2. m \in Nat /\ \A n \in 1 .. m : file[n] \in Hex!HexLines
  BY <1>1
<1>3. LoadStart(memory) \in Loads
  BY DEF LoadStart, Loads
<1> DEFINE step == [p \in (1 .. m) \X Loads |-> Hex!ReadLine(p[2], file[p[1]], offset)]
<1>4. step \in [(1 .. m) \X Loads -> Loads]
  BY <1>2, ReadLineType
<1>5. \A n \in 1 .. m, r \in Loads : step[<<n, r>>] = Hex!ReadLine(r, file[n], offset)
  OBVIOUS
<1> HIDE DEF step
<1>6. \E g \in [0 .. m -> Loads] : Iterates(g, LoadStart(memory), step, m)
  BY <1>2, <1>3, <1>4, IterationExists
<1>7. ASSUME NEW g \in [0 .. m -> Loads], Iterates(g, LoadStart(memory), step, m)
      PROVE  LoadsOf(g, offset, m)
  <2>1. \A n \in 0 .. m : n # 0 => n \in 1 .. m /\ n - 1 \in 0 .. m
    BY <1>2
  <2>2. \A n \in 0 .. m : g[n] = IF n = 0 THEN LoadStart(memory) ELSE step[<<n, g[n - 1]>>]
    BY <1>7 DEF Iterates
  <2>3. \A n \in 0 .. m : g[n] = IF n = 0 THEN LoadStart(memory)
                                 ELSE Hex!ReadLine(g[n - 1], file[n], offset)
    BY <1>5, <2>1, <2>2
  <2>4. g = [n \in 0 .. m |-> g[n]]
    OBVIOUS
  <2> QED
    BY <2>3, <2>4 DEF LoadsOf
<1> DEFINE f == CHOOSE g : LoadsOf(g, offset, m)
<1>8. LoadsOf(f, offset, m)
  BY <1>6, <1>7
<1>9. Hex!Reading(offset) = f[m]
  BY <1>1, Zenon DEF Hex!Reading, LoadsOf, LoadStart
<1> HIDE DEF f
<1>10. \A n \in 0 .. m : f[n] = IF n = 0 THEN LoadStart(memory)
                                ELSE Hex!ReadLine(f[n - 1], file[n], offset)
  BY <1>8 DEF LoadsOf
<1> DEFINE good == {n \in Nat : n <= m => f[n] \in Loads}
<1>11. 0 \in good
  BY <1>2, <1>3, <1>10
<1>12. ASSUME NEW n \in Nat, n \in good PROVE n + 1 \in good
  <2> SUFFICES ASSUME n + 1 <= m PROVE f[n + 1] \in Loads
    OBVIOUS
  <2>1. n + 1 \in 0 .. m /\ n + 1 \in 1 .. m /\ n + 1 # 0 /\ (n + 1) - 1 = n
    BY <1>2
  <2>2. f[n] \in Loads /\ file[n + 1] \in Hex!HexLines
    BY <1>2, <1>12, <2>1
  <2>3. f[n + 1] = Hex!ReadLine(f[n], file[n + 1], offset)
    BY <1>10, <2>1
  <2> QED
    BY <2>2, <2>3, ReadLineType
<1> HIDE DEF good
<1>13. Nat \subseteq good
  BY <1>11, <1>12, NatInSet
<1>14. \A n \in 0 .. m : f[n] \in Loads
  BY <1>2, <1>13 DEF good
<1>15. f \in [0 .. m -> Loads]
  BY <1>8, <1>14 DEF LoadsOf
<1> QED
  BY <1>1, <1>8, <1>9, <1>15

\* A file of words for the places from b on: addressed lines, or lines without address
\* that are loaded there.
WordFile(type, b, n, words, offset) ==
  /\ b \in Nat /\ n \in Nat /\ Len(file) = n /\ words \in [1 .. n -> Nat]
  /\ type = "ISS_WORD" \/ (type = "VERILOG_RAW_WORD" /\ offset \div 4 = b)
  /\ \A i \in 1 .. n : file[i] = Hex!HexLine(type, 4 * (b + i - 1), words[i])

\* The memory with the first k words in place.
Placed(cells, b, k, words) ==
  [c \in Hex!Cells |-> IF c \in b .. b + k - 1 THEN words[c - b + 1] ELSE cells[c]]

LEMMA LoadsPlace ==
  ASSUME memory \in [Hex!Cells -> Nat], NEW offset \in Nat, NEW type, NEW b, NEW n, NEW words,
         WordFile(type, b, n, words, offset), NEW f, LoadsOf(f, offset, n)
  PROVE  f[n].memory = Placed(memory, b, n, words)
<1>1. /\ b \in Nat /\ n \in Nat
      /\ type = "ISS_WORD" \/ (type = "VERILOG_RAW_WORD" /\ offset \div 4 = b)
      /\ \A i \in 1 .. n : file[i] = Hex!HexLine(type, 4 * (b + i - 1), words[i])
  BY DEF WordFile
<1>2. \A k \in 0 .. n : f[k] = IF k = 0 THEN LoadStart(memory)
                                ELSE Hex!ReadLine(f[k - 1], file[k], offset)
  BY DEF LoadsOf
<1> DEFINE at(k) == IF type = "ISS_WORD" \/ k = 0 THEN 0 ELSE b + k
<1> DEFINE good == {k \in Nat : k <= n =>
                      /\ f[k].ok /\ (f[k].first <=> k = 0) /\ f[k].at = at(k)
                      /\ f[k].memory = Placed(memory, b, k, words)}
<1>3. 0 \in good
  <2>1. f[0] = LoadStart(memory)
    BY <1>1, <1>2
  <2>2. Placed(memory, b, 0, words) = memory
    BY <1>1 DEF Placed
  <2> QED
    BY <2>1, <2>2 DEF LoadStart
<1>4. ASSUME NEW k \in Nat, k \in good PROVE k + 1 \in good
  <2> SUFFICES ASSUME k + 1 <= n
               PROVE  /\ f[k + 1].ok /\ ~f[k + 1].first /\ f[k + 1].at = at(k + 1)
                      /\ f[k + 1].memory = Placed(memory, b, k + 1, words)
    OBVIOUS
  <2>1. k + 1 \in 0 .. n /\ k + 1 \in 1 .. n /\ k + 1 # 0 /\ (k + 1) - 1 = k /\ k <= n
    BY <1>1
  <2>2. PICK r, l : r = f[k] /\ l = file[k + 1]
    OBVIOUS
  <2>3. /\ r.ok /\ (r.first <=> k = 0) /\ r.at = at(k)
        /\ r.memory = Placed(memory, b, k, words)
    BY <1>4, <2>1, <2>2
  <2>4. f[k + 1] = Hex!ReadLine(r, l, offset)
    BY <1>2, <2>1, <2>2
  <2>5. PICK v : v = words[k + 1]
    OBVIOUS
  <2>6. l = Hex!HexLine(type, 4 * (b + k), v)
    <3>1. b + (k + 1) - 1 = b + k
      BY <1>1
    <3> QED
      BY <1>1, <2>1, <2>2, <2>5, <3>1
  <2>7. PICK from : from = IF r.first /\ l.kind # "at" THEN offset \div Hex!Byte ELSE r.at
    OBVIOUS
  <2>8. PICK place : place = IF l.kind = "at" THEN from + l.addr \div Hex!Byte ELSE from
    OBVIOUS
  <2>9. /\ l.kind \in {"at", "raw"} /\ l.val = v
        /\ place = b + k
        /\ (IF l.kind = "at" THEN from ELSE from + 1) = at(k + 1)
    <3>1. CASE type = "ISS_WORD"
      <4>1. l = [kind |-> "at", addr |-> 4 * (b + k), val |-> v]
        BY <2>6, <3>1 DEF Hex!HexLine, Hex!At
      <4>2. from = 0
        BY <2>3, <2>7, <3>1, <4>1
      <4>3. place = b + k
        BY <1>1, <2>8, <4>1, <4>2 DEF Hex!Byte
      <4> QED
        BY <3>1, <4>1, <4>2, <4>3
    <3>2. CASE type = "VERILOG_RAW_WORD" /\ offset \div 4 = b
      <4>1. l = [kind |-> "raw", val |-> v]
        BY <2>6, <3>2 DEF Hex!HexLine, Hex!Raw
      <4>2. from = b + k
        <5>1. CASE k = 0
          BY <1>1, <2>3, <2>7, <3>2, <4>1, <5>1 DEF Hex!Byte
        <5>2. CASE k # 0
          BY <2>3, <2>7, <3>2, <4>1, <5>2
        <5> QED
          BY <5>1, <5>2
      <4> QED
        BY <1>1, <2>8, <3>2, <4>1, <4>2
    <3> QED
      BY <1>1, <3>1, <3>2
  <2>10. PICK cells : cells = [c \in Hex!Cells |-> IF c = place THEN l.val ELSE r.memory[c]]
    OBVIOUS
  <2>11. PICK next : next = IF l.kind = "at" THEN from ELSE from + 1
    OBVIOUS
  <2>12. f[k + 1] = [at |-> next, first |-> FALSE, ok |-> TRUE,
                     places |-> r.places \cup {place}, memory |-> cells]
    <3>1. Hex!ReadLine(r, l, offset)
            = IF ~r.ok \/ l.kind = "blank" THEN r
              ELSE IF l.kind = "bad" THEN [r EXCEPT !.ok = FALSE]
              ELSE [at |-> next, first |-> FALSE, ok |-> TRUE,
                    places |-> r.places \cup {place}, memory |-> cells]
      BY <2>7, <2>8, <2>10, <2>11, Zenon DEF Hex!ReadLine
    <3> QED
      BY <2>3, <2>4, <2>9, <3>1
  <2>13. cells = Placed(memory, b, k + 1, words)
    <3>1. ASSUME NEW c \in Hex!Cells
          PROVE  (IF c = place THEN l.val ELSE r.memory[c])
                   = IF c \in b .. b + (k + 1) - 1 THEN words[c - b + 1] ELSE memory[c]
      <4>1. r.memory[c] = IF c \in b .. b + k - 1 THEN words[c - b + 1] ELSE memory[c]
        BY <2>3 DEF Placed
      <4>2. CASE c = b + k
        <5>1. c \in b .. b + (k + 1) - 1 /\ c - b + 1 = k + 1
          BY <1>1, <4>2
        <5> QED
          BY <2>5, <2>9, <4>2, <5>1
      <4>3. CASE c # b + k
        <5>1. c \in b .. b + (k + 1) - 1 <=> c \in b .. b + k - 1
          BY <1>1, <4>3
        <5> QED
          BY <2>9, <4>1, <4>3, <5>1
      <4> QED
        BY <4>2, <4>3
    <3> QED
      BY <2>10, <3>1 DEF Placed
  <2> QED
    BY <2>9, <2>11, <2>12, <2>13
<1> HIDE DEF good
<1>5. n \in good
  BY <1>1, <1>3, <1>4, NatInSet
<1> QED
  BY <1>1, <1>5 DEF good

\* Among the first n lines those before the first bad one.
Good(n) == {k \in 1 .. n : \A j \in 1 .. k : file[j].kind # "bad"}

\* After n lines: the good ones are in the memory, and nothing else.
LoadedPart(f, offset, n) ==
  /\ f[n].ok <=> Good(n) = 1 .. n
  /\ \A c \in Hex!Cells : f[n].memory[c] # memory[c] =>
       \E k \in Good(n) : file[k].kind \in {"raw", "at"} /\ file[k].val = f[n].memory[c]
  /\ (\A k \in Good(n) : file[k].kind = "raw") =>
       \A k \in Good(n), c \in Hex!Cells :
         c = offset \div Hex!Byte + k - 1 => f[n].memory[c] = file[k].val

\* As long as all lines have been raw words, the pointer is behind the last.
PointerMoves(f, offset, n) ==
  (Good(n) = 1 .. n /\ \A k \in Good(n) : file[k].kind = "raw") =>
    /\ f[n].first <=> n = 0
    /\ f[n].at = IF n = 0 THEN 0 ELSE offset \div Hex!Byte + n

LEMMA LoadsGoodLines ==
  ASSUME memory \in [Hex!Cells -> Nat], file \in Seq(Hex!HexLines), NEW offset \in Nat,
         NEW f \in [0 .. Len(file) -> Loads], LoadsOf(f, offset, Len(file))
  PROVE  LoadedPart(f, offset, Len(file))
<1>1. PICK m : m = Len(file)
  OBVIOUS
<1>2. m \in Nat /\ \A n \in 1 .. m : file[n] \in Hex!HexLines
  BY <1>1
<1>3. PICK off : off = offset \div Hex!Byte
  OBVIOUS
<1>4. off \in Nat
  BY <1>3 DEF Hex!Byte
<1>5. \A n \in 0 .. m : f[n] = IF n = 0 THEN LoadStart(memory)
                                ELSE Hex!ReadLine(f[n - 1], file[n], offset)
  BY <1>1 DEF LoadsOf
<1> DEFINE good == {n \in Nat : n <= m => LoadedPart(f, offset, n) /\ PointerMoves(f, offset, n)}
<1>6. 0 \in good
  <2>1. f[0] = LoadStart(memory) /\ Good(0) = {} /\ 1 .. 0 = {}
    BY <1>2, <1>5 DEF Good
  <2> QED
    BY <2>1 DEF LoadStart, LoadedPart, PointerMoves
<1>7. ASSUME NEW n \in Nat, n \in good PROVE n + 1 \in good
  <2> SUFFICES ASSUME n + 1 <= m
               PROVE  LoadedPart(f, offset, n + 1) /\ PointerMoves(f, offset, n + 1)
    OBVIOUS
  <2>1. n + 1 \in 0 .. m /\ n + 1 \in 1 .. m /\ n + 1 # 0 /\ (n + 1) - 1 = n /\ n \in 0 .. m
    BY <1>2
  <2>2. PICK r, l : r = f[n] /\ l = file[n + 1]
    OBVIOUS
  <2>3. PICK next : next = f[n + 1]
    OBVIOUS
  <2>4. r \in Loads /\ next \in Loads /\ l \in Hex!HexLines /\ next = Hex!ReadLine(r, l, offset)
    BY <1>1, <1>2, <1>5, <2>1, <2>2, <2>3
  <2>0. PICK G, H : G = Good(n) /\ H = Good(n + 1)
    OBVIOUS
  <2>5. /\ r.ok <=> G = 1 .. n
        /\ \A c \in Hex!Cells : r.memory[c] # memory[c] =>
             \E k \in G : file[k].kind \in {"raw", "at"} /\ file[k].val = r.memory[c]
        /\ (\A k \in G : file[k].kind = "raw") =>
             \A k \in G, c \in Hex!Cells : c = off + k - 1 => r.memory[c] = file[k].val
    BY <1>3, <1>7, <2>1, <2>2, <2>0 DEF LoadedPart
  <2>6. (G = 1 .. n /\ \A k \in G : file[k].kind = "raw") =>
          /\ r.first <=> n = 0
          /\ r.at = IF n = 0 THEN 0 ELSE off + n
    <3>1. PointerMoves(f, offset, n)
      BY <1>7, <2>1
    <3> QED
      BY <1>3, <2>0, <2>2, <3>1, Zenon DEF PointerMoves
  <2>7. H = IF G = 1 .. n /\ l.kind # "bad" THEN G \cup {n + 1} ELSE G
    <3>1. CASE G = 1 .. n
      <4>1. \A j \in 1 .. n : file[j].kind # "bad"
        BY <2>0, <3>1 DEF Good
      <4> QED
        BY <2>0, <2>2, <3>1, <4>1 DEF Good
    <3>2. CASE G # 1 .. n
      <4>1. PICK b \in 1 .. n : file[b].kind = "bad"
        BY <2>0, <3>2 DEF Good
      <4>2. n + 1 \notin H
        BY <2>0, <4>1 DEF Good
      <4> QED
        BY <2>0, <3>2, <4>2 DEF Good
    <3> QED
      BY <3>1, <3>2
  <2>8. n + 1 \notin G /\ G \subseteq 1 .. n
    BY <2>0 DEF Good
  <2>9. PICK from : from = IF r.first /\ l.kind # "at" THEN off ELSE r.at
    OBVIOUS
  <2>10. PICK place : place = IF l.kind = "at" THEN from + l.addr \div Hex!Byte ELSE from
    OBVIOUS
  <2>11. PICK cells : cells = [c \in Hex!Cells |-> IF c = place THEN l.val ELSE r.memory[c]]
    OBVIOUS
  <2>12. PICK at : at = IF l.kind = "at" THEN from ELSE from + 1
    OBVIOUS
  <2>13. next = IF ~r.ok \/ l.kind = "blank" THEN r
                ELSE IF l.kind = "bad" THEN [r EXCEPT !.ok = FALSE]
                ELSE [at |-> at, first |-> FALSE, ok |-> TRUE,
                      places |-> r.places \cup {place}, memory |-> cells]
    BY <1>3, <2>4, <2>9, <2>10, <2>11, <2>12, Zenon DEF Hex!ReadLine
  <2> SUFFICES
        /\ next.ok <=> H = 1 .. n + 1
        /\ \A c \in Hex!Cells : next.memory[c] # memory[c] =>
             \E k \in H : file[k].kind \in {"raw", "at"} /\ file[k].val = next.memory[c]
        /\ (\A k \in H : file[k].kind = "raw") =>
             \A k \in H, c \in Hex!Cells : c = off + k - 1 => next.memory[c] = file[k].val
        /\ (H = 1 .. n + 1 /\ \A k \in H : file[k].kind = "raw") =>
             ~next.first /\ next.at = off + (n + 1)
    BY <1>3, <2>0, <2>1, <2>3 DEF LoadedPart, PointerMoves
  <2>14. CASE ~r.ok
    <3>1. next = r /\ H = G /\ G # 1 .. n + 1
      BY <2>5, <2>7, <2>8, <2>13, <2>14
    <3> QED
      BY <2>5, <2>14, <3>1
  <2>15. CASE r.ok /\ l.kind = "blank"
    <3>1. next = r /\ G = 1 .. n /\ H = G \cup {n + 1}
      BY <2>5, <2>7, <2>13, <2>15
    <3>2. H = 1 .. n + 1 /\ file[n + 1].kind # "raw" /\ n + 1 \in H
      BY <2>2, <2>15, <3>1
    <3> QED
      BY <2>5, <2>15, <3>1, <3>2
  <2>16. CASE r.ok /\ l.kind = "bad"
    <3>1. /\ ~next.ok /\ next.memory = r.memory
          /\ H = G /\ G # 1 .. n + 1
      BY <2>4, <2>7, <2>8, <2>13, <2>16 DEF Loads
    <3> QED
      BY <2>5, <3>1
  <2>17. CASE r.ok /\ l.kind \in {"raw", "at"}
    <3>1. next.at = at /\ ~next.first /\ next.ok /\ next.memory = cells
      BY <2>13, <2>17
    <3>2. G = 1 .. n /\ H = G \cup {n + 1}
      BY <2>5, <2>7, <2>17
    <3>3. H = 1 .. n + 1
      <4>1. (1 .. n) \cup {n + 1} = 1 .. n + 1
        OBVIOUS
      <4> QED
        BY <3>2, <4>1
    <3>4. ASSUME NEW c \in Hex!Cells, cells[c] # memory[c]
          PROVE  \E k \in H : file[k].kind \in {"raw", "at"} /\ file[k].val = cells[c]
      <4>1. CASE c = place
        BY <2>2, <2>11, <2>17, <3>2, <4>1
      <4>2. CASE c # place
        <5>1. cells[c] = r.memory[c]
          BY <2>11, <4>2
        <5> QED
          BY <2>5, <3>2, <3>4, <5>1
      <4> QED
        BY <4>1, <4>2
    <3>5. ASSUME \A k \in H : file[k].kind = "raw"
          PROVE  /\ next.at = off + (n + 1)
                 /\ \A k \in H, c \in Hex!Cells : c = off + k - 1 => cells[c] = file[k].val
      <4>1. l.kind = "raw" /\ \A k \in G : file[k].kind = "raw"
        BY <2>2, <3>2, <3>5
      <4>2. from = off + n
        BY <1>4, <2>6, <2>9, <3>2, <4>1
      <4>3. place = off + n /\ at = off + (n + 1)
        BY <1>4, <2>10, <2>12, <4>1, <4>2
      <4>4. ASSUME NEW k \in H, NEW c \in Hex!Cells, c = off + k - 1
            PROVE  cells[c] = file[k].val
        <5>1. CASE k = n + 1
          <6>1. c = place
            BY <1>4, <4>3, <4>4, <5>1
          <6> QED
            BY <2>2, <2>11, <5>1, <6>1
        <5>2. CASE k \in G
          <6>1. k \in 1 .. n /\ c # place
            BY <1>4, <2>8, <4>3, <4>4, <5>2
          <6>2. r.memory[c] = file[k].val
            BY <2>5, <4>1, <4>4, <5>2
          <6> QED
            BY <2>11, <6>1, <6>2
        <5> QED
          BY <3>2, <5>1, <5>2
      <4> QED
        BY <3>1, <4>3, <4>4
    <3> QED
      BY <3>1, <3>3, <3>4, <3>5
  <2>18. l.kind \in {"blank", "bad", "raw", "at"}
    BY <2>4 DEF Hex!HexLines
  <2> QED
    BY <2>14, <2>15, <2>16, <2>17, <2>18
<1> HIDE DEF good
<1>8. Nat \subseteq good
  BY <1>6, <1>7, NatInSet
<1> QED
  BY <1>1, <1>2, <1>8 DEF good

\* The file is the words of a dump or a program, for where it was written for.
WordsFor(b, words) ==
  /\ b \in Nat /\ words \in Seq(Nat) /\ Len(file) = Len(words)
  /\ origin.type \in Hex!HexTypes /\ origin.offset = 4 * b
  /\ origin.content = [c \in b .. b + Len(words) - 1 |-> words[c - b + 1]]
  /\ origin.type # "VERILOG_ADDR_WORD" =>
       \A i \in 1 .. Len(words) : file[i] = Hex!HexLine(origin.type, 4 * (b + i - 1), words[i])

HexInv ==
  /\ memory \in [Hex!Cells -> Nat] /\ file \in Seq(Hex!HexLines)
  /\ origin.from # "user" => \E b, words : WordsFor(b, words)
  /\ Hex!FileLands /\ Hex!BadLineEndsLoad /\ Hex!QueueAllOrNothing

LEMMA NothingLoaded ==
  ASSUME loaded.how = "no"
  PROVE  Hex!FileLands /\ Hex!BadLineEndsLoad /\ Hex!QueueAllOrNothing
BY DEF Hex!FileLands, Hex!BadLineEndsLoad, Hex!QueueAllOrNothing

LEMMA SameFile ==
  ASSUME HexInv, UNCHANGED <<file, origin>>
  PROVE  /\ file' \in Seq(Hex!HexLines)
         /\ origin'.from # "user" => \E b, words : WordsFor(b, words)'
         /\ Hex!Lines' = Hex!Lines
<1>1. file' = file /\ origin' = origin
  OBVIOUS
<1>2. ASSUME NEW b, NEW words, WordsFor(b, words) PROVE WordsFor(b, words)'
  BY <1>1, <1>2 DEF WordsFor
<1>3. file' \in Seq(Hex!HexLines)
  BY <1>1 DEF HexInv
<1>4. ASSUME origin'.from # "user" PROVE \E b, words : WordsFor(b, words)'
  <2>1. PICK b, words : WordsFor(b, words)
    BY <1>1, <1>4 DEF HexInv
  <2> QED
    BY <1>2, <2>1
<1>5. Hex!Lines' = Hex!Lines
  BY <1>1 DEF Hex!Lines
<1> QED
  BY <1>3, <1>4, <1>5

LEMMA HexStart == ASSUME FormatsAssumption, Hex!Init PROVE HexInv
<1>1. memory \in [Hex!Cells -> Nat] /\ file \in Seq(Hex!HexLines)
  BY DEF Hex!Init
<1>2. origin.from = "user" /\ loaded.how = "no"
  BY DEF Hex!Init, Hex!ByHand, Hex!NotLoaded
<1> QED
  BY <1>1, <1>2, NothingLoaded DEF HexInv

\* Words written as the lines of a type are the file for their place.
LEMMA WrittenFor ==
  ASSUME NEW from, NEW type \in Hex!HexTypes, NEW b \in Nat, NEW n \in Nat,
         NEW words \in [1 .. n -> Nat], NEW addrs \in [1 .. n -> Nat],
         type = "ISS_WORD" => \A i \in 1 .. n : addrs[i] = 4 * (b + i - 1),
         Hex!Written(from, type, 4 * b, words, addrs), HexInv
  PROVE  HexInv'
<1>1. PICK offset : offset = 4 * b
  OBVIOUS
<1>2. offset \div 4 = b
  BY <1>1
<1>3. /\ file' = [i \in DOMAIN words |-> Hex!HexLine(type, addrs[i], words[i])]
      /\ origin' = [from |-> from, type |-> type, offset |-> offset,
                    content |-> Hex!Content(offset, words)]
      /\ loaded' = Hex!NotLoaded /\ memory' = memory /\ grvQ' = grvQ
  BY <1>1 DEF Hex!Written
<1>4. DOMAIN words = 1 .. n /\ words \in Seq(Nat) /\ Len(words) = n
  OBVIOUS
<1>5. memory' \in [Hex!Cells -> Nat]
  BY <1>3 DEF HexInv
<1>6. \A i \in 1 .. n : words[i] \in Nat /\ addrs[i] \in Nat
  OBVIOUS
<1>7. \A a \in Nat, v \in Nat : Hex!HexLine(type, a, v) \in Hex!HexLines
  BY DEF Hex!HexLine, Hex!HexLines, Hex!Raw, Hex!At
<1>8. file' \in [1 .. n -> Hex!HexLines]
  BY <1>3, <1>4, <1>6, <1>7
<1>9. file' \in Seq(Hex!HexLines) /\ Len(file') = n
  BY <1>8
<1>10. Hex!Content(offset, words) = [c \in b .. b + n - 1 |-> words[c - b + 1]]
  <2>1. {b + i - 1 : i \in 1 .. n} = b .. b + n - 1
    <3>1. \A c \in b .. b + n - 1 : c - b + 1 \in 1 .. n /\ c = b + (c - b + 1) - 1
      OBVIOUS
    <3> QED
      BY <3>1
  <2>2. PICK d : d = offset \div Hex!Byte
    OBVIOUS
  <2>3. d = b
    BY <1>2, <2>2 DEF Hex!Byte
  <2>4. Hex!Content(offset, words) = [c \in {d + i - 1 : i \in DOMAIN words} |-> words[c - d + 1]]
    BY <2>2, Zenon DEF Hex!Content
  <2> QED
    BY <1>4, <2>1, <2>3, <2>4
<1>11. type # "VERILOG_ADDR_WORD" =>
         \A i \in 1 .. n : file'[i] = Hex!HexLine(type, 4 * (b + i - 1), words[i])
  <2>1. \A i \in 1 .. n : file'[i] = Hex!HexLine(type, addrs[i], words[i])
    BY <1>3, <1>4
  <2>2. CASE type = "ISS_WORD"
    BY <2>1, <2>2
  <2>3. CASE type = "VERILOG_RAW_WORD"
    BY <2>1, <2>3 DEF Hex!HexLine
  <2> QED
    BY <2>2, <2>3 DEF Hex!HexTypes
<1>12. WordsFor(b, words)'
  BY <1>1, <1>3, <1>4, <1>9, <1>10, <1>11 DEF WordsFor
<1>13. (Hex!FileLands /\ Hex!BadLineEndsLoad /\ Hex!QueueAllOrNothing)'
  <2>1. loaded'.how = "no"
    BY <1>3 DEF Hex!NotLoaded
  <2> QED
    BY <2>1 DEF Hex!FileLands, Hex!BadLineEndsLoad, Hex!QueueAllOrNothing
<1> QED
  BY <1>5, <1>9, <1>12, <1>13 DEF HexInv

LEMMA DumpKeeps ==
  ASSUME FormatsAssumption, HexInv, NEW type \in Hex!HexTypes, NEW a \in Hex!Addr,
         NEW n \in 1 .. MemWords, Hex!DumpHexFile(type, a, n)
  PROVE  HexInv'
<1>1. PICK b \in Hex!Cells : a = 4 * b
  BY DEF Hex!Addr, Hex!Byte
<1>2. MemWords \in Nat
  BY DEF FormatsAssumption, Hex!HexAssumption
<1>3. b \in Nat /\ a \div 4 = b /\ n \in Nat /\ b + n <= MemWords
  BY <1>1, <1>2 DEF Hex!Cells, Hex!DumpHexFile, Hex!Byte
<1>4. PICK words : words = [i \in 1 .. n |-> memory[b + i - 1]]
  OBVIOUS
<1>5. PICK addrs : addrs = [i \in 1 .. n |-> Hex!DumpAddr(type, a, i - 1)]
  OBVIOUS
<1>6. words \in [1 .. n -> Nat]
  <2>1. \A i \in 1 .. n : b + i - 1 \in Hex!Cells
    BY <1>2, <1>3 DEF Hex!Cells
  <2>2. \A c \in Hex!Cells : memory[c] \in Nat
    BY DEF HexInv
  <2> QED
    BY <1>4, <2>1, <2>2
<1>7. addrs \in [1 .. n -> Nat]
  BY <1>1, <1>3, <1>5 DEF Hex!DumpAddr, Hex!Byte
<1>8. type = "ISS_WORD" => \A i \in 1 .. n : addrs[i] = 4 * (b + i - 1)
  BY <1>1, <1>3, <1>5 DEF Hex!DumpAddr, Hex!Byte
<1>9. Hex!Written("dump", type, 4 * b, words, addrs)
  BY <1>1, <1>3, <1>4, <1>5 DEF Hex!DumpHexFile, Hex!Byte
<1> QED
  BY <1>3, <1>6, <1>7, <1>8, <1>9, WrittenFor

LEMMA AssembleKeeps ==
  ASSUME FormatsAssumption, HexInv, NEW type \in Hex!HexTypes, NEW a \in Hex!Addr,
         NEW code \in Codes, Hex!Assemble(type, a, code)
  PROVE  HexInv'
<1>1. PICK b \in Hex!Cells : a = 4 * b
  BY DEF Hex!Addr, Hex!Byte
<1>2. MemWords \in Nat /\ code \in Seq(Nat) /\ InstrBase \in Hex!Addr
  BY DEF FormatsAssumption, Hex!HexAssumption
<1>3. PICK n : n = Len(code)
  OBVIOUS
<1>4. b \in Nat /\ n \in Nat /\ code \in [1 .. n -> Nat] /\ DOMAIN code = 1 .. n
  BY <1>2, <1>3 DEF Hex!Cells
<1>5. PICK addrs : addrs = [i \in 1 .. n |-> Hex!ProgramAddr(type, a, i - 1)]
  OBVIOUS
<1>6. InstrBase \in Nat
  BY <1>2 DEF Hex!Addr, Hex!Byte, Hex!Cells
<1>7. a >= InstrBase
  BY DEF Hex!Assemble
<1>8. addrs \in [1 .. n -> Nat]
  BY <1>1, <1>4, <1>5, <1>6, <1>7 DEF Hex!ProgramAddr, Hex!Byte
<1>9. type = "ISS_WORD" => \A i \in 1 .. n : addrs[i] = 4 * (b + i - 1)
  BY <1>1, <1>4, <1>5 DEF Hex!ProgramAddr, Hex!Byte
<1>10. Hex!Written("program", type, 4 * b, code, addrs)
  BY <1>1, <1>4, <1>5 DEF Hex!Assemble
<1> QED
  BY <1>4, <1>8, <1>9, <1>10, WrittenFor

LEMMA WriteByHandKeeps ==
  ASSUME FormatsAssumption, HexInv, Hex!WriteByHand
  PROVE  HexInv'
<1>1. /\ file' \in UserFiles /\ memory' = memory
      /\ origin' = Hex!ByHand /\ loaded' = Hex!NotLoaded
  BY DEF Hex!WriteByHand
<1>2. memory' \in [Hex!Cells -> Nat] /\ file' \in Seq(Hex!HexLines)
  BY <1>1 DEF HexInv, FormatsAssumption, Hex!HexAssumption
<1>3. origin'.from = "user" /\ loaded'.how = "no"
  BY <1>1 DEF Hex!ByHand, Hex!NotLoaded
<1> QED
  BY <1>2, <1>3 DEF HexInv, Hex!FileLands, Hex!BadLineEndsLoad, Hex!QueueAllOrNothing

LEMMA StoreWordKeeps ==
  ASSUME FormatsAssumption, HexInv, Hex!StoreWord
  PROVE  HexInv'
<1>1. PICK c \in Hex!Cells, v \in Vals : memory' = [memory EXCEPT ![c] = v]
  BY DEF Hex!StoreWord
<1>2. file' = file /\ origin' = origin /\ loaded' = Hex!NotLoaded
  BY DEF Hex!StoreWord
<1>3. v \in Nat
  BY DEF FormatsAssumption, Hex!HexAssumption
<1>4. memory' \in [Hex!Cells -> Nat]
  BY <1>1, <1>3 DEF HexInv
<1>5. file' \in Seq(Hex!HexLines) /\ (origin'.from # "user" => \E b, words : WordsFor(b, words)')
  BY <1>2, SameFile
<1>6. loaded'.how = "no"
  BY <1>2 DEF Hex!NotLoaded
<1> QED
  BY <1>4, <1>5, <1>6 DEF HexInv, Hex!FileLands, Hex!BadLineEndsLoad, Hex!QueueAllOrNothing

LEMMA LoadGrvKeeps ==
  ASSUME HexInv, Hex!LoadGrv
  PROVE  HexInv'
<1>1. /\ grvQ' = grvQ \o Hex!Pushed /\ memory' = memory /\ file' = file /\ origin' = origin
      /\ loaded' = [how |-> "grv", offset |-> 0, before |-> grvQ, ok |-> Hex!Addressed = {}]
  BY DEF Hex!LoadGrv
<1>2. loaded'.how = "grv" /\ loaded'.before = grvQ /\ (loaded'.ok <=> Hex!Addressed = {})
  BY <1>1
<1>3. Hex!Lines' = Hex!Lines
  BY <1>1, SameFile
<1>4. grvQ' = loaded'.before \o
               IF loaded'.ok THEN [k \in DOMAIN Hex!Lines |-> Hex!WordOf(Hex!Lines[k])] ELSE <<>>
  BY <1>1, <1>2 DEF Hex!Pushed
<1>5. Hex!QueueAllOrNothing'
  BY <1>3, <1>4 DEF Hex!QueueAllOrNothing
<1>6. (Hex!FileLands /\ Hex!BadLineEndsLoad)'
  BY <1>2 DEF Hex!FileLands, Hex!BadLineEndsLoad
<1>7. /\ memory' \in [Hex!Cells -> Nat] /\ file' \in Seq(Hex!HexLines)
      /\ origin'.from # "user" => \E b, words : WordsFor(b, words)'
  BY <1>1, SameFile DEF HexInv
<1> QED
  BY <1>5, <1>6, <1>7 DEF HexInv

LEMMA LoadHexFileKeeps ==
  ASSUME HexInv, NEW offset \in Hex!Addr, Hex!LoadHexFile(offset)
  PROVE  HexInv'
<1>1. PICK r : r = Hex!Reading(offset)
  OBVIOUS
<1>2. /\ memory' = r.memory /\ file' = file /\ origin' = origin /\ grvQ' = grvQ
      /\ loaded' = [how |-> "memory", offset |-> offset, before |-> memory, ok |-> r.ok]
  BY <1>1 DEF Hex!LoadHexFile
<1>3. loaded'.how = "memory" /\ loaded'.offset = offset /\ loaded'.before = memory
  BY <1>2
<1>4. memory \in [Hex!Cells -> Nat] /\ file \in Seq(Hex!HexLines)
  BY DEF HexInv
<1>5. offset \in Nat
  BY DEF Hex!Addr, Hex!Byte, Hex!Cells
<1>6. PICK f \in [0 .. Len(file) -> Loads] :
        LoadsOf(f, offset, Len(file)) /\ Hex!Reading(offset) = f[Len(file)]
  BY <1>4, <1>5, ReadingIs
<1>7. Len(file) \in 0 .. Len(file)
  BY <1>4
<1>8. memory' \in [Hex!Cells -> Nat]
  BY <1>1, <1>2, <1>6, <1>7 DEF Loads
<1>9. ASSUME origin.from # "user", (Hex!Loadable)'
      PROVE  \A c \in Hex!Cells :
               memory'[c] = IF c \in DOMAIN origin.content THEN origin.content[c] ELSE memory[c]
  <2>1. PICK b, words : WordsFor(b, words)
    BY <1>9 DEF HexInv
  <2>2. PICK n, type : n = Len(words) /\ type = origin.type
    OBVIOUS
  <2>3. type = "ISS_WORD" \/ (type = "VERILOG_RAW_WORD" /\ offset = 4 * b)
    BY <1>2, <1>3, <1>9, <2>1, <2>2 DEF Hex!Loadable, WordsFor
  <2>4. b \in Nat /\ n \in Nat /\ words \in [1 .. n -> Nat] /\ Len(file) = n
    BY <2>1, <2>2 DEF WordsFor
  <2>5. WordFile(type, b, n, words, offset)
    <3>1. type = "ISS_WORD" \/ (type = "VERILOG_RAW_WORD" /\ offset \div 4 = b)
      BY <2>3, <2>4
    <3>2. type # "VERILOG_ADDR_WORD"
      BY <2>3
    <3>3. \A i \in 1 .. n : file[i] = Hex!HexLine(type, 4 * (b + i - 1), words[i])
      BY <2>1, <2>2, <3>2 DEF WordsFor
    <3> QED
      BY <2>4, <3>1, <3>3 DEF WordFile
  <2>6. memory' = Placed(memory, b, n, words)
    <3>1. LoadsOf(f, offset, n)
      BY <1>6, <2>4
    <3>2. f[n].memory = Placed(memory, b, n, words)
      BY <1>4, <1>5, <2>5, <3>1, LoadsPlace
    <3> QED
      BY <1>1, <1>2, <1>6, <2>4, <3>2
  <2>7. origin.content = [c \in b .. b + n - 1 |-> words[c - b + 1]]
    BY <2>1, <2>2 DEF WordsFor
  <2> QED
    BY <2>6, <2>7 DEF Placed
<1>10. Hex!FileLands'
  BY <1>2, <1>3, <1>9 DEF Hex!FileLands
<1>11. Hex!QueueAllOrNothing'
  BY <1>3 DEF Hex!QueueAllOrNothing
<1>12. file' \in Seq(Hex!HexLines) /\ (origin'.from # "user" => \E b, words : WordsFor(b, words)')
  BY <1>2, SameFile
<1>13. Hex!BadLineEndsLoad'
  <2>1. f[Len(file)].memory = memory' /\ f[Len(file)].ok = loaded'.ok
    BY <1>1, <1>2, <1>6
  <2>2. LoadedPart(f, offset, Len(file))
    BY <1>4, <1>5, <1>6, <1>7, LoadsGoodLines
  <2>3. Good(Len(file)) = Hex!GoodLines /\ DOMAIN file = 1 .. Len(file)
    BY <1>4 DEF Good, Hex!GoodLines
  <2>4. Hex!GoodLines' = Hex!GoodLines /\ file' = file
    BY <1>2 DEF Hex!GoodLines
  <2> QED
    BY <1>3, <2>1, <2>2, <2>3, <2>4 DEF Hex!BadLineEndsLoad, LoadedPart
<1> QED
  BY <1>8, <1>10, <1>11, <1>12, <1>13 DEF HexInv

\* Whatever is dumped, assembled and loaded in whatever order, in a memory of any size, a
\* file that has addresses comes back to where it was written for, a bad line ends a load
\* behind the words before it, and random words are pushed all or none (LoadHexFile,
\* DumpHexFile).
THEOREM HexFilesComeBack == SubjectSpec => []HexFilesLand
<1> DEFINE Inv == subject = "hex" => HexInv
<1> USE FormatsAssumption
<1>1. SubjectInit => Inv
  BY HexStart DEF SubjectInit
<1>2. Inv /\ [SubjectNext]_subjectVars => Inv'
  <2> SUFFICES ASSUME Inv, [SubjectNext]_subjectVars, subject' = "hex" PROVE HexInv'
    OBVIOUS
  <2>1. subject = "hex"
    BY DEF SubjectNext, subjectVars
  <2>2. HexInv
    BY <2>1
  <2>3. CASE SubjectNext
    <3>1. Hex!Next
      BY <2>1, <2>3 DEF SubjectNext
    <3> QED
      BY <2>2, <3>1, DumpKeeps, AssembleKeeps, LoadHexFileKeeps, WriteByHandKeeps, LoadGrvKeeps,
         StoreWordKeeps DEF Hex!Next
  <2>4. CASE UNCHANGED subjectVars
    <3>1. UNCHANGED <<memory, file, origin, grvQ, loaded>>
      BY <2>4 DEF subjectVars, hexVars
    <3>2. memory' \in [Hex!Cells -> Nat]
      BY <2>2, <3>1 DEF HexInv
    <3>3. file' \in Seq(Hex!HexLines) /\ (origin'.from # "user" => \E b, words : WordsFor(b, words)')
      BY <2>2, <3>1, SameFile
    <3>4. (Hex!FileLands /\ Hex!BadLineEndsLoad)'
      BY <2>2, <3>1 DEF HexInv, Hex!FileLands, Hex!Loadable, Hex!BadLineEndsLoad, Hex!GoodLines
    <3>5. Hex!Lines' = Hex!Lines
      BY <2>2, <3>1, SameFile
    <3>6. Hex!QueueAllOrNothing'
      BY <2>2, <3>1, <3>5 DEF HexInv, Hex!QueueAllOrNothing
    <3> QED
      BY <3>2, <3>3, <3>4, <3>6 DEF HexInv
  <2> QED
    BY <2>3, <2>4
<1>3. Inv => HexFilesLand
  BY DEF HexInv, HexFilesLand
<1> QED
  BY <1>1, <1>2, <1>3, PTL DEF SubjectSpec

--------------------------------------------------------------------------------
(* Arguments of instructions *)

\* The instance counts as the proofs do.
LEMMA SameCount == ASSUME NEW S PROVE Line!Cardinality(S) = Cardinality(S)
BY Zenon DEF Line!Cardinality, Cardinality

One(b) == IF b THEN 1 ELSE 0

\* The number of a part of three fields.
LEMMA CountOfThree ==
  ASSUME NEW S \in SUBSET (1 .. 3)
  PROVE  Cardinality(S) = One(1 \in S) + One(2 \in S) + One(3 \in S)
<1> DEFINE part(i) == {j \in S : j = i}
<1>1. ASSUME NEW i \in 1 .. 3 PROVE IsFiniteSet(part(i)) /\ Cardinality(part(i)) = One(i \in S)
  <2>1. CASE i \in S
    <3>1. part(i) = {i}
      BY <2>1
    <3> QED
      BY <2>1, <3>1, FS_Singleton DEF One
  <2>2. CASE i \notin S
    <3>1. part(i) = {}
      BY <2>2
    <3> QED
      BY <2>2, <3>1, FS_EmptySet DEF One
  <2> QED
    BY <2>1, <2>2
<1>2. S = (part(1) \cup part(2)) \cup part(3)
  <2>1. \A x \in S : x = 1 \/ x = 2 \/ x = 3
    OBVIOUS
  <2> QED
    BY <2>1
<1>3. part(1) \cap part(2) = {} /\ (part(1) \cup part(2)) \cap part(3) = {}
  OBVIOUS
<1>4. \A i \in 1 .. 3 : One(i \in S) \in Nat
  BY DEF One
<1> HIDE DEF part
<1>5. PICK P1, P2, P3 : P1 = part(1) /\ P2 = part(2) /\ P3 = part(3)
  OBVIOUS
<1>6. /\ IsFiniteSet(P1) /\ IsFiniteSet(P2) /\ IsFiniteSet(P3)
      /\ Cardinality(P1) = One(1 \in S) /\ Cardinality(P2) = One(2 \in S)
      /\ Cardinality(P3) = One(3 \in S)
  BY <1>1, <1>5
<1>7. P1 \cap P2 = {} /\ (P1 \cup P2) \cap P3 = {} /\ S = (P1 \cup P2) \cup P3
  BY <1>2, <1>3, <1>5
<1>8. IsFiniteSet(P1 \cup P2) /\ Cardinality(P1 \cup P2) = One(1 \in S) + One(2 \in S)
  <2>1. Cardinality(P1 \cup P2) = Cardinality(P1) + Cardinality(P2) - Cardinality(P1 \cap P2)
    BY <1>6, FS_Union
  <2>2. Cardinality(P1 \cap P2) = 0
    BY <1>7, FS_EmptySet
  <2> QED
    <3>1. IsFiniteSet(P1 \cup P2)
      BY <1>6, FS_Union
    <3> QED
      BY <1>4, <1>6, <2>1, <2>2, <3>1
<1>9. Cardinality((P1 \cup P2) \cup P3)
        = Cardinality(P1 \cup P2) + Cardinality(P3) - Cardinality((P1 \cup P2) \cap P3)
  BY <1>6, <1>8, FS_Union
<1>10. Cardinality((P1 \cup P2) \cap P3) = 0
  BY <1>7, FS_EmptySet
<1> QED
  BY <1>4, <1>6, <1>7, <1>8, <1>9, <1>10

LEMMA PlaceIs ==
  ASSUME Line!Mask \in SUBSET (1 .. 3)
  PROVE  /\ Line!Place(0) = 0 /\ Line!Place(3) = Cardinality(Line!Mask)
         /\ \A k \in 1 .. 3 : Line!Place(k) = Line!Place(k - 1) + One(k \in Line!Mask)
<1> DEFINE below(a) == {j \in Line!Mask : j <= a}
<1>1. \A a \in 0 .. 3 : below(a) \in SUBSET (1 .. 3)
  OBVIOUS
<1>2. \A a \in 0 .. 3 : Line!Place(a) = Cardinality(below(a))
  BY SameCount DEF Line!Place
<1>3. ASSUME NEW a \in 0 .. 3, NEW k \in 1 .. 3
      PROVE  k \in below(a) <=> (k <= a /\ k \in Line!Mask)
  OBVIOUS
<1>4. below(3) = Line!Mask
  <2>1. \A j \in Line!Mask : j <= 3
    OBVIOUS
  <2> QED
    BY <2>1
<1> HIDE DEF below
<1>5. ASSUME NEW a \in 0 .. 3
      PROVE  Line!Place(a) = One(1 <= a /\ 1 \in Line!Mask) + One(2 <= a /\ 2 \in Line!Mask)
                               + One(3 <= a /\ 3 \in Line!Mask)
  <2>1. Line!Place(a) = Cardinality(below(a))
    BY <1>2
  <2>2. Cardinality(below(a)) = One(1 \in below(a)) + One(2 \in below(a)) + One(3 \in below(a))
    BY <1>1, CountOfThree
  <2> QED
    BY <1>3, <2>1, <2>2 DEF One
<1>6. Line!Place(3) = Cardinality(Line!Mask)
  BY <1>2, <1>4
<1>7. ASSUME NEW k \in 1 .. 3 PROVE Line!Place(k) = Line!Place(k - 1) + One(k \in Line!Mask)
  <2>1. k \in 0 .. 3 /\ k - 1 \in 0 .. 3
    OBVIOUS
  <2>2. /\ Line!Place(k) = One(1 <= k /\ 1 \in Line!Mask) + One(2 <= k /\ 2 \in Line!Mask)
                               + One(3 <= k /\ 3 \in Line!Mask)
        /\ Line!Place(k - 1) = One(1 <= k - 1 /\ 1 \in Line!Mask)
                                 + One(2 <= k - 1 /\ 2 \in Line!Mask)
                                 + One(3 <= k - 1 /\ 3 \in Line!Mask)
    BY <1>5, <2>1
  <2>3. k = 1 \/ k = 2 \/ k = 3
    OBVIOUS
  <2> QED
    BY <2>2, <2>3 DEF One
<1> QED
  BY <1>5, <1>6, <1>7 DEF One

ThreeFields == 1 .. 3

LEMMA PlacesAre ==
  ASSUME Line!Mask \in SUBSET ThreeFields
  PROVE  /\ Line!Place(0) = 0 /\ Line!Place(1) = One(1 \in Line!Mask)
         /\ Line!Place(2) = Line!Place(1) + One(2 \in Line!Mask)
         /\ Line!Place(3) = Line!Place(2) + One(3 \in Line!Mask)
         /\ Line!Place(3) = Cardinality(Line!Mask)
<1>1. ASSUME NEW k \in 1 .. 3, NEW j, j = k - 1
      PROVE  Line!Place(k) = Line!Place(j) + One(k \in Line!Mask)
  BY <1>1, PlaceIs DEF ThreeFields
<1>2. /\ Line!Place(1) = Line!Place(0) + One(1 \in Line!Mask)
      /\ Line!Place(2) = Line!Place(1) + One(2 \in Line!Mask)
      /\ Line!Place(3) = Line!Place(2) + One(3 \in Line!Mask)
  <2>1. 1 \in 1 .. 3 /\ 2 \in 1 .. 3 /\ 3 \in 1 .. 3 /\ 0 = 1 - 1 /\ 1 = 2 - 1 /\ 2 = 3 - 1
    OBVIOUS
  <2> QED
    BY <1>1, <2>1
<1>3. One(1 \in Line!Mask) \in Nat
  BY DEF One
<1> QED
  BY <1>2, <1>3, PlaceIs DEF ThreeFields

\* Places from below and above.
LEMMA PlaceOrder ==
  ASSUME Line!Mask \in SUBSET ThreeFields
  PROVE  /\ \A a \in 0 .. 3 : Line!Place(a) \in 0 .. 3 /\ Line!Place(a) <= Line!Place(3)
         /\ \A k \in Line!Mask, j \in Line!Mask :
              /\ Line!Place(k) \in 1 .. Cardinality(Line!Mask)
              /\ Line!Place(k) = Line!Place(j) => k = j
              /\ Line!Place(k) <= Line!Place(j) <=> k <= j
<1>1. PICK p0, p1, p2, p3 : /\ p0 = Line!Place(0) /\ p1 = Line!Place(1)
                            /\ p2 = Line!Place(2) /\ p3 = Line!Place(3)
  OBVIOUS
<1>2. /\ p0 = 0 /\ p1 = One(1 \in Line!Mask) /\ p2 = p1 + One(2 \in Line!Mask)
      /\ p3 = p2 + One(3 \in Line!Mask) /\ p3 = Cardinality(Line!Mask)
  BY <1>1, PlacesAre
<1>3. \A a \in 0 .. 3 : Line!Place(a) = IF a = 0 THEN p0 ELSE IF a = 1 THEN p1
                                        ELSE IF a = 2 THEN p2 ELSE p3
  BY <1>1
<1>4. \A k \in Line!Mask : k \in 1 .. 3 /\ (k = 1 \/ k = 2 \/ k = 3)
  BY DEF ThreeFields
<1>5. \A a \in 0 .. 3 : Line!Place(a) \in 0 .. 3 /\ Line!Place(a) <= Line!Place(3)
  BY <1>2, <1>3 DEF One
<1>6. ASSUME NEW k \in Line!Mask, NEW j \in Line!Mask
      PROVE  /\ Line!Place(k) \in 1 .. p3
             /\ Line!Place(k) = Line!Place(j) => k = j
             /\ Line!Place(k) <= Line!Place(j) <=> k <= j
  BY <1>2, <1>3, <1>4 DEF One
<1> QED
  BY <1>2, <1>5, <1>6

\* Arguments that have been taken from the line.
Consumed == arg_index - 1 - skipped_args

LineParsing ==
  /\ arg_index \in 1 .. 4 /\ skipped_args \in Nat /\ Consumed = Line!Place(arg_index - 1)
  /\ IsSequence(text) /\ IsSequence(line_buf) /\ Len(line_buf) = Len(text) - Consumed
  /\ \A i \in 1 .. Len(line_buf) : line_buf[i] = text[Consumed + i]
  /\ line_buf = <<>> /\ text # <<>> => text[Len(text)] # Line!Nothing
  /\ \A k \in Line!Mask : k < arg_index => Line!Fits(k, text[Line!Place(k)])
  /\ fields = [k \in ThreeFields |-> IF k \in Line!Mask /\ k < arg_index THEN text[Line!Place(k)]
                                ELSE Line!Nothing]

\* What an instruction with a first field, or without any, dumps.
ReadableDump(who) ==
  \/ who = "instruction" /\ (1 \in Line!Mask \/ Line!Mask = {})
  \/ who = "program" /\ ((1 \in Line!Mask /\ Line!IsOperand(1)) \/ Line!Mask = {})

\* The text that is dumped has the fields at their places.
DumpedText ==
  ReadableDump(printer) =>
    /\ given \in Line!Instructions /\ IsSequence(text) /\ Len(text) = Cardinality(Line!Mask)
    /\ \A k \in Line!Mask : text[Line!Place(k)] = given[k]

LineInv ==
  /\ Line!Mask \in SUBSET ThreeFields
  /\ outcome = "none" => /\ arg_index = 1 /\ skipped_args = 0 /\ fields = Line!Unset
                         /\ printer = "none"
  /\ outcome = "parsing" => LineParsing
  /\ DumpedText /\ Line!ArgumentsLand

LEMMA SameShape ==
  ASSUME UNCHANGED shape
  PROVE  /\ Line!Mask' = Line!Mask
         /\ \A k : Line!Place(k)' = Line!Place(k)
         /\ \A k, piece : Line!Fits(k, piece)' <=> Line!Fits(k, piece)
<1>1. Line!Mask' = Line!Mask
  BY DEF Line!Mask
<1>2. \A k : Line!Place(k)' = Line!Place(k)
  BY <1>1 DEF Line!Place
<1>3. \A k, piece : Line!Fits(k, piece)' <=> Line!Fits(k, piece)
  BY DEF Line!Fits, Line!IsOperand
<1> QED
  BY <1>1, <1>2, <1>3

LEMMA LineStart == ASSUME Line!Init PROVE LineInv
<1>1. shape \in Line!Shapes /\ outcome = "none" /\ printer = "none"
  BY DEF Line!Init
<1>2. Line!Mask \in SUBSET ThreeFields
  BY <1>1 DEF Line!Shapes, Line!Mask, ThreeFields
<1>3. arg_index = 1 /\ skipped_args = 0 /\ fields = Line!Unset
  BY DEF Line!Init
<1> QED
  BY <1>1, <1>2, <1>3 DEF LineInv, DumpedText, ReadableDump, Line!ArgumentsLand

LEMMA ParsingBegins ==
  ASSUME LineInv, outcome = "none", IsSequence(text'), line_buf' = text',
         UNCHANGED <<shape, arg_index, skipped_args, fields>>
  PROVE  LineParsing'
<1>1. arg_index' = 1 /\ skipped_args' = 0 /\ fields' = [k \in ThreeFields |-> Line!Nothing]
  BY DEF LineInv, Line!Unset, ThreeFields
<1>2. Line!Mask' = Line!Mask /\ Line!Place(0)' = 0
  <2>1. Line!Mask' = Line!Mask /\ Line!Place(0)' = Line!Place(0)
    BY SameShape
  <2>2. Line!Place(0) = 0
    BY PlaceIs DEF LineInv, ThreeFields
  <2> QED
    BY <2>1, <2>2
<1>3. \A k \in Line!Mask' : ~(k < 1)
  BY <1>2 DEF LineInv, ThreeFields
<1>4. Consumed' = 0 /\ arg_index' - 1 = 0
  BY <1>1 DEF Consumed
<1>5. Len(text') \in Nat
  BY DEF IsSequence
<1>6. fields' = [k \in ThreeFields |-> IF k \in Line!Mask' /\ k < arg_index' THEN text'[Line!Place(k)']
                                  ELSE Line!Nothing]
  BY <1>1, <1>3
<1> QED
  BY <1>1, <1>2, <1>3, <1>4, <1>5, <1>6 DEF LineParsing

LEMMA WriteLineKeeps ==
  ASSUME LineInv, Line!WriteLine
  PROVE  LineInv'
<1>1. /\ outcome = "none" /\ outcome' = "parsing" /\ line_buf' = text' /\ printer' = "user"
      /\ UNCHANGED <<shape, arg_index, skipped_args, fields>>
  BY DEF Line!WriteLine
<1>2. text' \in Seq(Line!Pieces)
  <2>1. PICK m \in 0 .. MaxPieces : text' \in [1 .. m -> Line!Pieces]
    BY DEF Line!WriteLine, Line!BoundedSeq, Line!SeqOf
  <2> QED
    BY <2>1
<1>3. LineParsing'
  BY <1>1, <1>2, ParsingBegins DEF IsSequence
<1>4. Line!Mask' \in SUBSET ThreeFields
  BY <1>1, SameShape DEF LineInv
<1> QED
  BY <1>1, <1>3, <1>4 DEF LineInv, DumpedText, ReadableDump, Line!ArgumentsLand

\* The argument that is looked at belongs to the next field of the instruction.
LEMMA NextField ==
  ASSUME Line!Mask \in SUBSET ThreeFields, LineParsing, ~Line!Empty, ~Line!TooMany
  PROVE  \E at \in Line!Mask :
           /\ at >= arg_index /\ Line!Skip = [at |-> at, count |-> skipped_args + (at - arg_index)]
           /\ Line!Place(at) = Consumed + 1
           /\ \A k \in Line!Mask : k < at => k < arg_index
<1> DEFINE wanted == {k \in Line!Mask : k >= arg_index}
<1>1. arg_index \in 1 .. 4 /\ skipped_args \in Nat /\ Consumed = Line!Place(arg_index - 1)
  BY DEF LineParsing
<1>2. Consumed < Cardinality(Line!Mask)
  <2>1. Cardinality(Line!Mask) \in Nat /\ Line!Place(3) = Cardinality(Line!Mask)
    BY PlaceIs, PlaceOrder DEF ThreeFields
  <2> QED
    BY <1>1, <2>1, SameCount DEF Line!TooMany, Consumed
<1>3. PICK p0, p1, p2, p3 : /\ p0 = Line!Place(0) /\ p1 = Line!Place(1)
                            /\ p2 = Line!Place(2) /\ p3 = Line!Place(3)
  OBVIOUS
<1>4. /\ p0 = 0 /\ p1 = One(1 \in Line!Mask) /\ p2 = p1 + One(2 \in Line!Mask)
      /\ p3 = p2 + One(3 \in Line!Mask) /\ p3 = Cardinality(Line!Mask)
  BY <1>3, PlacesAre
<1>5. \A k \in Line!Mask : k = 1 \/ k = 2 \/ k = 3
  BY DEF ThreeFields
<1>6. \/ arg_index = 1 /\ Consumed = p0
      \/ arg_index = 2 /\ Consumed = p1
      \/ arg_index = 3 /\ Consumed = p2
      \/ arg_index = 4 /\ Consumed = p3
  <2>1. PICK a : a = arg_index - 1
    OBVIOUS
  <2>2. Consumed = Line!Place(a)
    BY <1>1, <2>1
  <2>3. \/ arg_index = 1 /\ a = 0
        \/ arg_index = 2 /\ a = 1
        \/ arg_index = 3 /\ a = 2
        \/ arg_index = 4 /\ a = 3
    BY <1>1, <2>1
  <2>4. (a = 0 => Consumed = p0) /\ (a = 1 => Consumed = p1) /\ (a = 2 => Consumed = p2)
          /\ (a = 3 => Consumed = p3)
    BY <1>3, <2>2, Zenon
  <2> QED
    BY <2>3, <2>4
<1>7. \E at \in wanted : \A j \in wanted : at <= j
  <2>1. 1 \in wanted \/ 2 \in wanted \/ 3 \in wanted
    BY <1>2, <1>4, <1>6 DEF One
  <2> QED
    BY <1>5, <2>1
<1>8. PICK at : at = CHOOSE k \in wanted : \A j \in wanted : k <= j
  OBVIOUS
<1>9. at \in wanted /\ \A j \in wanted : at <= j
  BY <1>7, <1>8
<1>10. Line!Skip = [at |-> at, count |-> skipped_args + (at - arg_index)]
  <2>1. wanted # {}
    BY <1>9
  <2> QED
    BY <1>8, <2>1, Zenon DEF Line!Skip
<1>11. at \in Line!Mask /\ at >= arg_index /\ \A k \in Line!Mask : k < at => k < arg_index
  BY <1>1, <1>5, <1>9
<1> HIDE DEF wanted
<1>12. Line!Place(at) = Consumed + 1
  <2>1. (at = 1 => Line!Place(at) = p1) /\ (at = 2 => Line!Place(at) = p2)
          /\ (at = 3 => Line!Place(at) = p3)
    BY <1>3, Zenon
  <2>2. at = 1 \/ at = 2 \/ at = 3
    BY <1>5, <1>11
  <2> QED
    BY <1>4, <1>11, <1>6, <2>1, <2>2 DEF One
<1> QED
  BY <1>10, <1>11, <1>12

\* The arguments of the line: an empty piece at its end is none.
LEMMA ArgumentsAre ==
  ASSUME IsSequence(text)
  PROVE  LET n == Len(text) IN
         /\ n > 0 /\ text[n] = Line!Nothing =>
              /\ Len(Line!Arguments) = n - 1
              /\ \A i \in 1 .. n - 1 : Line!Arguments[i] = text[i]
         /\ ~(n > 0 /\ text[n] = Line!Nothing) => Line!Arguments = text
<1>1. PICK S : text \in Seq(S)
  BY DEF IsSequence
<1>2. PICK n : n = Len(text)
  OBVIOUS
<1>3. n \in Nat /\ (text # <<>> <=> n > 0)
  BY <1>1, <1>2
<1>4. Line!Last(text) = text[n]
  BY <1>2 DEF Line!Last
<1>5. CASE n > 0 /\ text[n] = Line!Nothing
  <2>1. Line!Arguments = SubSeq(text, 1, n - 1)
    BY <1>2, <1>3, <1>4, <1>5 DEF Line!Arguments, Line!Front
  <2>2. /\ Len(SubSeq(text, 1, n - 1)) = n - 1
        /\ \A i \in 1 .. n - 1 : SubSeq(text, 1, n - 1)[i] = text[i]
    BY <1>1, <1>2, <1>3, <1>5
  <2> QED
    BY <1>2, <1>5, <2>1, <2>2
<1>6. CASE ~(n > 0 /\ text[n] = Line!Nothing)
  BY <1>2, <1>3, <1>4, <1>6 DEF Line!Arguments
<1> QED
  BY <1>2, <1>5, <1>6

LEMMA EmptyIs ==
  ASSUME IsSequence(line_buf)
  PROVE  Line!Empty <=> Len(line_buf) = 0 \/ (Len(line_buf) = 1 /\ line_buf[1] = Line!Nothing)
<1>1. PICK S : line_buf \in Seq(S)
  BY DEF IsSequence
<1>2. Len(line_buf) = 0 => line_buf = <<>>
  BY <1>1
<1>3. ASSUME Len(line_buf) = 1, line_buf[1] = Line!Nothing PROVE line_buf = <<Line!Nothing>>
  BY <1>1, <1>3
<1>4. ASSUME line_buf = <<Line!Nothing>>
      PROVE  Len(line_buf) = 1 /\ line_buf[1] = Line!Nothing
  BY <1>4
<1> QED
  BY <1>2, <1>3, <1>4 DEF Line!Empty

\* The piece that is looked at is an argument.
LEMMA HeadIsArgument ==
  ASSUME LineParsing, ~Line!Empty, Consumed \in Nat
  PROVE  /\ Consumed + 1 \in 1 .. Len(Line!Arguments) /\ Len(Line!Arguments) \in Nat
         /\ Line!Arguments[Consumed + 1] = Head(line_buf)
         /\ Head(line_buf) = text[Consumed + 1]
<1>1. PICK S : line_buf \in Seq(S)
  BY DEF LineParsing, IsSequence
<1>2. PICK n, m : n = Len(text) /\ m = Len(line_buf)
  OBVIOUS
<1>3. n \in Nat /\ m \in Nat
  BY <1>2 DEF LineParsing, IsSequence
<1>4. m = n - Consumed /\ \A i \in 1 .. m : line_buf[i] = text[Consumed + i]
  BY <1>2 DEF LineParsing
<1>5. m > 0 /\ (m = 1 => line_buf[1] # Line!Nothing)
  BY <1>2, <1>3, EmptyIs DEF LineParsing
<1>6. Head(line_buf) = line_buf[1] /\ line_buf[1] = text[Consumed + 1]
  BY <1>1, <1>2, <1>3, <1>4, <1>5
<1>7. m = 1 => text[n] # Line!Nothing
  BY <1>3, <1>4, <1>5, <1>6
<1>8. CASE n > 0 /\ text[n] = Line!Nothing
  <2>1. Len(Line!Arguments) = n - 1 /\ \A i \in 1 .. n - 1 : Line!Arguments[i] = text[i]
    BY <1>2, <1>8, ArgumentsAre DEF LineParsing
  <2>2. Consumed + 1 \in 1 .. n - 1
    BY <1>3, <1>4, <1>5, <1>7, <1>8
  <2> QED
    BY <1>3, <1>6, <2>1, <2>2
<1>9. CASE ~(n > 0 /\ text[n] = Line!Nothing)
  <2>1. Line!Arguments = text
    BY <1>2, <1>9, ArgumentsAre DEF LineParsing
  <2> QED
    BY <1>2, <1>3, <1>4, <1>5, <1>6, <2>1
<1> QED
  BY <1>8, <1>9

LEMMA ConsumedIs ==
  ASSUME Line!Mask \in SUBSET ThreeFields, LineParsing
  PROVE  /\ Consumed \in 0 .. Cardinality(Line!Mask) /\ Cardinality(Line!Mask) \in Nat
         /\ Line!TooMany <=> Consumed = Cardinality(Line!Mask)
<1>1. arg_index \in 1 .. 4 /\ skipped_args \in Nat /\ Consumed = Line!Place(arg_index - 1)
  BY DEF LineParsing
<1>2. arg_index - 1 \in 0 .. 3
  BY <1>1
<1>3. Consumed \in 0 .. 3 /\ Consumed <= Line!Place(3)
  BY <1>1, <1>2, PlaceOrder
<1>4. Line!Place(3) = Cardinality(Line!Mask) /\ Cardinality(Line!Mask) \in Nat
  BY PlacesAre, PlaceOrder
<1> QED
  BY <1>1, <1>3, <1>4, SameCount DEF Line!TooMany, Consumed

\* When every argument has been taken, every field is behind.
LEMMA AllBefore ==
  ASSUME Line!Mask \in SUBSET ThreeFields, LineParsing, Consumed = Cardinality(Line!Mask),
         NEW k \in Line!Mask
  PROVE  k < arg_index
<1>1. arg_index \in 1 .. 4 /\ Consumed = Line!Place(arg_index - 1)
  BY DEF LineParsing
<1>2. PICK a : a = arg_index - 1
  OBVIOUS
<1>3. a \in 0 .. 3 /\ Line!Place(a) = Line!Place(3)
  BY <1>1, <1>2, PlacesAre
<1>4. PICK p0, p1, p2, p3 : /\ p0 = Line!Place(0) /\ p1 = Line!Place(1)
                            /\ p2 = Line!Place(2) /\ p3 = Line!Place(3)
  OBVIOUS
<1>5. (a = 0 => p0 = p3) /\ (a = 1 => p1 = p3) /\ (a = 2 => p2 = p3)
  BY <1>3, <1>4, Zenon
<1>6. /\ p0 = 0 /\ p1 = One(1 \in Line!Mask) /\ p2 = p1 + One(2 \in Line!Mask)
      /\ p3 = p2 + One(3 \in Line!Mask)
  BY <1>4, PlacesAre
<1>7. k = 1 \/ k = 2 \/ k = 3
  BY DEF ThreeFields
<1> QED
  BY <1>1, <1>2, <1>3, <1>5, <1>6, <1>7 DEF One

\* A line that is not right is rejected; nothing but the outcome changes.
LEMMA RejectKeeps ==
  ASSUME LineInv, Line!Reject,
         ~(/\ Len(Line!Arguments) = Cardinality(Line!Mask)
           /\ \A k \in Line!Mask : Line!Fits(k, Line!Arguments[Line!Place(k)]))
  PROVE  LineInv'
<1>1. outcome' = "rejected" /\ UNCHANGED <<shape, given, printer, text>>
  BY DEF Line!Reject
<1>2. /\ Line!Mask' = Line!Mask /\ \A k : Line!Place(k)' = Line!Place(k)
      /\ \A k, piece : Line!Fits(k, piece)' <=> Line!Fits(k, piece)
  BY <1>1, SameShape
<1>3. Line!Arguments' = Line!Arguments
  BY <1>1 DEF Line!Arguments, Line!Last, Line!Front
<1>4. ~(/\ Len(Line!Arguments') = Cardinality(Line!Mask')
        /\ \A k \in Line!Mask' : Line!Fits(k, Line!Arguments[Line!Place(k)])')
  BY <1>2, <1>3
<1>5. Line!ArgumentsLand'
  BY <1>1, <1>4, SameCount DEF Line!ArgumentsLand
<1>6. DumpedText'
  BY <1>1, <1>2 DEF LineInv, DumpedText, ReadableDump, Line!Instructions, Line!IsOperand
<1> QED
  BY <1>1, <1>2, <1>5, <1>6 DEF LineInv

LEMMA TooManyKeeps ==
  ASSUME LineInv, Line!TooManyArguments
  PROVE  LineInv'
<1>1. LineParsing /\ ~Line!Empty /\ Line!TooMany /\ Line!Reject /\ Line!Mask \in SUBSET ThreeFields
  BY DEF LineInv, Line!TooManyArguments
<1>2. Consumed = Cardinality(Line!Mask) /\ Consumed \in Nat
  BY <1>1, ConsumedIs
<1>3. Len(Line!Arguments) # Cardinality(Line!Mask)
  BY <1>1, <1>2, HeadIsArgument
<1> QED
  BY <1>1, <1>3, RejectKeeps

LEMMA ParseArgumentKeeps ==
  ASSUME LineInv, Line!ParseArgument
  PROVE  LineInv'
<1>1. /\ LineParsing /\ ~Line!Empty /\ ~Line!TooMany /\ outcome = "parsing"
      /\ Line!Mask \in SUBSET ThreeFields
  BY DEF LineInv, Line!ParseArgument
<1>2. Consumed \in Nat /\ arg_index \in 1 .. 4 /\ skipped_args \in Nat
  BY <1>1, ConsumedIs DEF LineParsing
<1>3. PICK at \in Line!Mask :
        /\ at >= arg_index /\ Line!Skip = [at |-> at, count |-> skipped_args + (at - arg_index)]
        /\ Line!Place(at) = Consumed + 1 /\ \A k \in Line!Mask : k < at => k < arg_index
  BY <1>1, NextField
<1>4. at \in ThreeFields /\ Line!Skip.at = at /\ Line!Skip.count = skipped_args + (at - arg_index)
  BY <1>1, <1>3
<1>5. PICK piece : piece = Head(line_buf)
  OBVIOUS
<1>6. /\ Consumed + 1 \in 1 .. Len(Line!Arguments) /\ Len(Line!Arguments) \in Nat
      /\ Line!Arguments[Line!Place(at)] = piece /\ text[Line!Place(at)] = piece
  BY <1>1, <1>2, <1>3, <1>5, HeadIsArgument
<1>7. CASE ~Line!Fits(at, piece)
  <2>1. Line!Reject
    BY <1>4, <1>5, <1>7 DEF Line!ParseArgument
  <2> QED
    BY <1>3, <1>6, <1>7, <2>1, RejectKeeps
<1>8. CASE Line!Fits(at, piece)
  <2>1. /\ fields' = [fields EXCEPT ![at] = piece] /\ line_buf' = Tail(line_buf)
        /\ arg_index' = at + 1 /\ skipped_args' = skipped_args + (at - arg_index)
        /\ UNCHANGED <<shape, given, printer, text, outcome>>
    BY <1>4, <1>5, <1>8 DEF Line!ParseArgument
  <2>2. /\ Line!Mask' = Line!Mask /\ \A k : Line!Place(k)' = Line!Place(k)
        /\ \A k, p : Line!Fits(k, p)' <=> Line!Fits(k, p)
    BY <2>1, SameShape
  <2>3. arg_index' \in 1 .. 4 /\ skipped_args' \in Nat /\ arg_index' - 1 = at
    BY <1>2, <1>3, <1>4, <2>1 DEF ThreeFields
  <2>4. Consumed' = Consumed + 1
    BY <1>2, <1>3, <1>4, <2>1 DEF Consumed, ThreeFields
  <2>5. PICK S : line_buf \in Seq(S)
    BY <1>1 DEF LineParsing, IsSequence
  <2>6. PICK m, n : m = Len(line_buf) /\ n = Len(text)
    OBVIOUS
  <2>7. m \in Nat /\ n \in Nat /\ m = n - Consumed
    BY <1>1, <2>6 DEF LineParsing, IsSequence
  <2>8. m > 0 /\ (m = 1 => piece # Line!Nothing)
    <3>1. m > 0 /\ (m = 1 => line_buf[1] # Line!Nothing)
      BY <1>1, <2>6, <2>7, EmptyIs DEF LineParsing
    <3> QED
      BY <1>5, <2>5, <2>6, <3>1
  <2>9. /\ Tail(line_buf) \in Seq(S) /\ Len(Tail(line_buf)) = m - 1
        /\ \A i \in 1 .. m - 1 : Tail(line_buf)[i] = line_buf[i + 1]
    BY <2>5, <2>6, <2>8
  <2>10. \A i \in 1 .. m - 1 : Tail(line_buf)[i] = text[(Consumed + 1) + i]
    <3> SUFFICES ASSUME NEW i \in 1 .. m - 1 PROVE Tail(line_buf)[i] = text[(Consumed + 1) + i]
      OBVIOUS
    <3>1. i + 1 \in 1 .. m /\ Consumed + (i + 1) = (Consumed + 1) + i
      BY <1>2, <2>7
    <3> QED
      BY <1>1, <2>6, <2>9, <3>1 DEF LineParsing
  <2>11. Len(line_buf') = Len(text') - Consumed' /\ IsSequence(line_buf') /\ IsSequence(text')
    <3>1. m - 1 = n - (Consumed + 1)
      BY <1>2, <2>7
    <3> QED
      BY <1>1, <2>1, <2>4, <2>6, <2>9, <3>1 DEF LineParsing, IsSequence
  <2>12. \A i \in 1 .. Len(line_buf') : line_buf'[i] = text'[Consumed' + i]
    BY <2>1, <2>4, <2>6, <2>9, <2>10
  <2>13. line_buf' = <<>> /\ text' # <<>> => text'[Len(text')] # Line!Nothing
    <3> SUFFICES ASSUME line_buf' = <<>> PROVE text'[Len(text')] # Line!Nothing
      OBVIOUS
    <3>1. m = 1
      BY <2>1, <2>7, <2>8, <2>9
    <3>2. n = Consumed + 1
      BY <1>2, <2>7, <3>1
    <3> QED
      BY <1>3, <1>6, <2>1, <2>6, <2>8, <3>1, <3>2
  <2>14. \A k \in Line!Mask : k < at + 1 <=> (k < arg_index \/ k = at)
    BY <1>1, <1>2, <1>3, <1>4 DEF ThreeFields
  <2>15. ASSUME NEW k \in Line!Mask', k < arg_index'
         PROVE  Line!Fits(k, text[Line!Place(k)])'
    <3>1. k \in Line!Mask /\ (k < arg_index \/ k = at)
      BY <2>1, <2>2, <2>14, <2>15
    <3>2. Line!Fits(k, text[Line!Place(k)])
      BY <1>1, <1>6, <1>8, <3>1 DEF LineParsing
    <3> QED
      BY <2>1, <2>2, <3>2
  <2>16. fields' = [k \in ThreeFields |-> IF k \in Line!Mask' /\ k < arg_index' THEN text'[Line!Place(k)']
                                     ELSE Line!Nothing]
    <3>1. fields = [k \in ThreeFields |-> IF k \in Line!Mask /\ k < arg_index THEN text[Line!Place(k)]
                                     ELSE Line!Nothing]
      BY <1>1 DEF LineParsing
    <3>2. PICK g : g = [fields EXCEPT ![at] = piece]
      OBVIOUS
    <3>3. g = [k \in ThreeFields |-> IF k = at THEN piece ELSE fields[k]]
      BY <1>4, <3>1, <3>2
    <3>4. ASSUME NEW k \in ThreeFields
          PROVE  (IF k = at THEN piece ELSE fields[k])
                   = IF k \in Line!Mask /\ k < at + 1 THEN text[Line!Place(k)] ELSE Line!Nothing
      <4>1. CASE k = at
        BY <1>3, <1>4, <1>6, <2>14, <4>1
      <4>2. CASE k # at
        BY <2>14, <3>1, <4>2
      <4> QED
        BY <4>1, <4>2
    <3>5. g = [k \in ThreeFields |-> IF k \in Line!Mask /\ k < at + 1 THEN text[Line!Place(k)]
                                ELSE Line!Nothing]
      BY <3>3, <3>4
    <3> QED
      BY <2>1, <2>2, <3>2, <3>5
  <2>17. LineParsing'
    <3>1. Consumed' = Line!Place(arg_index - 1)'
      BY <1>3, <2>2, <2>3, <2>4
    <3> QED
      BY <2>3, <2>11, <2>12, <2>13, <2>15, <2>16, <3>1 DEF LineParsing
  <2>18. DumpedText'
    BY <2>1, <2>2 DEF LineInv, DumpedText, ReadableDump, Line!Instructions, Line!IsOperand
  <2>19. outcome' = "parsing"
    BY <1>1, <2>1
  <2> QED
    BY <1>1, <2>2, <2>17, <2>18, <2>19 DEF LineInv, Line!ArgumentsLand
<1> QED
  BY <1>7, <1>8

LEMMA FinishKeeps ==
  ASSUME LineInv, Line!Finish
  PROVE  LineInv'
<1>1. LineParsing /\ Line!Empty /\ Line!Mask \in SUBSET ThreeFields
  BY DEF LineInv, Line!Finish
<1>2. /\ outcome' = IF Line!TooMany THEN "accepted" ELSE "rejected"
      /\ UNCHANGED <<shape, given, printer, text, line_buf, arg_index, skipped_args, fields>>
  <2>1. arg_index <= Line!Cardinality(Line!Mask) + skipped_args <=> ~Line!TooMany
    <3>1. /\ arg_index \in Nat /\ skipped_args \in Nat /\ Cardinality(Line!Mask) \in Nat
      BY <1>1, ConsumedIs DEF LineParsing
    <3> QED
      BY <3>1, SameCount DEF Line!TooMany
  <2> QED
    BY <2>1 DEF Line!Finish
<1>3. /\ Consumed \in 0 .. Cardinality(Line!Mask) /\ Cardinality(Line!Mask) \in Nat
      /\ Line!TooMany <=> Consumed = Cardinality(Line!Mask)
  BY <1>1, ConsumedIs
<1>4. Len(Line!Arguments) = Consumed /\ \A i \in 1 .. Consumed : Line!Arguments[i] = text[i]
  <2>1. PICK n, m : n = Len(text) /\ m = Len(line_buf)
    OBVIOUS
  <2>2. n \in Nat /\ m \in Nat /\ m = n - Consumed
    BY <1>1, <2>1 DEF LineParsing, IsSequence
  <2>3. CASE m = 0
    <3>1. ~(n > 0 /\ text[n] = Line!Nothing)
      BY <1>1, <2>1, <2>3 DEF LineParsing, IsSequence
    <3>2. Line!Arguments = text
      BY <1>1, <2>1, <3>1, ArgumentsAre DEF LineParsing
    <3> QED
      BY <1>3, <2>1, <2>2, <2>3, <3>2
  <2>4. CASE m = 1 /\ line_buf[1] = Line!Nothing
    <3>1. n > 0 /\ text[n] = Line!Nothing
      <4>1. line_buf[1] = text[Consumed + 1] /\ Consumed + 1 = n
        BY <1>1, <1>3, <2>1, <2>2, <2>4 DEF LineParsing
      <4> QED
        BY <1>3, <2>2, <2>4, <4>1
    <3>2. /\ Len(Line!Arguments) = n - 1 /\ \A i \in 1 .. n - 1 : Line!Arguments[i] = text[i]
      BY <1>1, <2>1, <3>1, ArgumentsAre DEF LineParsing
    <3>3. n - 1 = Consumed
      BY <1>3, <2>2, <2>4
    <3> QED
      BY <3>2, <3>3
  <2> QED
    BY <1>1, <2>1, <2>3, <2>4, EmptyIs DEF LineParsing
<1>5. CASE ~Line!TooMany
  <2>1. Line!Reject
    BY <1>2, <1>5 DEF Line!Reject
  <2>2. Len(Line!Arguments) # Cardinality(Line!Mask)
    BY <1>3, <1>4, <1>5
  <2> QED
    BY <2>1, <2>2, RejectKeeps
<1>6. CASE Line!TooMany
  <2>1. outcome' = "accepted" /\ Consumed = Cardinality(Line!Mask)
    BY <1>2, <1>3, <1>6
  <2>2. /\ Line!Mask' = Line!Mask /\ \A k : Line!Place(k)' = Line!Place(k)
        /\ \A k, p : Line!Fits(k, p)' <=> Line!Fits(k, p)
    BY <1>2, SameShape
  <2>3. Line!Arguments' = Line!Arguments
    BY <1>2 DEF Line!Arguments, Line!Last, Line!Front
  <2>4. ASSUME NEW k \in Line!Mask
        PROVE  k < arg_index /\ Line!Place(k) \in 1 .. Consumed
    <3>1. Line!Place(k) \in 1 .. Cardinality(Line!Mask) /\ k \in 1 .. 3
      BY <1>1, PlaceOrder DEF ThreeFields
    <3>2. k < arg_index
      BY <1>1, <2>1, <3>1, AllBefore
    <3> QED
      BY <2>1, <3>1, <3>2
  <2>5. \A k \in Line!Mask : Line!Arguments[Line!Place(k)] = text[Line!Place(k)]
    BY <1>4, <2>4
  <2>6. \A k \in Line!Mask : Line!Fits(k, Line!Arguments[Line!Place(k)])
    BY <1>1, <2>4, <2>5 DEF LineParsing
  <2>7. fields = [k \in 1 .. 3 |-> IF k \in Line!Mask THEN Line!Arguments[Line!Place(k)]
                                   ELSE Line!Nothing]
    BY <1>1, <2>4, <2>5 DEF LineParsing, ThreeFields
  <2>8. /\ Len(Line!Arguments') = Line!Cardinality(Line!Mask')
        /\ \A k \in Line!Mask' : Line!Fits(k, Line!Arguments[Line!Place(k)])'
        /\ fields' = [k \in 1 .. 3 |-> IF k \in Line!Mask' THEN Line!Arguments'[Line!Place(k)']
                                       ELSE Line!Nothing]
    <3>1. Len(Line!Arguments') = Line!Cardinality(Line!Mask')
      BY <1>4, <2>1, <2>2, <2>3, SameCount
    <3>2. \A k \in Line!Mask' : Line!Fits(k, Line!Arguments[Line!Place(k)])'
      BY <2>2, <2>3, <2>6
    <3>3. fields' = fields
      BY <1>2
    <3> QED
      BY <2>2, <2>3, <2>7, <3>1, <3>2, <3>3
  <2>9. Line!ArgumentsLand'
    BY <2>1, <2>8 DEF Line!ArgumentsLand
  <2>10. DumpedText'
    BY <1>2, <2>2 DEF LineInv, DumpedText, ReadableDump, Line!Instructions, Line!IsOperand
  <2> QED
    BY <1>1, <2>1, <2>2, <2>9, <2>10 DEF LineInv
<1> QED
  BY <1>5, <1>6

LEMMA FieldAtPlace ==
  ASSUME Line!Mask \in SUBSET ThreeFields, NEW k \in Line!Mask
  PROVE  Line!FieldAt(Line!Place(k)) = k
<1>1. \A j \in Line!Mask : Line!Place(j) = Line!Place(k) <=> j = k
  BY PlaceOrder
<1> QED
  BY <1>1 DEF Line!FieldAt

\* The pieces that Dump writes for the fields.
LEMMA DumpIs ==
  ASSUME Line!Mask \in SUBSET ThreeFields, NEW who, NEW i
  PROVE  /\ IsSequence(Line!Dump(who, i))
         /\ ReadableDump(who) /\ i \in Line!Instructions =>
              /\ Len(Line!Dump(who, i)) = Cardinality(Line!Mask)
              /\ \A k \in Line!Mask : Line!Dump(who, i)[Line!Place(k)] = i[k]
<1>1. PICK n : n = Cardinality(Line!Mask)
  OBVIOUS
<1>2. n \in Nat
  BY <1>1, PlacesAre, PlaceOrder
<1>3. PICK pieces :
        pieces = [m \in 1 .. n |-> Line!Written(who, i[Line!FieldAt(m)], Line!FieldAt(m))]
  OBVIOUS
<1>4. Line!Dump(who, i) = IF 1 \notin Line!Mask /\ Line!Mask # {} THEN <<Line!Nothing>> \o pieces
                          ELSE pieces
  <2>1. n = Line!Cardinality(Line!Mask)
    BY <1>1, SameCount
  <2> QED
    BY <1>3, <2>1, Zenon DEF Line!Dump
<1>5. PICK S : S = {pieces[m] : m \in 1 .. n} \cup {Line!Nothing}
  OBVIOUS
<1>6. pieces \in [1 .. n -> S]
  BY <1>3, <1>5
<1>7. pieces \in Seq(S) /\ Len(pieces) = n
  BY <1>2, <1>6
<1>8. <<Line!Nothing>> \in Seq(S)
  BY <1>5
<1>9. <<Line!Nothing>> \o pieces \in Seq(S)
  BY <1>7, <1>8
<1>10. IsSequence(Line!Dump(who, i))
  BY <1>4, <1>7, <1>9 DEF IsSequence
<1>11. ASSUME ReadableDump(who), i \in Line!Instructions
       PROVE  /\ Len(Line!Dump(who, i)) = n
              /\ \A k \in Line!Mask : Line!Dump(who, i)[Line!Place(k)] = i[k]
  <2>1. Line!Dump(who, i) = pieces
    BY <1>4, <1>11 DEF ReadableDump
  <2>2. ASSUME NEW k \in Line!Mask PROVE pieces[Line!Place(k)] = i[k]
    <3>1. Line!Place(k) \in 1 .. n /\ Line!FieldAt(Line!Place(k)) = k
      BY <1>1, PlaceOrder, FieldAtPlace
    <3>2. pieces[Line!Place(k)] = Line!Written(who, i[k], k)
      BY <1>3, <3>1
    <3>3. who = "instruction" \/ (1 \in Line!Mask /\ Line!IsOperand(1))
      BY <1>11 DEF ReadableDump
    <3>4. k \in 1 .. 3
      BY DEF ThreeFields
    <3>5. \A m \in 1 .. 3 : IF m \notin Line!Mask THEN i[m] = Line!Nothing
                            ELSE i[m][1] = IF Line!IsOperand(m) THEN "register" ELSE "number"
      BY <1>11, Zenon DEF Line!Instructions
    <3>6. i[k][1] = IF Line!IsOperand(k) THEN "register" ELSE "number"
      BY <3>4, <3>5, Zenon
    <3>7. who = "program" /\ i[k][1] = "number" => 1 < k
      <4>1. k = 1 \/ 1 < k
        BY <3>4
      <4> QED
        BY <1>11, <3>3, <3>6, <4>1 DEF ReadableDump
    <3> QED
      <4>1. ~(who = "program" /\ i[k][1] = "number" /\ \A j \in Line!Mask : j < k => ~Line!IsOperand(j))
        BY <1>11, <3>3, <3>7 DEF ReadableDump
      <4> QED
        BY <3>2, <4>1, Zenon DEF Line!Written
  <2> QED
    BY <1>7, <2>1, <2>2
<1> QED
  BY <1>1, <1>10, <1>11

LEMMA DumpAndReadKeeps ==
  ASSUME LineInv, Line!DumpAndRead
  PROVE  LineInv'
<1>1. /\ outcome = "none" /\ outcome' = "parsing" /\ line_buf' = text'
      /\ given' \in Line!Instructions /\ text' = Line!Dump(printer', given')
      /\ UNCHANGED <<shape, arg_index, skipped_args, fields>>
  BY DEF Line!DumpAndRead
<1>2. PICK who, i : who = printer' /\ i = given'
  OBVIOUS
<1>3. Line!Mask \in SUBSET ThreeFields /\ text' = Line!Dump(who, i)
  BY <1>1, <1>2 DEF LineInv
<1>4. IsSequence(text')
  BY <1>3, DumpIs
<1>5. LineParsing'
  BY <1>1, <1>4, ParsingBegins
<1>6. Line!Mask' = Line!Mask /\ \A k : Line!Place(k)' = Line!Place(k)
  BY <1>1, SameShape
<1>7. ASSUME ReadableDump(who), i \in Line!Instructions
      PROVE  /\ Len(text') = Cardinality(Line!Mask)
             /\ \A k \in Line!Mask : text'[Line!Place(k)] = i[k]
  BY <1>3, <1>7, DumpIs
<1>8. given' \in Line!Instructions' /\ (ReadableDump(printer))' = ReadableDump(who)
  BY <1>1, <1>2, <1>6 DEF Line!Instructions, Line!IsOperand, ReadableDump
<1>9. DumpedText'
  BY <1>1, <1>2, <1>4, <1>6, <1>7, <1>8 DEF DumpedText
<1> QED
  BY <1>1, <1>3, <1>5, <1>6, <1>9 DEF LineInv, Line!ArgumentsLand

\* What is dumped has one fitting argument for every field.
LEMMA DumpedIsRead ==
  ASSUME LineInv
  PROVE  Line!DumpsReadBack
<1> SUFFICES ASSUME ReadableDump(printer), outcome \in {"accepted", "rejected"}
             PROVE  outcome = "accepted" /\ fields = given
  BY DEF Line!DumpsReadBack, Line!ReadsBack, Line!FirstIsOperand, Line!Fieldless, ReadableDump
<1>1. /\ Line!Mask \in SUBSET ThreeFields /\ given \in Line!Instructions /\ IsSequence(text)
      /\ Len(text) = Cardinality(Line!Mask) /\ \A k \in Line!Mask : text[Line!Place(k)] = given[k]
  BY DEF LineInv, DumpedText
<1>2. ASSUME NEW k \in ThreeFields
      PROVE  IF k \notin Line!Mask THEN given[k] = Line!Nothing
             ELSE given[k][1] = IF Line!IsOperand(k) THEN "register" ELSE "number"
  BY <1>1 DEF Line!Instructions, ThreeFields
<1>3. given = [k \in 1 .. 3 |-> given[k]]
  BY <1>1 DEF Line!Instructions
<1>4. PICK n : n = Cardinality(Line!Mask)
  OBVIOUS
<1>5. n \in Nat
  BY <1>1, <1>4, PlacesAre, PlaceOrder
<1>6. ~(n > 0 /\ text[n] = Line!Nothing)
  <2> SUFFICES ASSUME n > 0 PROVE text[n] # Line!Nothing
    OBVIOUS
  <2>1. PICK k \in Line!Mask : Line!Place(k) = n
    <3>1. /\ Line!Place(0) = 0 /\ Line!Place(1) = One(1 \in Line!Mask)
          /\ Line!Place(2) = Line!Place(1) + One(2 \in Line!Mask)
          /\ Line!Place(3) = Line!Place(2) + One(3 \in Line!Mask)
          /\ Line!Place(3) = n
      BY <1>1, <1>4, PlacesAre
    <3>2. \/ 3 \in Line!Mask
          \/ 3 \notin Line!Mask /\ 2 \in Line!Mask /\ Line!Place(2) = n
          \/ 3 \notin Line!Mask /\ 2 \notin Line!Mask /\ 1 \in Line!Mask /\ Line!Place(1) = n
      BY <1>5, <3>1 DEF One
    <3> QED
      BY <3>1, <3>2
  <2>2. text[n][1] = IF Line!IsOperand(k) THEN "register" ELSE "number"
    BY <1>1, <1>2, <2>1 DEF ThreeFields
  <2> QED
    BY <2>2 DEF Line!Nothing
<1>7. Line!Arguments = text
  BY <1>1, <1>4, <1>6, ArgumentsAre
<1>8. \A k \in Line!Mask : Line!Arguments[Line!Place(k)] = given[k] /\ Line!Fits(k, given[k])
  BY <1>1, <1>2, <1>7 DEF Line!Fits, ThreeFields
<1>9. Len(Line!Arguments) = Line!Cardinality(Line!Mask)
  BY <1>1, <1>7, SameCount
<1>10. outcome = "accepted"
  BY <1>8, <1>9 DEF LineInv, Line!ArgumentsLand
<1>11. fields = [k \in 1 .. 3 |-> IF k \in Line!Mask THEN Line!Arguments[Line!Place(k)]
                                  ELSE Line!Nothing]
  BY <1>10 DEF LineInv, Line!ArgumentsLand
<1>12. fields = given
  BY <1>2, <1>3, <1>8, <1>11 DEF ThreeFields
<1> QED
  BY <1>10, <1>12

\* Whatever registers and numbers there are and however many pieces a line has: a line is
\* accepted exactly if it has one fitting argument for every field, each is then in its
\* field, and what an instruction dumps is read as itself, also in the dump of a program if
\* it begins with a register (ParseInstruction, Dump).
THEOREM ArgumentsReadAsMeant == SubjectSpec => []LinesReadAsMeant
<1> DEFINE Inv == subject = "line" => LineInv
<1>1. SubjectInit => Inv
  BY LineStart DEF SubjectInit
<1>2. Inv /\ [SubjectNext]_subjectVars => Inv'
  <2> SUFFICES ASSUME Inv, [SubjectNext]_subjectVars, subject' = "line" PROVE LineInv'
    OBVIOUS
  <2>1. subject = "line"
    BY DEF SubjectNext, subjectVars
  <2>2. LineInv
    BY <2>1
  <2>3. CASE SubjectNext
    <3>1. Line!Next
      BY <2>1, <2>3 DEF SubjectNext
    <3> QED
      BY <2>2, <3>1, WriteLineKeeps, DumpAndReadKeeps, TooManyKeeps, ParseArgumentKeeps,
         FinishKeeps DEF Line!Next
  <2>4. CASE UNCHANGED subjectVars
    <3>1. /\ UNCHANGED <<text, shape, given, printer>>
          /\ UNCHANGED <<line_buf, arg_index, skipped_args, fields, outcome>>
      BY <2>4 DEF subjectVars, lineVars
    <3>2. Line!Mask' = Line!Mask /\ Line!Arguments' = Line!Arguments
      BY <3>1 DEF Line!Mask, Line!Arguments, Line!Last, Line!Front
    <3>3. /\ \A k : Line!Place(k)' = Line!Place(k)
          /\ \A k, piece : Line!Fits(k, piece)' <=> Line!Fits(k, piece)
      BY <3>1, SameShape
    <3>4. Line!ArgumentsLand'
      BY <2>2, <3>1, <3>2, <3>3 DEF LineInv, Line!ArgumentsLand
    <3>5. outcome = "parsing" => LineParsing'
      BY <2>2, <3>1, <3>2, <3>3 DEF LineInv, LineParsing, Consumed, IsSequence
    <3>6. DumpedText'
      BY <2>2, <3>1, <3>2, <3>3 DEF LineInv, DumpedText, ReadableDump, Line!Instructions,
         Line!IsOperand, IsSequence
    <3> QED
      BY <2>2, <3>1, <3>2, <3>4, <3>5, <3>6 DEF LineInv
  <2> QED
    BY <2>3, <2>4
<1>3. Inv => LinesReadAsMeant
  BY DumpedIsRead DEF LineInv, LinesReadAsMeant
<1> QED
  BY <1>1, <1>2, <1>3, PTL DEF SubjectSpec

--------------------------------------------------------------------------------
(* Numbers and their digits *)

\* What is needed of a base: division and multiplication undo each other.
IsBase(b) ==
  /\ b \in Nat
  /\ \A x \in Nat : x \div b \in Nat /\ x % b \in 0 .. b - 1 /\ (x \div b) * b + (x % b) = x
  /\ \A x \in Nat, d \in Nat : x * b + d \in Nat
  /\ \A x \in Nat, d \in 0 .. b - 1 : (x * b + d) \div b = x /\ (x * b + d) % b = d

LEMMA Bases == IsBase(10) /\ IsBase(16) /\ IsBase(256)
<1>1. IsBase(10)
  <2>1. ASSUME NEW x \in Nat
        PROVE  x \div 10 \in Nat /\ x % 10 \in 0 .. 10 - 1 /\ (x \div 10) * 10 + (x % 10) = x
    <3>1. PICK q, r : q = x \div 10 /\ r = x % 10
      OBVIOUS
    <3>2. q \in Nat /\ r \in 0 .. 10 - 1 /\ q * 10 + r = x
      BY <3>1
    <3> QED
      BY <3>1, <3>2, Zenon
  <2>2. ASSUME NEW x \in Nat, NEW d \in Nat PROVE x * 10 + d \in Nat
    OBVIOUS
  <2>3. ASSUME NEW x \in Nat, NEW d \in 0 .. 10 - 1
        PROVE  (x * 10 + d) \div 10 = x /\ (x * 10 + d) % 10 = d
    OBVIOUS
  <2> QED
    BY <2>1, <2>2, <2>3 DEF IsBase
<1>2. IsBase(16)
  <2>1. ASSUME NEW x \in Nat
        PROVE  x \div 16 \in Nat /\ x % 16 \in 0 .. 16 - 1 /\ (x \div 16) * 16 + (x % 16) = x
    <3>1. PICK q, r : q = x \div 16 /\ r = x % 16
      OBVIOUS
    <3>2. q \in Nat /\ r \in 0 .. 16 - 1 /\ q * 16 + r = x
      BY <3>1
    <3> QED
      BY <3>1, <3>2, Zenon
  <2>2. ASSUME NEW x \in Nat, NEW d \in Nat PROVE x * 16 + d \in Nat
    OBVIOUS
  <2>3. ASSUME NEW x \in Nat, NEW d \in 0 .. 16 - 1
        PROVE  (x * 16 + d) \div 16 = x /\ (x * 16 + d) % 16 = d
    OBVIOUS
  <2> QED
    BY <2>1, <2>2, <2>3 DEF IsBase
<1>3. IsBase(256)
  <2>1. ASSUME NEW x \in Nat
        PROVE  x \div 256 \in Nat /\ x % 256 \in 0 .. 256 - 1 /\ (x \div 256) * 256 + (x % 256) = x
    <3>1. PICK q, r : q = x \div 256 /\ r = x % 256
      OBVIOUS
    <3>2. q \in Nat /\ r \in 0 .. 256 - 1 /\ q * 256 + r = x
      BY <3>1
    <3> QED
      BY <3>1, <3>2, Zenon
  <2>2. ASSUME NEW x \in Nat, NEW d \in Nat PROVE x * 256 + d \in Nat
    OBVIOUS
  <2>3. ASSUME NEW x \in Nat, NEW d \in 0 .. 256 - 1
        PROVE  (x * 256 + d) \div 256 = x /\ (x * 256 + d) % 256 = d
    OBVIOUS
  <2> QED
    BY <2>1, <2>2, <2>3 DEF IsBase
<1> QED
  BY <1>1, <1>2, <1>3

RestsOf(r, n, b, w) == r = [k \in 0 .. w |-> IF k = 0 THEN n ELSE r[k - 1] \div b]

Divides(r, n, b, w) ==
  r \in [0 .. w -> Nat] /\ r[0] = n /\ \A k \in 1 .. w : r[k] = r[k - 1] \div b

LEMMA RestsAre ==
  ASSUME NEW n \in Nat, NEW b, IsBase(b), NEW w \in Nat
  PROVE  Divides(Context!Rests(n, b, w), n, b, w)
<1> DEFINE step == [p \in (1 .. w) \X Nat |-> p[2] \div b]
<1>1. step \in [(1 .. w) \X Nat -> Nat]
  BY DEF IsBase
<1>2. \A k \in 1 .. w, x \in Nat : step[<<k, x>>] = x \div b
  OBVIOUS
<1> HIDE DEF step
<1>3. PICK g \in [0 .. w -> Nat] : Iterates(g, n, step, w)
  BY <1>1, IterationExists
<1>4. \A k \in 0 .. w : g[k] = IF k = 0 THEN n ELSE step[<<k, g[k - 1]>>]
  BY <1>3 DEF Iterates
<1>5. \A k \in 0 .. w : g[k] = IF k = 0 THEN n ELSE g[k - 1] \div b
  <2> SUFFICES ASSUME NEW k \in 0 .. w, k # 0 PROVE g[k] = g[k - 1] \div b
    BY <1>4
  <2>1. k \in 1 .. w /\ k - 1 \in 0 .. w
    OBVIOUS
  <2> QED
    BY <1>2, <1>4, <2>1
<1>6. RestsOf(g, n, b, w)
  <2>1. g = [k \in 0 .. w |-> g[k]]
    OBVIOUS
  <2> QED
    BY <1>5, <2>1 DEF RestsOf
<1> DEFINE f == CHOOSE r : RestsOf(r, n, b, w)
<1>7. RestsOf(f, n, b, w)
  BY <1>6
<1>8. Context!Rests(n, b, w) = f
  BY Zenon DEF Context!Rests, RestsOf
<1> HIDE DEF f
<1>9. \A k \in 0 .. w : f[k] = IF k = 0 THEN n ELSE f[k - 1] \div b
  BY <1>7 DEF RestsOf
<1> DEFINE good == {k \in Nat : k <= w => f[k] \in Nat}
<1>10. 0 \in good
  BY <1>9
<1>11. ASSUME NEW k \in Nat, k \in good PROVE k + 1 \in good
  <2> SUFFICES ASSUME k + 1 <= w PROVE f[k + 1] \in Nat
    OBVIOUS
  <2>1. k + 1 \in 0 .. w /\ (k + 1) - 1 = k /\ f[k] \in Nat
    BY <1>11
  <2>2. f[k + 1] = f[k] \div b
    BY <1>9, <2>1
  <2>3. PICK x \in Nat : x = f[k]
    BY <2>1
  <2>4. x \div b \in Nat
    BY <2>3, Zenon DEF IsBase
  <2> QED
    BY <2>2, <2>3, <2>4
<1> HIDE DEF good
<1>12. Nat \subseteq good
  BY <1>10, <1>11, NatInSet
<1>13. \A k \in 0 .. w : f[k] \in Nat
  BY <1>12 DEF good
<1>14. f \in [0 .. w -> Nat]
  BY <1>7, <1>13 DEF RestsOf
<1>15. f[0] = n /\ \A k \in 1 .. w : f[k] = f[k - 1] \div b
  BY <1>9
<1> QED
  BY <1>8, <1>14, <1>15 DEF Divides

ValueOf(v, t, b, m) == v = [k \in 0 .. m |-> IF k = 0 THEN 0 ELSE v[k - 1] * b + t[k]]

Sums(v, t, b, m) ==
  v \in [0 .. m -> Nat] /\ v[0] = 0 /\ \A k \in 1 .. m : v[k] = v[k - 1] * b + t[k]

LEMMA NumberIs ==
  ASSUME NEW t, NEW m \in Nat, t \in [1 .. m -> Nat], NEW b, IsBase(b)
  PROVE  \E v : Sums(v, t, b, m) /\ Context!Number(t, b) = v[m]
<1>1. Len(t) = m /\ t \in Seq(Nat)
  OBVIOUS
<1> DEFINE step == [p \in (1 .. m) \X Nat |-> p[2] * b + t[p[1]]]
<1>2. step \in [(1 .. m) \X Nat -> Nat]
  BY DEF IsBase
<1>3. \A k \in 1 .. m, x \in Nat : step[<<k, x>>] = x * b + t[k]
  OBVIOUS
<1> HIDE DEF step
<1>4. PICK g \in [0 .. m -> Nat] : Iterates(g, 0, step, m)
  BY <1>2, IterationExists
<1>5. \A k \in 0 .. m : g[k] = IF k = 0 THEN 0 ELSE step[<<k, g[k - 1]>>]
  BY <1>4 DEF Iterates
<1>6. \A k \in 0 .. m : g[k] = IF k = 0 THEN 0 ELSE g[k - 1] * b + t[k]
  <2> SUFFICES ASSUME NEW k \in 0 .. m, k # 0 PROVE g[k] = g[k - 1] * b + t[k]
    BY <1>5
  <2>1. k \in 1 .. m /\ k - 1 \in 0 .. m
    OBVIOUS
  <2> QED
    BY <1>3, <1>5, <2>1
<1>7. ValueOf(g, t, b, m)
  <2>1. g = [k \in 0 .. m |-> g[k]]
    OBVIOUS
  <2> QED
    BY <1>6, <2>1 DEF ValueOf
<1> DEFINE f == CHOOSE v : ValueOf(v, t, b, m)
<1>8. ValueOf(f, t, b, m)
  BY <1>7
<1>9. Context!Number(t, b) = f[m]
  BY <1>1, Zenon DEF Context!Number, ValueOf
<1> HIDE DEF f
<1>10. \A k \in 0 .. m : f[k] = IF k = 0 THEN 0 ELSE f[k - 1] * b + t[k]
  BY <1>8 DEF ValueOf
<1> DEFINE good == {k \in Nat : k <= m => f[k] \in Nat}
<1>11. 0 \in good
  BY <1>10
<1>12. ASSUME NEW k \in Nat, k \in good PROVE k + 1 \in good
  <2> SUFFICES ASSUME k + 1 <= m PROVE f[k + 1] \in Nat
    OBVIOUS
  <2>1. k + 1 \in 0 .. m /\ (k + 1) - 1 = k /\ f[k] \in Nat /\ t[k + 1] \in Nat
    BY <1>12
  <2>2. f[k + 1] = f[k] * b + t[k + 1]
    BY <1>10, <2>1
  <2>3. PICK x, d : x = f[k] /\ d = t[k + 1]
    OBVIOUS
  <2>4. x \in Nat /\ d \in Nat
    BY <2>1, <2>3
  <2>5. x * b + d \in Nat
    BY <2>4, Zenon DEF IsBase
  <2> QED
    BY <2>2, <2>3, <2>5
<1> HIDE DEF good
<1>13. Nat \subseteq good
  BY <1>11, <1>12, NatInSet
<1>14. \A k \in 0 .. m : f[k] \in Nat
  BY <1>13 DEF good
<1>15. f \in [0 .. m -> Nat]
  BY <1>8, <1>14 DEF ValueOf
<1>16. f[0] = 0 /\ \A k \in 1 .. m : f[k] = f[k - 1] * b + t[k]
  BY <1>10
<1> QED
  BY <1>9, <1>15, <1>16 DEF Sums

\* The digits of a number that they are enough for are the number.
LEMMA DigitsOfNumber ==
  ASSUME NEW n \in Nat, NEW b, IsBase(b), NEW w \in Nat, Context!Rests(n, b, w)[w] = 0
  PROVE  Context!Number(Context!Digits(n, b, w), b) = n
<1>1. PICK r : r = Context!Rests(n, b, w)
  OBVIOUS
<1>2. r \in [0 .. w -> Nat] /\ r[0] = n /\ \A k \in 1 .. w : r[k] = r[k - 1] \div b
  <2>1. Divides(Context!Rests(n, b, w), n, b, w)
    BY RestsAre
  <2> QED
    BY <1>1, <2>1 DEF Divides
<1>3. PICK t : t = [k \in 1 .. w |-> r[w - k] % b]
  OBVIOUS
<1>4. Context!Digits(n, b, w) = t
  BY <1>1, <1>3, Zenon DEF Context!Digits
<1>5. ASSUME NEW k \in 1 .. w PROVE t[k] = r[w - k] % b /\ t[k] \in Nat
  <2>1. w - k \in 0 .. w
    OBVIOUS
  <2>2. PICK x \in Nat : x = r[w - k]
    BY <1>2, <2>1
  <2>3. b \in Nat /\ x % b \in 0 .. b - 1
    BY <2>2, Zenon DEF IsBase
  <2>4. t[k] = x % b
    BY <1>3, <2>2
  <2> QED
    BY <2>2, <2>3, <2>4
<1>6. t \in [1 .. w -> Nat]
  BY <1>3, <1>5
<1>7. PICK v : /\ v \in [0 .. w -> Nat] /\ v[0] = 0
               /\ \A k \in 1 .. w : v[k] = v[k - 1] * b + t[k]
               /\ Context!Number(t, b) = v[w]
  <2>1. \E v : Sums(v, t, b, w) /\ Context!Number(t, b) = v[w]
    BY <1>6, NumberIs
  <2> QED
    BY <2>1 DEF Sums
<1> DEFINE good == {k \in Nat : k <= w => v[k] = r[w - k]}
<1>8. 0 \in good
  BY <1>1, <1>7
<1>9. ASSUME NEW k \in Nat, k \in good PROVE k + 1 \in good
  <2> SUFFICES ASSUME k + 1 <= w PROVE v[k + 1] = r[w - (k + 1)]
    OBVIOUS
  <2>1. PICK x : x = r[w - (k + 1)]
    OBVIOUS
  <2>2. w - (k + 1) \in 0 .. w /\ w - k \in 1 .. w /\ (w - k) - 1 = w - (k + 1) /\ k + 1 \in 1 .. w
    OBVIOUS
  <2>3. x \in Nat /\ r[w - k] = x \div b
    BY <1>2, <2>1, <2>2
  <2>4. v[k] = x \div b
    BY <1>9, <2>3
  <2>5. v[k + 1] = v[k] * b + t[k + 1]
    <3>1. (k + 1) - 1 = k
      OBVIOUS
    <3> QED
      BY <1>7, <2>2, <3>1
  <2>6. t[k + 1] = x % b
    BY <1>5, <2>1, <2>2
  <2>7. (x \div b) * b + (x % b) = x
    BY <2>3 DEF IsBase
  <2>8. v[k + 1] = (x \div b) * b + (x % b)
    BY <2>4, <2>5, <2>6, Zenon
  <2> QED
    BY <2>1, <2>7, <2>8, Zenon
<1> HIDE DEF good
<1>10. w \in good
  BY <1>8, <1>9, NatInSet
<1>11. v[w] = r[0]
  BY <1>10 DEF good
<1> QED
  BY <1>2, <1>4, <1>7, <1>11

\* The digits of a number that was made of digits are these digits.
LEMMA NumberOfDigits ==
  ASSUME NEW w \in Nat, NEW b, IsBase(b), NEW t \in [1 .. w -> 0 .. b - 1]
  PROVE  Context!Digits(Context!Number(t, b), b, w) = t
<1>1. t \in [1 .. w -> Nat]
  BY DEF IsBase
<1>2. PICK v : /\ v \in [0 .. w -> Nat] /\ v[0] = 0
               /\ \A k \in 1 .. w : v[k] = v[k - 1] * b + t[k]
               /\ Context!Number(t, b) = v[w]
  <2>1. \E v : Sums(v, t, b, w) /\ Context!Number(t, b) = v[w]
    BY <1>1, NumberIs
  <2> QED
    BY <2>1 DEF Sums
<1>3. PICK n : n = Context!Number(t, b)
  OBVIOUS
<1>4. n \in Nat /\ n = v[w]
  BY <1>2, <1>3
<1>5. PICK r : r = Context!Rests(n, b, w)
  OBVIOUS
<1>6. r \in [0 .. w -> Nat] /\ r[0] = n /\ \A k \in 1 .. w : r[k] = r[k - 1] \div b
  <2>1. Divides(Context!Rests(n, b, w), n, b, w)
    BY <1>4, RestsAre
  <2> QED
    BY <1>5, <2>1 DEF Divides
<1>7. ASSUME NEW k \in 1 .. w
      PROVE  v[k] \div b = v[k - 1] /\ v[k] % b = t[k]
  <2>1. PICK x, d : x = v[k - 1] /\ d = t[k]
    OBVIOUS
  <2>2. x \in Nat /\ d \in 0 .. b - 1 /\ v[k] = x * b + d
    BY <1>2, <2>1
  <2>3. (x * b + d) \div b = x /\ (x * b + d) % b = d
    BY <2>2 DEF IsBase
  <2> QED
    BY <2>1, <2>2, <2>3
<1> DEFINE good == {k \in Nat : k <= w => r[k] = v[w - k]}
<1>8. 0 \in good
  BY <1>4, <1>6
<1>9. ASSUME NEW k \in Nat, k \in good PROVE k + 1 \in good
  <2> SUFFICES ASSUME k + 1 <= w PROVE r[k + 1] = v[w - (k + 1)]
    OBVIOUS
  <2>1. k + 1 \in 1 .. w /\ (k + 1) - 1 = k /\ w - k \in 1 .. w /\ (w - k) - 1 = w - (k + 1)
    OBVIOUS
  <2>2. r[k + 1] = r[k] \div b
    BY <1>6, <2>1
  <2>3. v[w - k] \div b = v[w - (k + 1)]
    BY <1>7, <2>1
  <2> QED
    BY <1>9, <2>2, <2>3
<1> HIDE DEF good
<1>10. Nat \subseteq good
  BY <1>8, <1>9, NatInSet
<1>11. ASSUME NEW k \in 1 .. w PROVE r[w - k] % b = t[k]
  <2>1. w - k \in Nat /\ w - k <= w /\ w - (w - k) = k
    OBVIOUS
  <2>2. r[w - k] = v[k]
    BY <1>10, <2>1 DEF good
  <2> QED
    BY <1>7, <2>2
<1>12. Context!Digits(n, b, w) = [k \in 1 .. w |-> r[w - k] % b]
  BY <1>5, Zenon DEF Context!Digits
<1> QED
  BY <1>3, <1>11, <1>12

LEMMA WidestFits ==
  ASSUME FormatsAssumption
  PROVE  /\ Widest \in Nat /\ Width \in Nat /\ Context!Rests(Widest, 10, Width)[Width] = 0
         /\ BytesPerLine \in Nat
         /\ Context!Number([k \in 1 .. BytesPerLine |-> 255], 256) <= Widest
<1>1. Context!ContextAssumption
  BY DEF FormatsAssumption
<1>2. Widest \in Nat /\ Width \in Nat /\ Context!Rests(Widest, 10, Width)[Width] = 0
  BY <1>1 DEF Context!ContextAssumption, Context!Dec
<1>3. BytesPerLine \in Nat
  BY <1>1 DEF Context!ContextAssumption
<1>4. Context!Repeated(Context!ByteBase - 1, BytesPerLine) = [k \in 1 .. BytesPerLine |-> 255]
  BY DEF Context!Repeated, Context!ByteBase
<1>5. Context!Number([k \in 1 .. BytesPerLine |-> 255], 256) <= Widest
  <2>1. Context!Number(Context!Repeated(Context!ByteBase - 1, BytesPerLine), Context!ByteBase)
          <= Widest
    BY <1>1, Zenon DEF Context!ContextAssumption
  <2> QED
    BY <1>4, <2>1 DEF Context!ByteBase
<1> QED
  BY <1>2, <1>3, <1>5

\* A number that is not wider than the widest is its digits.
LEMMA FittingText ==
  ASSUME FormatsAssumption, NEW n \in 0 .. Widest, NEW b \in {10, 16}
  PROVE  Context!Number(Context!Text(n, b), b) = n
<1>1. Widest \in Nat /\ Width \in Nat /\ n \in Nat /\ n <= Widest
  BY WidestFits
<1>2. IsBase(b) /\ IsBase(10)
  BY Bases
<1>3. PICK r, wide : r = Context!Rests(n, b, Width) /\ wide = Context!Rests(Widest, 10, Width)
  OBVIOUS
<1>4. Divides(r, n, b, Width) /\ Divides(wide, Widest, 10, Width)
  BY <1>1, <1>2, <1>3, RestsAre
<1> DEFINE good == {k \in Nat : k <= Width => r[k] <= wide[k]}
<1>5. 0 \in good
  BY <1>1, <1>4 DEF Divides
<1>6. ASSUME NEW k \in Nat, k \in good PROVE k + 1 \in good
  <2> SUFFICES ASSUME k + 1 <= Width PROVE r[k + 1] <= wide[k + 1]
    OBVIOUS
  <2>1. k \in 0 .. Width /\ k + 1 \in 1 .. Width /\ (k + 1) - 1 = k
    BY <1>1
  <2>2. PICK x \in Nat, y \in Nat : x = r[k] /\ y = wide[k]
    BY <1>4, <2>1 DEF Divides
  <2>3. x <= y
    BY <1>6, <2>1, <2>2
  <2>4. r[k + 1] = x \div b /\ wide[k + 1] = y \div 10
    BY <1>4, <2>1, <2>2 DEF Divides
  <2>5. x \div b <= y \div 10
    <3>1. x \div 10 <= y \div 10
      BY <2>3
    <3>2. x \div 16 <= y \div 10
      BY <2>3
    <3> QED
      BY <3>1, <3>2
  <2> QED
    BY <2>4, <2>5
<1> HIDE DEF good
<1>7. Width \in good
  BY <1>1, <1>5, <1>6, NatInSet
<1>8. r[Width] <= wide[Width]
  BY <1>1, <1>7 DEF good
<1>9. r[Width] \in Nat /\ wide[Width] = 0
  BY <1>1, <1>3, <1>4, WidestFits DEF Divides
<1>10. Context!Rests(n, b, Width)[Width] = 0
  BY <1>3, <1>8, <1>9
<1>11. Context!Number(Context!Digits(n, b, Width), b) = n
  BY <1>1, <1>2, <1>10, DigitsOfNumber
<1> QED
  BY <1>11 DEF Context!Text

\* A digit is the same in both bases.
LEMMA DigitText ==
  ASSUME FormatsAssumption, NEW n \in 0 .. 9
  PROVE  Context!Text(n, 16) = Context!Text(n, 10)
<1>1. Width \in Nat /\ n \in Nat
  BY WidestFits
<1>2. PICK r, q : r = Context!Rests(n, 16, Width) /\ q = Context!Rests(n, 10, Width)
  OBVIOUS
<1>3. Divides(r, n, 16, Width) /\ Divides(q, n, 10, Width)
  BY <1>1, <1>2, RestsAre, Bases
<1> DEFINE good == {k \in Nat : k <= Width => r[k] \in 0 .. 9 /\ q[k] = r[k]}
<1>4. 0 \in good
  BY <1>1, <1>3 DEF Divides
<1>5. ASSUME NEW k \in Nat, k \in good PROVE k + 1 \in good
  <2> SUFFICES ASSUME k + 1 <= Width PROVE r[k + 1] \in 0 .. 9 /\ q[k + 1] = r[k + 1]
    OBVIOUS
  <2>1. k \in 0 .. Width /\ k + 1 \in 1 .. Width /\ (k + 1) - 1 = k
    BY <1>1
  <2>2. PICK x \in 0 .. 9 : x = r[k] /\ x = q[k]
    BY <1>5, <2>1
  <2>3. r[k + 1] = x \div 16 /\ q[k + 1] = x \div 10
    BY <1>3, <2>1, <2>2 DEF Divides
  <2>4. x \div 16 = 0 /\ x \div 10 = 0
    BY <2>2
  <2> QED
    BY <2>3, <2>4
<1> HIDE DEF good
<1>6. Nat \subseteq good
  BY <1>4, <1>5, NatInSet
<1>7. ASSUME NEW k \in 1 .. Width PROVE r[Width - k] % 16 = q[Width - k] % 10
  <2>1. Width - k \in Nat /\ Width - k <= Width
    BY <1>1
  <2>2. PICK x \in 0 .. 9 : x = r[Width - k] /\ x = q[Width - k]
    BY <1>6, <2>1 DEF good
  <2>3. x % 16 = x /\ x % 10 = x
    BY <2>2
  <2> QED
    BY <2>2, <2>3
<1>8. Context!Text(n, 16) = [k \in 1 .. Width |-> r[Width - k] % 16]
  BY <1>2, Zenon DEF Context!Text, Context!Digits
<1>9. Context!Text(n, 10) = [k \in 1 .. Width |-> q[Width - k] % 10]
  BY <1>2, Zenon DEF Context!Text, Context!Digits
<1> QED
  BY <1>7, <1>8, <1>9

\* The bytes of a line are a number that fits.
LEMMA BytesFit ==
  ASSUME FormatsAssumption, NEW d \in [1 .. BytesPerLine -> 0 .. 255]
  PROVE  Context!Number(d, 256) \in 0 .. Widest
<1>1. PICK m, full : m = BytesPerLine /\ full = [k \in 1 .. BytesPerLine |-> 255]
  OBVIOUS
<1>2. /\ m \in Nat /\ d \in [1 .. m -> Nat] /\ full \in [1 .. m -> Nat] /\ Widest \in Nat
      /\ \A k \in 1 .. m : d[k] \in 0 .. 255 /\ full[k] = 255
      /\ Context!Number(full, 256) <= Widest
  <2>1. m \in Nat /\ Widest \in Nat /\ Context!Number(full, 256) <= Widest
    BY <1>1, WidestFits
  <2>2. \A k \in 1 .. m : d[k] \in 0 .. 255
    BY <1>1
  <2>3. full = [k \in 1 .. m |-> 255]
    BY <1>1
  <2>4. full \in [1 .. m -> Nat] /\ \A k \in 1 .. m : full[k] = 255
    BY <2>3
  <2>5. d \in [1 .. m -> 0 .. 255]
    BY <1>1
  <2>6. d \in [1 .. m -> Nat]
    <3>1. 0 .. 255 \subseteq Nat
      OBVIOUS
    <3> QED
      BY <2>5, <3>1, Zenon
  <2> QED
    BY <2>1, <2>2, <2>4, <2>6
<1>0. IsBase(256)
  BY Bases
<1>3. PICK v : Sums(v, d, 256, m) /\ Context!Number(d, 256) = v[m]
  BY <1>0, <1>2, NumberIs
<1>4. PICK u : Sums(u, full, 256, m) /\ Context!Number(full, 256) = u[m]
  BY <1>0, <1>2, NumberIs
<1> DEFINE good == {k \in Nat : k <= m => v[k] <= u[k]}
<1>5. 0 \in good
  BY <1>3, <1>4 DEF Sums
<1>6. ASSUME NEW k \in Nat, k \in good PROVE k + 1 \in good
  <2> SUFFICES ASSUME k + 1 <= m PROVE v[k + 1] <= u[k + 1]
    OBVIOUS
  <2>1. k \in 0 .. m /\ k + 1 \in 1 .. m /\ (k + 1) - 1 = k
    BY <1>2
  <2>2. PICK x \in Nat, y \in Nat : x = v[k] /\ y = u[k]
    BY <1>3, <1>4, <2>1 DEF Sums
  <2>3. x <= y
    BY <1>6, <2>1, <2>2
  <2>4. v[k + 1] = x * 256 + d[k + 1] /\ u[k + 1] = y * 256 + full[k + 1]
    BY <1>3, <1>4, <2>1, <2>2 DEF Sums
  <2>5. PICK e \in 0 .. 255 : d[k + 1] = e
    BY <1>2, <2>1
  <2>6. v[k + 1] = x * 256 + e /\ u[k + 1] = y * 256 + 255
    BY <1>2, <2>1, <2>4, <2>5
  <2> QED
    BY <2>3, <2>6
<1> HIDE DEF good
<1>7. m \in good
  BY <1>2, <1>5, <1>6, NatInSet
<1>8. v[m] \in Nat /\ u[m] \in Nat /\ v[m] <= u[m]
  BY <1>2, <1>3, <1>4, <1>7 DEF good, Sums
<1> QED
  BY <1>2, <1>3, <1>4, <1>8

--------------------------------------------------------------------------------
(* The lines of a context file *)

LEMMA Joined ==
  ASSUME NEW a, NEW b, IsSequence(a), IsSequence(b)
  PROVE  /\ IsSequence(a \o b) /\ Len(a \o b) = Len(a) + Len(b)
         /\ \A i \in 1 .. Len(a) : (a \o b)[i] = a[i]
         /\ \A i \in 1 .. Len(b) : (a \o b)[Len(a) + i] = b[i]
<1>1. PICK S, T : a \in Seq(S) /\ b \in Seq(T)
  BY DEF IsSequence
<1>2. PICK U : U = S \cup T
  OBVIOUS
<1>3. a \in Seq(U) /\ b \in Seq(U)
  BY <1>1, <1>2
<1>4. a \o b \in Seq(U)
  BY <1>3
<1> QED
  BY <1>3, <1>4 DEF IsSequence

\* The lines stand in the file behind the first n.
HasLines(f, n, lines) ==
  /\ n \in Nat /\ IsSequence(lines) /\ n + Len(lines) <= Len(f)
  /\ \A k \in 1 .. Len(lines) : f[n + k] = lines[k]

LEMMA SectionIs ==
  ASSUME NEW lines, IsSequence(lines)
  PROVE  /\ IsSequence(Context!Section(lines)) /\ Len(Context!Section(lines)) = 3 + Len(lines)
         /\ \A k \in 1 .. Len(lines) : Context!Section(lines)[3 + k] = lines[k]
<1>1. PICK head : head = Context!Repeated(Context!CommentLine, 3)
  OBVIOUS
<1>2. PICK S, n : S = {Context!CommentLine} /\ n = 3
  OBVIOUS
<1>3. n \in Nat /\ head \in [1 .. n -> S]
  BY <1>1, <1>2 DEF Context!Repeated
<1>4. head \in Seq(S) /\ Len(head) = n
  BY <1>3
<1>5. PICK g : g = head \o lines
  OBVIOUS
<1>6. IsSequence(head)
  BY <1>4 DEF IsSequence
<1>7. /\ IsSequence(g) /\ Len(g) = n + Len(lines)
      /\ \A k \in 1 .. Len(lines) : g[n + k] = lines[k]
  <2>1. /\ IsSequence(head \o lines) /\ Len(head \o lines) = Len(head) + Len(lines)
        /\ \A k \in 1 .. Len(lines) : (head \o lines)[Len(head) + k] = lines[k]
    BY <1>6, Joined
  <2> QED
    BY <1>4, <1>5, <2>1
<1>8. Context!Section(lines) = g
  BY <1>1, <1>5 DEF Context!Section
<1> QED
  BY <1>2, <1>7, <1>8

\* Another section stands behind the others, which stay where they are.
LEMMA SectionAdded ==
  ASSUME NEW f, NEW lines, IsSequence(f), IsSequence(lines)
  PROVE  /\ IsSequence(f \o Context!Section(lines))
         /\ Len(f \o Context!Section(lines)) = Len(f) + 3 + Len(lines)
         /\ HasLines(f \o Context!Section(lines), Len(f) + 3, lines)
         /\ \A n, other : HasLines(f, n, other) => HasLines(f \o Context!Section(lines), n, other)
<1>1. PICK g, n, m : g = Context!Section(lines) /\ n = Len(f) /\ m = Len(lines)
  OBVIOUS
<1>2. n \in Nat /\ m \in Nat
  BY <1>1 DEF IsSequence
<1>3. IsSequence(g) /\ Len(g) = 3 + m /\ \A k \in 1 .. m : g[3 + k] = lines[k]
  BY <1>1, SectionIs
<1>4. PICK h : h = f \o g
  OBVIOUS
<1>5. /\ IsSequence(h) /\ Len(h) = n + (3 + m)
      /\ \A i \in 1 .. n : h[i] = f[i]
      /\ \A i \in 1 .. 3 + m : h[n + i] = g[i]
  <2>1. /\ IsSequence(f \o g) /\ Len(f \o g) = Len(f) + Len(g)
        /\ \A i \in 1 .. Len(f) : (f \o g)[i] = f[i]
        /\ \A i \in 1 .. Len(g) : (f \o g)[Len(f) + i] = g[i]
    BY <1>3, Joined
  <2> QED
    BY <1>1, <1>3, <1>4, <2>1
<1>6. Len(h) = n + 3 + m
  BY <1>2, <1>5
<1>7. HasLines(h, n + 3, lines)
  <2>1. ASSUME NEW k \in 1 .. m PROVE h[n + 3 + k] = lines[k]
    <3>1. 3 + k \in 1 .. 3 + m /\ n + (3 + k) = n + 3 + k
      BY <1>2
    <3> QED
      BY <1>3, <1>5, <3>1
  <2>2. n + 3 \in Nat /\ n + 3 + m <= Len(h)
    BY <1>2, <1>6
  <2> QED
    BY <1>1, <2>1, <2>2 DEF HasLines
<1>8. ASSUME NEW p, NEW other, HasLines(f, p, other) PROVE HasLines(h, p, other)
  <2>1. PICK o : o = Len(other)
    OBVIOUS
  <2>2. o \in Nat /\ p \in Nat /\ p + o <= n /\ \A k \in 1 .. o : f[p + k] = other[k]
    BY <1>1, <1>8, <2>1 DEF HasLines, IsSequence
  <2>3. ASSUME NEW k \in 1 .. o PROVE h[p + k] = other[k]
    <3>1. p + k \in 1 .. n
      BY <1>2, <2>2
    <3> QED
      BY <1>5, <2>2, <3>1
  <2>4. p + o <= Len(h)
    BY <1>2, <1>6, <2>2
  <2> QED
    BY <1>8, <2>1, <2>2, <2>3, <2>4 DEF HasLines
<1> QED
  BY <1>1, <1>4, <1>5, <1>6, <1>7, <1>8

LEMMA ContextFacts ==
  ASSUME FormatsAssumption
  PROVE  /\ NumRegs \in Nat \ {0} /\ HashWords \in Nat \ {0} /\ StateLines \in Nat \ {0}
         /\ BytesPerLine \in Nat \ {0} /\ RarDepth \in Nat \ {0} /\ RamIn \in Nat \ {0}
         /\ RamOut \in Nat \ {0} /\ Widest \in Nat /\ RarDepth <= Widest
         /\ \A S \in {Gprs, HashVals, Rates, Indices, Pcs, Words} : S \subseteq 0 .. Widest
         /\ Bytes \subseteq 0 .. 255 /\ 0 \in Gprs /\ 0 \in Pcs
         /\ HashVals # {} /\ Bytes # {} /\ Rates # {} /\ Indices # {} /\ Words # {}
<1>1. Context!ContextAssumption
  BY DEF FormatsAssumption
<1>2. /\ NumRegs \in Nat \ {0} /\ HashWords \in Nat \ {0} /\ StateLines \in Nat \ {0}
      /\ BytesPerLine \in Nat \ {0} /\ RarDepth \in Nat \ {0} /\ RamIn \in Nat \ {0}
      /\ RamOut \in Nat \ {0}
  BY <1>1 DEF Context!ContextAssumption
<1>3. Widest \in Nat /\ RarDepth <= Widest
  BY <1>1 DEF Context!ContextAssumption
<1>4. \A S \in {Gprs, HashVals, Rates, Indices, Pcs, Words} : S \subseteq 0 .. Widest
  BY <1>1, Zenon DEF Context!ContextAssumption
<1>5. 0 \in Gprs /\ 0 \in Pcs
  BY <1>1 DEF Context!ContextAssumption
<1>6. Bytes \subseteq 0 .. 255
  BY <1>1 DEF Context!ContextAssumption, Context!ByteBase
<1>7. HashVals # {} /\ Bytes # {} /\ Rates # {} /\ Indices # {} /\ Words # {}
  BY <1>1, Zenon DEF Context!ContextAssumption
<1> QED
  BY <1>2, <1>3, <1>4, <1>5, <1>6, <1>7

LEMMA LinesAre ==
  ASSUME FormatsAssumption
  PROVE  /\ Context!LinesThrough[0] = 0
         /\ \A s \in 1 .. 8 : /\ Context!Taken[s] \in Nat
                              /\ Context!LinesThrough[s]
                                   = Context!LinesThrough[s - 1] + 3 + Context!Taken[s]
<1>1. PICK taken : taken = Context!Taken
  OBVIOUS
<1>2. taken = <<NumRegs, HashWords, StateLines + 3, RarDepth, 1, 3, RamIn, RamOut>>
  BY <1>1 DEF Context!Taken
<1>3. \A s \in 1 .. 8 : s = 1 \/ s = 2 \/ s = 3 \/ s = 4 \/ s = 5 \/ s = 6 \/ s = 7 \/ s = 8
  OBVIOUS
<1>4. \A s \in 1 .. 8 : taken[s] \in Nat
  BY <1>2, <1>3, ContextFacts
<1> DEFINE step == [p \in (1 .. 8) \X Nat |-> p[2] + 3 + taken[p[1]]]
<1>5. step \in [(1 .. 8) \X Nat -> Nat]
  BY <1>4
<1>6. \A s \in 1 .. 8, n \in Nat : step[<<s, n>>] = n + 3 + taken[s]
  OBVIOUS
<1> HIDE DEF step
<1>7. PICK g \in [0 .. 8 -> Nat] : Iterates(g, 0, step, 8)
  BY <1>5, IterationExists
<1>8. \A s \in 0 .. 8 : g[s] = IF s = 0 THEN 0 ELSE step[<<s, g[s - 1]>>]
  BY <1>7 DEF Iterates
<1> DEFINE Through(f) == f = [s \in 0 .. 8 |-> IF s = 0 THEN 0 ELSE f[s - 1] + 3 + taken[s]]
<1>9. Through(g)
  <2>1. ASSUME NEW s \in 0 .. 8 PROVE g[s] = IF s = 0 THEN 0 ELSE g[s - 1] + 3 + taken[s]
    <3>1. CASE s = 0
      BY <1>8, <3>1
    <3>2. CASE s # 0
      <4>1. s \in 1 .. 8 /\ s - 1 \in 0 .. 8
        BY <3>2
      <4> QED
        BY <1>6, <1>8, <3>2, <4>1
    <3> QED
      BY <3>1, <3>2
  <2>2. g = [s \in 0 .. 8 |-> g[s]]
    OBVIOUS
  <2> QED
    BY <2>1, <2>2
<1> DEFINE f == CHOOSE h : Through(h)
<1>10. Through(f)
  BY <1>9
<1>11. Context!LinesThrough = f
  BY <1>1, Zenon DEF Context!LinesThrough
<1> HIDE DEF f
<1>12. \A s \in 0 .. 8 : f[s] = IF s = 0 THEN 0 ELSE f[s - 1] + 3 + taken[s]
  BY <1>10
<1>13. f[0] = 0 /\ \A s \in 1 .. 8 : f[s] = f[s - 1] + 3 + taken[s]
  BY <1>12
<1> QED
  BY <1>1, <1>4, <1>11, <1>13

\* A file of eight sections of so many lines has each where the reader looks for it.
LEMMA SectionsAre ==
  ASSUME FormatsAssumption,
         NEW x1, NEW x2, NEW x3, NEW x4, NEW x5, NEW x6, NEW x7, NEW x8,
         IsSequence(x1), IsSequence(x2), IsSequence(x3), IsSequence(x4),
         IsSequence(x5), IsSequence(x6), IsSequence(x7), IsSequence(x8),
         Len(x1) = Context!Taken[1], Len(x2) = Context!Taken[2], Len(x3) = Context!Taken[3],
         Len(x4) = Context!Taken[4], Len(x5) = Context!Taken[5], Len(x6) = Context!Taken[6],
         Len(x7) = Context!Taken[7], Len(x8) = Context!Taken[8],
         NEW f,
         f = Context!Section(x1) \o Context!Section(x2) \o Context!Section(x3)
               \o Context!Section(x4) \o Context!Section(x5) \o Context!Section(x6)
               \o Context!Section(x7) \o Context!Section(x8)
  PROVE  /\ HasLines(f, Context!LinesBefore(1), x1) /\ HasLines(f, Context!LinesBefore(2), x2)
         /\ HasLines(f, Context!LinesBefore(3), x3) /\ HasLines(f, Context!LinesBefore(4), x4)
         /\ HasLines(f, Context!LinesBefore(5), x5) /\ HasLines(f, Context!LinesBefore(6), x6)
         /\ HasLines(f, Context!LinesBefore(7), x7) /\ HasLines(f, Context!LinesBefore(8), x8)
<1> DEFINE Upto(g, s) == IsSequence(g) /\ Len(g) = Context!LinesThrough[s]
<1>1. ASSUME NEW g, NEW s \in 1 .. 8, NEW q, q = s - 1, NEW x, IsSequence(x),
             Len(x) = Context!Taken[s], Upto(g, q)
      PROVE  /\ Upto(g \o Context!Section(x), s)
             /\ HasLines(g \o Context!Section(x), Context!LinesBefore(s), x)
             /\ \A n, y : HasLines(g, n, y) => HasLines(g \o Context!Section(x), n, y)
  <2>1. PICK h : h = g \o Context!Section(x)
    OBVIOUS
  <2>2. /\ IsSequence(h) /\ Len(h) = Len(g) + 3 + Len(x) /\ HasLines(h, Len(g) + 3, x)
        /\ \A n, y : HasLines(g, n, y) => HasLines(h, n, y)
    BY <1>1, <2>1, SectionAdded
  <2>3. Len(g) = Context!LinesThrough[s - 1]
    BY <1>1
  <2>4. Len(h) = Context!LinesThrough[s]
    BY <1>1, <2>2, <2>3, LinesAre
  <2>5. Len(g) + 3 = Context!LinesBefore(s)
    BY <2>3 DEF Context!LinesBefore
  <2> QED
    BY <2>1, <2>2, <2>4, <2>5
<1>2. PICK f1 : f1 = Context!Section(x1)
  OBVIOUS
<1>3. Upto(f1, 1) /\ HasLines(f1, Context!LinesBefore(1), x1)
  <2>1. PICK n : n = Len(x1)
    OBVIOUS
  <2>2. n \in Nat /\ n = Context!Taken[1]
    BY <2>1 DEF IsSequence
  <2>3. IsSequence(f1) /\ Len(f1) = 3 + n /\ \A k \in 1 .. n : f1[3 + k] = x1[k]
    BY <1>2, <2>1, SectionIs
  <2>4. Context!LinesThrough[1] = 3 + n /\ Context!LinesBefore(1) = 3
    <3>1. 1 \in 1 .. 8 /\ 1 - 1 = 0
      OBVIOUS
    <3>2. Context!LinesThrough[1] = Context!LinesThrough[0] + 3 + Context!Taken[1]
      BY <3>1, LinesAre
    <3>3. Context!LinesThrough[0] = 0
      BY LinesAre
    <3> QED
      BY <2>2, <3>1, <3>2, <3>3 DEF Context!LinesBefore
  <2>5. HasLines(f1, 3, x1)
    BY <2>1, <2>2, <2>3 DEF HasLines
  <2> QED
    BY <2>3, <2>4, <2>5
<1> HIDE DEF Upto
<1>4. PICK f2 : f2 = f1 \o Context!Section(x2)
  OBVIOUS
<1>5. PICK f3 : f3 = f2 \o Context!Section(x3)
  OBVIOUS
<1>6. PICK f4 : f4 = f3 \o Context!Section(x4)
  OBVIOUS
<1>7. PICK f5 : f5 = f4 \o Context!Section(x5)
  OBVIOUS
<1>8. PICK f6 : f6 = f5 \o Context!Section(x6)
  OBVIOUS
<1>9. PICK f7 : f7 = f6 \o Context!Section(x7)
  OBVIOUS
<1>10. f = f7 \o Context!Section(x8)
  BY <1>2, <1>4, <1>5, <1>6, <1>7, <1>8, <1>9
<1>11. /\ Upto(f2, 2) /\ HasLines(f2, Context!LinesBefore(2), x2)
       /\ \A n, y : HasLines(f1, n, y) => HasLines(f2, n, y)
  BY <1>1, <1>3, <1>4
<1>12. /\ Upto(f3, 3) /\ HasLines(f3, Context!LinesBefore(3), x3)
       /\ \A n, y : HasLines(f2, n, y) => HasLines(f3, n, y)
  BY <1>1, <1>5, <1>11
<1>13. /\ Upto(f4, 4) /\ HasLines(f4, Context!LinesBefore(4), x4)
       /\ \A n, y : HasLines(f3, n, y) => HasLines(f4, n, y)
  BY <1>1, <1>6, <1>12
<1>14. /\ Upto(f5, 5) /\ HasLines(f5, Context!LinesBefore(5), x5)
       /\ \A n, y : HasLines(f4, n, y) => HasLines(f5, n, y)
  BY <1>1, <1>7, <1>13
<1>15. /\ Upto(f6, 6) /\ HasLines(f6, Context!LinesBefore(6), x6)
       /\ \A n, y : HasLines(f5, n, y) => HasLines(f6, n, y)
  BY <1>1, <1>8, <1>14
<1>16. /\ Upto(f7, 7) /\ HasLines(f7, Context!LinesBefore(7), x7)
       /\ \A n, y : HasLines(f6, n, y) => HasLines(f7, n, y)
  BY <1>1, <1>9, <1>15
<1>17. /\ HasLines(f, Context!LinesBefore(8), x8)
       /\ \A n, y : HasLines(f7, n, y) => HasLines(f, n, y)
  BY <1>1, <1>10, <1>16
<1> QED
  BY <1>3, <1>11, <1>12, <1>13, <1>14, <1>15, <1>16, <1>17, Zenon

--------------------------------------------------------------------------------
(* Contexts *)

TextsOf(t, x, n, b) ==
  IsSequence(t) /\ Len(t) = n /\ \A k \in 1 .. n : t[k] = Context!Text(x[k], b)

LEMMA TextsAre ==
  ASSUME NEW n \in Nat, NEW S, NEW x \in [1 .. n -> S], NEW b
  PROVE  TextsOf(Context!Texts(x, b), x, n, b)
<1>1. PICK t : t = [k \in 1 .. n |-> Context!Text(x[k], b)]
  OBVIOUS
<1>2. Context!Texts(x, b) = t
  BY <1>1 DEF Context!Texts
<1>3. PICK T : T = {t[k] : k \in 1 .. n}
  OBVIOUS
<1>4. t \in [1 .. n -> T]
  BY <1>1, <1>3
<1>5. t \in Seq(T) /\ Len(t) = n
  BY <1>4
<1> QED
  BY <1>1, <1>2, <1>5 DEF TextsOf, IsSequence

LEMMA ReadAllBack ==
  ASSUME FormatsAssumption, NEW f, NEW s, NEW n \in Nat, NEW S \in SUBSET (0 .. Widest),
         NEW x \in [1 .. n -> S], NEW b \in {10, 16},
         HasLines(f, Context!LinesBefore(s), Context!Texts(x, b))
  PROVE  Context!ReadAll(f, s, n, b) = x
<1>1. /\ Len(Context!Texts(x, b)) = n
      /\ \A k \in 1 .. n : Context!Texts(x, b)[k] = Context!Text(x[k], b)
  <2>1. TextsOf(Context!Texts(x, b), x, n, b)
    BY TextsAre
  <2> QED
    BY <2>1 DEF TextsOf
<1>2. ASSUME NEW k \in 1 .. n PROVE Context!Read(f, s, k, b) = x[k]
  <2>1. f[Context!LinesBefore(s) + k] = Context!Text(x[k], b)
    BY <1>1 DEF HasLines
  <2>2. PICK y \in 0 .. Widest : y = x[k]
    OBVIOUS
  <2>3. Context!Number(Context!Text(y, b), b) = y
    BY FittingText
  <2> QED
    BY <2>1, <2>2, <2>3 DEF Context!Read
<1>3. Context!ReadAll(f, s, n, b) = [k \in 1 .. n |-> Context!Read(f, s, k, b)]
  BY DEF Context!ReadAll
<1> QED
  BY <1>2, <1>3

\* Where the bytes of a line are, and the line and place of a byte.
LEMMA ByteOfLine ==
  ASSUME NEW L \in Nat \ {0}, NEW B \in Nat \ {0}, NEW i \in 1 .. L, NEW j \in 1 .. B
  PROVE  (i - 1) * B + j \in 1 .. L * B
<1>1. PICK m : m = i - 1
  OBVIOUS
<1>2. m \in Nat /\ m + 1 <= L
  BY <1>1
<1>3. m * B \in Nat /\ (m + 1) * B = m * B + B /\ L * B \in Nat
  BY <1>2
<1>4. (m + 1) * B <= L * B
  <2>1. PICK e \in Nat : L = (m + 1) + e
    <3>1. L - (m + 1) \in Nat /\ L = (m + 1) + (L - (m + 1))
      BY <1>2
    <3> QED
      BY <3>1
  <2>2. L * B = (m + 1) * B + e * B /\ e * B \in Nat
    BY <1>2, <2>1
  <2> QED
    BY <1>2, <1>3, <2>2
<1> QED
  BY <1>1, <1>3, <1>4

LEMMA LineOfByte ==
  ASSUME NEW L \in Nat \ {0}, NEW B \in Nat \ {0}, NEW b \in 1 .. L * B
  PROVE  /\ (b - 1) \div B + 1 \in 1 .. L /\ ((b - 1) % B) + 1 \in 1 .. B
         /\ ((b - 1) \div B) * B + (((b - 1) % B) + 1) = b
<1>1. L * B \in Nat /\ b \in Nat
  OBVIOUS
<1>2. PICK x, q, r : x = b - 1 /\ q = x \div B /\ r = x % B
  OBVIOUS
<1>3. x \in Nat /\ x < L * B
  BY <1>1, <1>2
<1>4. q \in Int /\ r \in 0 .. B - 1 /\ x = B * q + r
  BY <1>2, <1>3
<1>5. q >= 0
  <2> SUFFICES ASSUME q <= -1 PROVE FALSE
    BY <1>4
  <2>1. B * q <= -B
    BY <1>4
  <2> QED
    BY <1>3, <1>4, <2>1
<1>6. q < L
  <2> SUFFICES ASSUME q >= L PROVE FALSE
    BY <1>4
  <2>1. B * q >= L * B
    BY <1>4
  <2>2. B * q \in Int
    BY <1>4
  <2> QED
    BY <1>1, <1>3, <1>4, <2>1, <2>2
<1>7. q * B = B * q
  BY <1>4
<1>8. q * B + (r + 1) = b
  BY <1>2, <1>4, <1>7
<1> QED
  BY <1>2, <1>4, <1>5, <1>6, <1>8

PartNames ==
  {"gpr", "sha", "state", "rate", "index", "squeezing", "rar", "sp", "flags", "ramIn", "ramOut",
   "emem"}

LEMMA PartsAre ==
  /\ DOMAIN Context!Parts = PartNames
  /\ Context!Parts["gpr"] = [len |-> NumRegs, of |-> Gprs]
  /\ Context!Parts["sha"] = [len |-> HashWords, of |-> HashVals]
  /\ Context!Parts["state"] = [len |-> Context!StateBytes, of |-> Bytes]
  /\ Context!Parts["rate"] = [len |-> 1, of |-> Rates]
  /\ Context!Parts["index"] = [len |-> 1, of |-> Indices]
  /\ Context!Parts["squeezing"] = [len |-> 1, of |-> {0, 1}]
  /\ Context!Parts["rar"] = [len |-> RarDepth, of |-> Pcs]
  /\ Context!Parts["sp"] = [len |-> 1, of |-> 0 .. RarDepth]
  /\ Context!Parts["flags"] = [len |-> 3, of |-> {0, 1}]
  /\ Context!Parts["ramIn"] = [len |-> RamIn, of |-> Words]
  /\ Context!Parts["ramOut"] = [len |-> RamOut, of |-> Words]
  /\ Context!Parts["emem"] = [len |-> 1, of |-> Words]
BY DEF Context!Parts, PartNames

\* A core whose parts have their sizes and values.
TypedCore(c) ==
  /\ c = [p \in PartNames |-> c[p]]
  /\ \A p \in PartNames : c[p] \in [1 .. Context!Parts[p].len -> Context!Parts[p].of]

LEMMA CoreParts ==
  ASSUME NEW c, TypedCore(c)
  PROVE  /\ c.gpr \in [1 .. NumRegs -> Gprs] /\ c.sha \in [1 .. HashWords -> HashVals]
         /\ c.state \in [1 .. StateLines * BytesPerLine -> Bytes]
         /\ c.rate \in [1 .. 1 -> Rates] /\ c.index \in [1 .. 1 -> Indices]
         /\ c.squeezing \in [1 .. 1 -> {0, 1}] /\ c.rar \in [1 .. RarDepth -> Pcs]
         /\ c.sp \in [1 .. 1 -> 0 .. RarDepth] /\ c.flags \in [1 .. 3 -> {0, 1}]
         /\ c.ramIn \in [1 .. RamIn -> Words] /\ c.ramOut \in [1 .. RamOut -> Words]
         /\ c.emem \in [1 .. 1 -> Words] /\ DOMAIN c = PartNames
<1>1. \A p \in PartNames : c[p] \in [1 .. Context!Parts[p].len -> Context!Parts[p].of]
  BY DEF TypedCore
<1>2. /\ c["gpr"] \in [1 .. Context!Parts["gpr"].len -> Context!Parts["gpr"].of]
      /\ c["sha"] \in [1 .. Context!Parts["sha"].len -> Context!Parts["sha"].of]
      /\ c["state"] \in [1 .. Context!Parts["state"].len -> Context!Parts["state"].of]
      /\ c["rate"] \in [1 .. Context!Parts["rate"].len -> Context!Parts["rate"].of]
      /\ c["index"] \in [1 .. Context!Parts["index"].len -> Context!Parts["index"].of]
      /\ c["squeezing"] \in [1 .. Context!Parts["squeezing"].len -> Context!Parts["squeezing"].of]
      /\ c["rar"] \in [1 .. Context!Parts["rar"].len -> Context!Parts["rar"].of]
      /\ c["sp"] \in [1 .. Context!Parts["sp"].len -> Context!Parts["sp"].of]
      /\ c["flags"] \in [1 .. Context!Parts["flags"].len -> Context!Parts["flags"].of]
      /\ c["ramIn"] \in [1 .. Context!Parts["ramIn"].len -> Context!Parts["ramIn"].of]
      /\ c["ramOut"] \in [1 .. Context!Parts["ramOut"].len -> Context!Parts["ramOut"].of]
      /\ c["emem"] \in [1 .. Context!Parts["emem"].len -> Context!Parts["emem"].of]
  BY <1>1 DEF PartNames
<1>3. DOMAIN c = PartNames
  BY DEF TypedCore
<1> QED
  BY <1>2, <1>3, PartsAre DEF Context!StateBytes

LEMMA BytesOfLine ==
  ASSUME FormatsAssumption, NEW c, TypedCore(c), NEW i \in 1 .. StateLines
  PROVE  /\ Context!PackedLine(c, i - 1) \in 0 .. Widest
         /\ \A j \in 1 .. BytesPerLine :
              Context!Unpacked(Context!PackedLine(c, i - 1), j) = c.state[(i - 1) * BytesPerLine + j]
<1>1. PICK d : d = [j \in 1 .. BytesPerLine |-> c.state[(i - 1) * BytesPerLine + j]]
  OBVIOUS
<1>2. BytesPerLine \in Nat \ {0} /\ StateLines \in Nat \ {0} /\ Bytes \subseteq 0 .. 255
  BY ContextFacts
<1>3. c.state \in [1 .. StateLines * BytesPerLine -> Bytes]
  BY CoreParts
<1>4. ASSUME NEW j \in 1 .. BytesPerLine PROVE c.state[(i - 1) * BytesPerLine + j] \in 0 .. 255
  <2>1. PICK b : b = (i - 1) * BytesPerLine + j
    OBVIOUS
  <2>2. b \in 1 .. StateLines * BytesPerLine
    BY <1>2, <2>1, ByteOfLine
  <2> QED
    BY <1>2, <1>3, <2>1, <2>2
<1>5. d \in [1 .. BytesPerLine -> 0 .. 255]
  BY <1>1, <1>4
<1>6. Context!PackedLine(c, i - 1) = Context!Number(d, 256)
  BY <1>1, Zenon DEF Context!PackedLine, Context!ByteBase
<1>7. Context!Number(d, 256) \in 0 .. Widest
  BY <1>5, BytesFit
<1>8. Context!Digits(Context!Number(d, 256), 256, BytesPerLine) = d
  <2>1. d \in [1 .. BytesPerLine -> 0 .. 256 - 1] /\ BytesPerLine \in Nat
    BY <1>2, <1>5
  <2> QED
    BY <2>1, NumberOfDigits, Bases
<1>9. ASSUME NEW j \in 1 .. BytesPerLine
      PROVE  Context!Unpacked(Context!PackedLine(c, i - 1), j) = d[j]
  BY <1>6, <1>8 DEF Context!Unpacked, Context!ByteBase
<1> QED
  BY <1>1, <1>6, <1>7, <1>9

LEMMA TmacAre ==
  ASSUME FormatsAssumption, NEW c
  PROVE  LET lines == Context!TmacLines(c) IN
         /\ IsSequence(lines) /\ Len(lines) = StateLines + 3
         /\ \A i \in 1 .. StateLines : lines[i] = Context!Text(Context!PackedLine(c, i - 1), 16)
         /\ lines[StateLines + 1] = Context!Text(c.rate[1], 10)
         /\ lines[StateLines + 2] = Context!Text(c.index[1], 10)
         /\ lines[StateLines + 3] = Context!Text(c.squeezing[1], 10)
<1>1. PICK L : L = StateLines
  OBVIOUS
<1>2. L \in Nat
  BY <1>1, ContextFacts
<1>3. PICK a : a = [i \in 1 .. L |-> Context!Text(Context!PackedLine(c, i - 1), 16)]
  OBVIOUS
<1>4. PICK r, x, q : /\ r = Context!Text(c.rate[1], 10) /\ x = Context!Text(c.index[1], 10)
                     /\ q = Context!Text(c.squeezing[1], 10)
  OBVIOUS
<1>5. PICK S : S = {a[i] : i \in 1 .. L} \cup {r, x, q}
  OBVIOUS
<1>6. a \in [1 .. L -> S]
  BY <1>3, <1>5
<1>7. a \in Seq(S) /\ Len(a) = L
  BY <1>2, <1>6
<1>8. PICK b : b = <<r, x, q>>
  OBVIOUS
<1>9. b \in Seq(S) /\ Len(b) = 3 /\ b[1] = r /\ b[2] = x /\ b[3] = q
  BY <1>5, <1>8
<1>10. Context!TmacLines(c) = a \o b
  BY <1>1, <1>3, <1>4, <1>8, Zenon DEF Context!TmacLines, Context!CounterText, Context!Hex, Context!Dec
<1>11. PICK lines : lines = a \o b
  OBVIOUS
<1>12. /\ IsSequence(lines) /\ Len(lines) = L + 3 /\ \A i \in 1 .. L : lines[i] = a[i]
       /\ lines[L + 1] = r /\ lines[L + 2] = x /\ lines[L + 3] = q
  <2>1. /\ IsSequence(lines) /\ Len(lines) = Len(a) + Len(b)
        /\ \A i \in 1 .. Len(a) : lines[i] = a[i]
        /\ \A i \in 1 .. Len(b) : lines[Len(a) + i] = b[i]
    <3>1. IsSequence(a) /\ IsSequence(b)
      BY <1>7, <1>9 DEF IsSequence
    <3> QED
      BY <1>11, <3>1, Joined
  <2>2. \A i \in 1 .. 3 : lines[L + i] = b[i]
    BY <1>7, <1>9, <2>1
  <2> QED
    BY <1>7, <1>9, <2>1, <2>2
<1>13. \A i \in 1 .. L : lines[i] = Context!Text(Context!PackedLine(c, i - 1), 16)
  BY <1>3, <1>12
<1> QED
  BY <1>1, <1>4, <1>10, <1>11, <1>12, <1>13

\* The texts of values of a part stand in the section of a dump.
LEMMA DumpHas ==
  ASSUME FormatsAssumption, NEW c, TypedCore(c), NEW f, f = Context!DumpContext(c)
  PROVE  /\ HasLines(f, Context!LinesBefore(1), Context!Texts(c.gpr, 16))
         /\ HasLines(f, Context!LinesBefore(2), Context!Texts(c.sha, 16))
         /\ HasLines(f, Context!LinesBefore(3), Context!TmacLines(c))
         /\ HasLines(f, Context!LinesBefore(4), Context!Texts(c.rar, 16))
         /\ HasLines(f, Context!LinesBefore(5), Context!Texts(c.sp, 16))
         /\ HasLines(f, Context!LinesBefore(6), Context!Texts(c.flags, 16))
         /\ HasLines(f, Context!LinesBefore(7), Context!Texts(c.ramIn, 16))
         /\ HasLines(f, Context!LinesBefore(8), Context!Texts(c.ramOut, 16))
<1>1. PICK x1, x2, x3, x4, x5, x6, x7, x8 :
        /\ x1 = Context!Texts(c.gpr, 16) /\ x2 = Context!Texts(c.sha, 16)
        /\ x3 = Context!TmacLines(c) /\ x4 = Context!Texts(c.rar, 16)
        /\ x5 = Context!Texts(c.sp, 16) /\ x6 = Context!Texts(c.flags, 16)
        /\ x7 = Context!Texts(c.ramIn, 16) /\ x8 = Context!Texts(c.ramOut, 16)
  OBVIOUS
<1>2. f = Context!Section(x1) \o Context!Section(x2) \o Context!Section(x3)
            \o Context!Section(x4) \o Context!Section(x5) \o Context!Section(x6)
            \o Context!Section(x7) \o Context!Section(x8)
  BY <1>1, Zenon DEF Context!DumpContext, Context!Hex
<1>3. PICK taken : taken = Context!Taken
  OBVIOUS
<1>4. /\ taken[1] = NumRegs /\ taken[2] = HashWords /\ taken[3] = StateLines + 3
      /\ taken[4] = RarDepth /\ taken[5] = 1 /\ taken[6] = 3 /\ taken[7] = RamIn
      /\ taken[8] = RamOut
  BY <1>3 DEF Context!Taken
<1>5. ASSUME NEW n \in Nat, NEW S, NEW x \in [1 .. n -> S], NEW t, t = Context!Texts(x, 16)
      PROVE  IsSequence(t) /\ Len(t) = n
  <2>1. TextsOf(Context!Texts(x, 16), x, n, 16)
    BY TextsAre
  <2> QED
    BY <1>5, <2>1 DEF TextsOf
<1>6. /\ NumRegs \in Nat /\ HashWords \in Nat /\ RarDepth \in Nat /\ RamIn \in Nat
      /\ RamOut \in Nat /\ 1 \in Nat /\ 3 \in Nat
  BY ContextFacts
<1>7. IsSequence(x1) /\ Len(x1) = NumRegs
  BY <1>1, <1>5, <1>6, CoreParts
<1>8. IsSequence(x2) /\ Len(x2) = HashWords
  BY <1>1, <1>5, <1>6, CoreParts
<1>9. IsSequence(x3) /\ Len(x3) = StateLines + 3
  BY <1>1, TmacAre
<1>10. IsSequence(x4) /\ Len(x4) = RarDepth
  BY <1>1, <1>5, <1>6, CoreParts
<1>11. IsSequence(x5) /\ Len(x5) = 1
  BY <1>1, <1>5, <1>6, CoreParts
<1>12. IsSequence(x6) /\ Len(x6) = 3
  BY <1>1, <1>5, <1>6, CoreParts
<1>13. IsSequence(x7) /\ Len(x7) = RamIn
  BY <1>1, <1>5, <1>6, CoreParts
<1>14. IsSequence(x8) /\ Len(x8) = RamOut
  BY <1>1, <1>5, <1>6, CoreParts
<1>15. /\ HasLines(f, Context!LinesBefore(1), x1) /\ HasLines(f, Context!LinesBefore(2), x2)
       /\ HasLines(f, Context!LinesBefore(3), x3) /\ HasLines(f, Context!LinesBefore(4), x4)
       /\ HasLines(f, Context!LinesBefore(5), x5) /\ HasLines(f, Context!LinesBefore(6), x6)
       /\ HasLines(f, Context!LinesBefore(7), x7) /\ HasLines(f, Context!LinesBefore(8), x8)
  <2>1. /\ Len(x1) = Context!Taken[1] /\ Len(x2) = Context!Taken[2] /\ Len(x3) = Context!Taken[3]
        /\ Len(x4) = Context!Taken[4] /\ Len(x5) = Context!Taken[5] /\ Len(x6) = Context!Taken[6]
        /\ Len(x7) = Context!Taken[7] /\ Len(x8) = Context!Taken[8]
    BY <1>3, <1>4, <1>7, <1>8, <1>9, <1>10, <1>11, <1>12, <1>13, <1>14
  <2> QED
    BY <1>2, <1>7, <1>8, <1>9, <1>10, <1>11, <1>12, <1>13, <1>14, <2>1, SectionsAre
<1> QED
  BY <1>1, <1>15

\* What the reader makes of a dump: each part of the core that was dumped.
LEMMA DumpIsRead ==
  ASSUME FormatsAssumption, NEW c, TypedCore(c), NEW f, f = Context!DumpContext(c)
  PROVE  /\ Context!ReadAll(f, 1, NumRegs, 16) = c.gpr
         /\ Context!ReadAll(f, 2, HashWords, 16) = c.sha
         /\ \A i \in 1 .. StateLines :
              Context!Read(f, 3, i, 16) = Context!PackedLine(c, i - 1)
         /\ <<Context!Read(f, 3, StateLines + 1, 10)>> = c.rate
         /\ <<Context!Read(f, 3, StateLines + 2, 10)>> = c.index
         /\ <<Context!Read(f, 3, StateLines + 3, 10)>> = c.squeezing
         /\ Context!ReadAll(f, 4, RarDepth, 16) = c.rar
         /\ <<Context!Read(f, 5, 1, 16)>> = c.sp
         /\ Context!ReadAll(f, 6, 3, 10) = c.flags
         /\ Context!ReadAll(f, 7, RamIn, 16) = c.ramIn
         /\ Context!ReadAll(f, 8, RamOut, 16) = c.ramOut
<1>1. /\ NumRegs \in Nat /\ HashWords \in Nat /\ StateLines \in Nat /\ RarDepth \in Nat
      /\ RamIn \in Nat /\ RamOut \in Nat /\ Widest \in Nat
      /\ 1 \in 0 .. Widest /\ 0 .. RarDepth \subseteq 0 .. Widest /\ {0, 1} \subseteq 0 .. Widest
  BY ContextFacts
<1>2. /\ Gprs \in SUBSET (0 .. Widest) /\ HashVals \in SUBSET (0 .. Widest)
      /\ Rates \in SUBSET (0 .. Widest) /\ Indices \in SUBSET (0 .. Widest)
      /\ Pcs \in SUBSET (0 .. Widest) /\ Words \in SUBSET (0 .. Widest)
  BY ContextFacts, Zenon
<1>3. /\ 10 \in {10, 16} /\ 16 \in {10, 16} /\ 1 \in Nat /\ 3 \in Nat
      /\ 0 .. RarDepth \in SUBSET (0 .. Widest) /\ {0, 1} \in SUBSET (0 .. Widest)
  BY <1>1
<1>4. ASSUME NEW s, NEW n \in Nat, NEW S \in SUBSET (0 .. Widest), NEW x, x \in [1 .. n -> S],
             HasLines(f, Context!LinesBefore(s), Context!Texts(x, 16))
      PROVE  Context!ReadAll(f, s, n, 16) = x
  BY <1>3, <1>4, ReadAllBack
<1>5. PICK x1, x2, x4, x5, x6, x7, x8 :
        /\ x1 = c.gpr /\ x2 = c.sha /\ x4 = c.rar /\ x5 = c.sp /\ x6 = c.flags
        /\ x7 = c.ramIn /\ x8 = c.ramOut
  OBVIOUS
<1>6. /\ x1 \in [1 .. NumRegs -> Gprs] /\ x2 \in [1 .. HashWords -> HashVals]
      /\ x4 \in [1 .. RarDepth -> Pcs] /\ x5 \in [1 .. 1 -> 0 .. RarDepth]
      /\ x6 \in [1 .. 3 -> {0, 1}] /\ x7 \in [1 .. RamIn -> Words]
      /\ x8 \in [1 .. RamOut -> Words]
  BY <1>5, CoreParts
<1>7. /\ HasLines(f, Context!LinesBefore(1), Context!Texts(x1, 16))
      /\ HasLines(f, Context!LinesBefore(2), Context!Texts(x2, 16))
      /\ HasLines(f, Context!LinesBefore(3), Context!TmacLines(c))
      /\ HasLines(f, Context!LinesBefore(4), Context!Texts(x4, 16))
      /\ HasLines(f, Context!LinesBefore(5), Context!Texts(x5, 16))
      /\ HasLines(f, Context!LinesBefore(6), Context!Texts(x6, 16))
      /\ HasLines(f, Context!LinesBefore(7), Context!Texts(x7, 16))
      /\ HasLines(f, Context!LinesBefore(8), Context!Texts(x8, 16))
  BY <1>5, DumpHas
<1>8. /\ Context!ReadAll(f, 1, NumRegs, 16) = x1 /\ Context!ReadAll(f, 2, HashWords, 16) = x2
      /\ Context!ReadAll(f, 4, RarDepth, 16) = x4 /\ Context!ReadAll(f, 5, 1, 16) = x5
      /\ Context!ReadAll(f, 7, RamIn, 16) = x7 /\ Context!ReadAll(f, 8, RamOut, 16) = x8
  <2>1. Context!ReadAll(f, 1, NumRegs, 16) = x1
    BY <1>1, <1>2, <1>4, <1>6, <1>7
  <2>2. Context!ReadAll(f, 2, HashWords, 16) = x2
    BY <1>1, <1>2, <1>4, <1>6, <1>7
  <2>3. Context!ReadAll(f, 4, RarDepth, 16) = x4
    BY <1>1, <1>2, <1>4, <1>6, <1>7
  <2>4. Context!ReadAll(f, 5, 1, 16) = x5
    BY <1>3, <1>4, <1>6, <1>7
  <2>5. Context!ReadAll(f, 7, RamIn, 16) = x7
    BY <1>1, <1>2, <1>4, <1>6, <1>7
  <2>6. Context!ReadAll(f, 8, RamOut, 16) = x8
    BY <1>1, <1>2, <1>4, <1>6, <1>7
  <2> QED
    BY <2>1, <2>2, <2>3, <2>4, <2>5, <2>6
<1>9. ASSUME NEW x, NEW S, x \in [1 .. 1 -> S], NEW v, v = x[1] PROVE <<v>> = x
  BY <1>9
<1>10. <<Context!Read(f, 5, 1, 16)>> = x5
  <2>1. Context!ReadAll(f, 5, 1, 16)[1] = Context!Read(f, 5, 1, 16)
    BY DEF Context!ReadAll
  <2>2. PICK v : v = Context!Read(f, 5, 1, 16)
    OBVIOUS
  <2>3. v = x5[1]
    BY <1>8, <2>1, <2>2
  <2> QED
    BY <1>6, <1>9, <2>2, <2>3
<1>11. Context!ReadAll(f, 6, 3, 10) = x6
  <2>1. ASSUME NEW k \in DOMAIN x6 PROVE Context!Text(x6[k], 16) = Context!Text(x6[k], 10)
    <3>1. PICK y \in 0 .. 9 : y = x6[k]
      BY <1>6
    <3> QED
      BY <3>1, DigitText
  <2>2. Context!Texts(x6, 16) = Context!Texts(x6, 10)
    BY <2>1, Zenon DEF Context!Texts
  <2>3. HasLines(f, Context!LinesBefore(6), Context!Texts(x6, 10))
    BY <1>7, <2>2
  <2> QED
    BY <1>3, <1>6, <2>3, ReadAllBack
<1>12. PICK lines, n : lines = Context!TmacLines(c) /\ n = Context!LinesBefore(3)
  OBVIOUS
<1>13. /\ Len(lines) = StateLines + 3
       /\ \A i \in 1 .. StateLines : lines[i] = Context!Text(Context!PackedLine(c, i - 1), 16)
       /\ lines[StateLines + 1] = Context!Text(c.rate[1], 10)
       /\ lines[StateLines + 2] = Context!Text(c.index[1], 10)
       /\ lines[StateLines + 3] = Context!Text(c.squeezing[1], 10)
  BY <1>12, TmacAre
<1>14. \A k \in 1 .. StateLines + 3 : f[n + k] = lines[k]
  <2>1. HasLines(f, n, lines)
    BY <1>7, <1>12
  <2>2. \A k \in 1 .. Len(lines) : f[n + k] = lines[k]
    BY <2>1 DEF HasLines
  <2> QED
    BY <1>13, <2>2
<1>15. ASSUME NEW i \in 1 .. StateLines
       PROVE  Context!Read(f, 3, i, 16) = Context!PackedLine(c, i - 1)
  <2>1. PICK y : y = Context!PackedLine(c, i - 1)
    OBVIOUS
  <2>2. y \in 0 .. Widest
    BY <2>1, BytesOfLine
  <2>3. i \in 1 .. StateLines + 3
    BY <1>1
  <2>4. f[n + i] = Context!Text(y, 16)
    BY <1>13, <1>14, <2>1, <2>3
  <2>5. Context!Number(Context!Text(y, 16), 16) = y
    BY <1>3, <2>2, FittingText
  <2> QED
    BY <1>12, <2>1, <2>4, <2>5 DEF Context!Read
<1>16. ASSUME NEW k \in 1 .. StateLines + 3, NEW x, NEW S \in SUBSET (0 .. Widest),
              x \in [1 .. 1 -> S], lines[k] = Context!Text(x[1], 10)
       PROVE  <<Context!Read(f, 3, k, 10)>> = x
  <2>1. PICK y \in 0 .. Widest : y = x[1]
    <3>1. 1 \in 1 .. 1
      OBVIOUS
    <3>2. x[1] \in S
      BY <1>16, <3>1
    <3> QED
      BY <3>2
  <2>2. f[n + k] = Context!Text(y, 10)
    BY <1>14, <1>16, <2>1
  <2>3. Context!Number(Context!Text(y, 10), 10) = y
    BY <1>3, FittingText
  <2>4. Context!Read(f, 3, k, 10) = y
    BY <1>12, <2>2, <2>3 DEF Context!Read
  <2> QED
    BY <1>9, <1>16, <2>1, <2>4
<1>17. /\ StateLines + 1 \in 1 .. StateLines + 3 /\ StateLines + 2 \in 1 .. StateLines + 3
       /\ StateLines + 3 \in 1 .. StateLines + 3
  BY <1>1
<1>18. /\ c.rate \in [1 .. 1 -> Rates] /\ c.index \in [1 .. 1 -> Indices]
       /\ c.squeezing \in [1 .. 1 -> {0, 1}]
  BY CoreParts
<1>19. <<Context!Read(f, 3, StateLines + 1, 10)>> = c.rate
  BY <1>2, <1>13, <1>16, <1>17, <1>18
<1>20. <<Context!Read(f, 3, StateLines + 2, 10)>> = c.index
  BY <1>2, <1>13, <1>16, <1>17, <1>18
<1>21. <<Context!Read(f, 3, StateLines + 3, 10)>> = c.squeezing
  BY <1>3, <1>13, <1>16, <1>17, <1>18
<1> QED
  BY <1>5, <1>8, <1>10, <1>11, <1>15, <1>19, <1>20, <1>21

\* Loading a dump into a core restores what was dumped and leaves the rest of its memory.
LEMMA DumpIsLoaded ==
  ASSUME FormatsAssumption, NEW c, TypedCore(c), NEW d, TypedCore(d)
  PROVE  LET e == Context!LoadContext(d, Context!DumpContext(c)) IN
         TypedCore(e) /\ \A p \in PartNames \ {"emem"} : e[p] = c[p]
<1>1. PICK f : f = Context!DumpContext(c)
  OBVIOUS
<1>2. PICK e : e = Context!LoadContext(d, f)
  OBVIOUS
<1>3. PICK state : state = [b \in 1 .. Context!StateBytes |->
        Context!Unpacked(Context!Read(f, 3, (b - 1) \div BytesPerLine + 1, 16),
                         ((b - 1) % BytesPerLine) + 1)]
  OBVIOUS
<1>4. state = c.state
  <2>1. StateLines \in Nat \ {0} /\ BytesPerLine \in Nat \ {0}
    BY ContextFacts
  <2>2. c.state \in [1 .. Context!StateBytes -> Bytes]
    BY CoreParts DEF Context!StateBytes
  <2>3. ASSUME NEW b \in 1 .. Context!StateBytes PROVE state[b] = c.state[b]
    <3>1. PICK i, j : i = (b - 1) \div BytesPerLine + 1 /\ j = ((b - 1) % BytesPerLine) + 1
      OBVIOUS
    <3>2. b \in 1 .. StateLines * BytesPerLine
      BY DEF Context!StateBytes
    <3>3. /\ (b - 1) \div BytesPerLine + 1 \in 1 .. StateLines
          /\ ((b - 1) % BytesPerLine) + 1 \in 1 .. BytesPerLine
          /\ ((b - 1) \div BytesPerLine) * BytesPerLine + (((b - 1) % BytesPerLine) + 1) = b
      BY <2>1, <3>2, LineOfByte
    <3>4. PICK q : q = (b - 1) \div BytesPerLine
      OBVIOUS
    <3>5. i = q + 1 /\ i \in 1 .. StateLines /\ j \in 1 .. BytesPerLine /\ q * BytesPerLine + j = b
      BY <3>1, <3>3, <3>4
    <3>6. q + 1 \in 1 .. StateLines => q \in Int
      BY <3>2, <3>4, <2>1
    <3>7. i - 1 = q
      BY <3>5, <3>6
    <3>8. Context!Read(f, 3, i, 16) = Context!PackedLine(c, i - 1)
      BY <1>1, <3>5, DumpIsRead
    <3>9. Context!Unpacked(Context!PackedLine(c, i - 1), j) = c.state[(i - 1) * BytesPerLine + j]
      BY <3>5, BytesOfLine
    <3>10. state[b] = Context!Unpacked(Context!Read(f, 3, i, 16), j)
      BY <1>3, <3>1
    <3> QED
      BY <3>5, <3>7, <3>8, <3>9, <3>10
  <2> QED
    BY <1>3, <2>2, <2>3
<1>5. e = [d EXCEPT !.gpr = c.gpr, !.sha = c.sha, !.state = c.state, !.rate = c.rate,
                    !.index = c.index, !.squeezing = c.squeezing, !.rar = c.rar, !.sp = c.sp,
                    !.flags = c.flags, !.ramIn = c.ramIn, !.ramOut = c.ramOut]
  <2>1. /\ Context!ReadAll(f, 1, NumRegs, 16) = c.gpr
        /\ Context!ReadAll(f, 2, HashWords, 16) = c.sha
        /\ <<Context!Read(f, 3, StateLines + 1, 10)>> = c.rate
        /\ <<Context!Read(f, 3, StateLines + 2, 10)>> = c.index
        /\ <<Context!Read(f, 3, StateLines + 3, 10)>> = c.squeezing
        /\ Context!ReadAll(f, 4, RarDepth, 16) = c.rar
        /\ <<Context!Read(f, 5, 1, 16)>> = c.sp
        /\ Context!ReadAll(f, 6, 3, 10) = c.flags
        /\ Context!ReadAll(f, 7, RamIn, 16) = c.ramIn
        /\ Context!ReadAll(f, 8, RamOut, 16) = c.ramOut
    BY <1>1, DumpIsRead
  <2> QED
    BY <1>2, <1>3, <1>4, <2>1, Zenon DEF Context!LoadContext, Context!Hex, Context!Dec
<1>6. DOMAIN d = PartNames
  BY CoreParts
<1>7. /\ \A p \in PartNames \ {"emem"} : e[p] = c[p]
      /\ e["emem"] = d["emem"] /\ DOMAIN e = PartNames
  BY <1>5, <1>6 DEF PartNames
<1>8. e = [p \in PartNames |-> e[p]]
  <2>1. e = [p \in DOMAIN e |-> e[p]]
    BY <1>5, <1>6
  <2> QED
    BY <1>7, <2>1
<1>9. \A p \in PartNames : e[p] \in [1 .. Context!Parts[p].len -> Context!Parts[p].of]
  BY <1>7 DEF TypedCore
<1> QED
  BY <1>1, <1>2, <1>7, <1>8, <1>9 DEF TypedCore

LEMMA LeastExists ==
  ASSUME NEW S \in SUBSET Nat, S # {}
  PROVE  \E x \in S : \A y \in S : x <= y
<1>1. PICK x \in S : \A y \in S : ~ (<<y, x>> \in OpToRel(<, Nat))
  BY NatLessThanWellFounded, WFMin
<1>2. ASSUME NEW y \in S PROVE x <= y
  <2> SUFFICES ASSUME y < x PROVE FALSE
    OBVIOUS
  <2>1. <<y, x>> \in Nat \X Nat /\ <<y, x>>[1] < <<y, x>>[2]
    OBVIOUS
  <2>2. <<y, x>> \in OpToRel(<, Nat)
    BY <2>1, Zenon DEF OpToRel
  <2> QED
    BY <1>1, <2>2
<1> QED
  BY <1>2

LEMMA GreatestExists ==
  ASSUME NEW m \in Nat, NEW S \in SUBSET (0 .. m), S # {}
  PROVE  \E x \in S : \A y \in S : y <= x
<1>1. PICK T : T = {n \in 0 .. m : m - n \in S}
  OBVIOUS
<1>2. T \in SUBSET Nat /\ T # {}
  <2>1. PICK x \in S : TRUE
    OBVIOUS
  <2>2. x \in 0 .. m /\ m - x \in 0 .. m /\ m - (m - x) = x
    OBVIOUS
  <2> QED
    BY <1>1, <2>1, <2>2
<1>3. PICK n \in T : \A k \in T : n <= k
  BY <1>2, LeastExists
<1>4. m - n \in S /\ n \in 0 .. m
  BY <1>1, <1>3
<1>5. ASSUME NEW y \in S PROVE y <= m - n
  <2>1. y \in 0 .. m /\ m - y \in 0 .. m /\ m - (m - y) = y
    OBVIOUS
  <2>2. m - y \in T
    BY <1>1, <2>1
  <2>3. n <= m - y
    BY <1>3, <2>2
  <2> QED
    BY <1>4, <2>1, <2>3
<1> QED
  BY <1>4, <1>5

\* A part has at least one element, and its values are some of the first numbers.
LEMMA PartValues ==
  ASSUME FormatsAssumption, NEW p \in PartNames
  PROVE  /\ Context!Parts[p].len \in Nat /\ Context!Parts[p].of # {}
         /\ \E m \in Nat : Context!Parts[p].of \subseteq 0 .. m
<1>1. /\ NumRegs \in Nat \ {0} /\ HashWords \in Nat \ {0} /\ StateLines \in Nat \ {0}
      /\ BytesPerLine \in Nat \ {0} /\ RarDepth \in Nat \ {0} /\ RamIn \in Nat \ {0}
      /\ RamOut \in Nat \ {0} /\ Widest \in Nat
  BY ContextFacts
<1>2. Context!StateBytes \in Nat
  BY <1>1 DEF Context!StateBytes
<1>3. /\ Gprs \subseteq 0 .. Widest /\ HashVals \subseteq 0 .. Widest /\ Rates \subseteq 0 .. Widest
      /\ Indices \subseteq 0 .. Widest /\ Pcs \subseteq 0 .. Widest /\ Words \subseteq 0 .. Widest
  BY ContextFacts, Zenon
<1>4. /\ Bytes \subseteq 0 .. 255 /\ Gprs # {} /\ Pcs # {} /\ HashVals # {} /\ Bytes # {}
      /\ Rates # {} /\ Indices # {} /\ Words # {}
  BY ContextFacts
<1>5. {0, 1} \subseteq 0 .. 1 /\ 0 .. RarDepth # {} /\ {0, 1} # {} /\ 255 \in Nat /\ 1 \in Nat
  BY <1>1
<1>6. Context!Parts[p].len \in Nat
  BY <1>1, <1>2, PartsAre DEF PartNames
<1>7. Context!Parts[p].of # {}
  <2>1. Context!Parts[p].of \in {Gprs, HashVals, Bytes, Rates, Indices, {0, 1}, Pcs, Words,
                                 0 .. RarDepth}
    BY PartsAre DEF PartNames
  <2> QED
    BY <1>4, <1>5, <2>1
<1>8. \E m \in Nat : Context!Parts[p].of \subseteq 0 .. m
  <2>1. CASE p = "state"
    <3>1. Context!Parts[p].of = Bytes
      BY <2>1, PartsAre
    <3> QED
      BY <1>4, <1>5, <3>1
  <2>2. CASE p \in {"squeezing", "flags"}
    BY <1>5, <2>2, PartsAre
  <2>3. CASE p = "sp"
    BY <1>1, <2>3, PartsAre
  <2>4. CASE p \in PartNames \ {"state", "squeezing", "flags", "sp"}
    <3>1. Context!Parts[p].of \in {Gprs, HashVals, Rates, Indices, Pcs, Words}
      BY <2>4, PartsAre DEF PartNames
    <3>2. Context!Parts[p].of \subseteq 0 .. Widest
      BY <1>3, <3>1
    <3> QED
      BY <1>1, <3>2
  <2> QED
    BY <2>1, <2>2, <2>3, <2>4
<1> QED
  BY <1>6, <1>7, <1>8

\* A core keeps its types when one of its parts gets another value.
LEMMA PartReplaced ==
  ASSUME NEW c, TypedCore(c), NEW p \in PartNames, NEW x,
         x \in [1 .. Context!Parts[p].len -> Context!Parts[p].of]
  PROVE  TypedCore([c EXCEPT ![p] = x])
<1>1. PICK d : d = [c EXCEPT ![p] = x]
  OBVIOUS
<1>2. DOMAIN c = PartNames /\ c = [q \in PartNames |-> c[q]]
  BY DEF TypedCore
<1>3. d = [q \in PartNames |-> d[q]] /\ \A q \in PartNames : d[q] = IF q = p THEN x ELSE c[q]
  BY <1>1, <1>2
<1>4. \A q \in PartNames : d[q] \in [1 .. Context!Parts[q].len -> Context!Parts[q].of]
  BY <1>3 DEF TypedCore
<1> QED
  BY <1>1, <1>3, <1>4 DEF TypedCore

LEMMA Resetting ==
  ASSUME FormatsAssumption, NEW c, TypedCore(c)
  PROVE  TypedCore(Context!Reset(c))
<1>1. PICK r, g, a, s, h : /\ r = Context!Reset(c) /\ g = Context!Repeated(0, NumRegs)
                           /\ a = Context!Repeated(0, RarDepth) /\ s = Context!Repeated(0, 3)
                           /\ h = Context!HashStart
  OBVIOUS
<1>2. r = [c EXCEPT !.gpr = g, !.flags = s, !.rar = a, !.sp = <<0>>, !.sha = h]
  BY <1>1, Zenon DEF Context!Reset
<1>3. /\ NumRegs \in Nat /\ HashWords \in Nat /\ RarDepth \in Nat /\ 0 \in Gprs /\ 0 \in Pcs
      /\ HashVals # {}
  BY ContextFacts
<1>4. g \in [1 .. NumRegs -> Gprs] /\ a \in [1 .. RarDepth -> Pcs] /\ s \in [1 .. 3 -> {0, 1}]
  BY <1>1, <1>3 DEF Context!Repeated
<1>5. <<0>> \in [1 .. 1 -> 0 .. RarDepth]
  BY <1>3
<1>6. h \in [1 .. HashWords -> HashVals]
  <2>1. HashVals \in SUBSET Nat
    <3>1. HashVals \subseteq 0 .. Widest
      BY ContextFacts, Zenon
    <3> QED
      BY <3>1
  <2>2. \E x \in HashVals : \A y \in HashVals : x <= y
    BY <1>3, <2>1, LeastExists
  <2>3. PICK v : v = CHOOSE x \in HashVals : \A y \in HashVals : x <= y
    OBVIOUS
  <2>4. v \in HashVals
    BY <2>2, <2>3
  <2>5. h = [k \in 1 .. HashWords |-> v]
    <3>1. h = Context!Repeated(v, HashWords)
      BY <1>1, <2>3, Zenon DEF Context!HashStart
    <3> QED
      BY <3>1 DEF Context!Repeated
  <2> QED
    BY <2>4, <2>5
<1>7. DOMAIN c = PartNames
  BY CoreParts
<1>8. /\ r["gpr"] = g /\ r["flags"] = s /\ r["rar"] = a /\ r["sp"] = <<0>> /\ r["sha"] = h
      /\ DOMAIN r = PartNames
      /\ \A p \in PartNames \ {"gpr", "flags", "rar", "sp", "sha"} : r[p] = c[p]
  BY <1>2, <1>7 DEF PartNames
<1>9. r = [p \in PartNames |-> r[p]]
  <2>1. r = [p \in DOMAIN r |-> r[p]]
    BY <1>2, <1>7
  <2> QED
    BY <1>8, <2>1
<1>10. \A p \in PartNames : r[p] \in [1 .. Context!Parts[p].len -> Context!Parts[p].of]
  <2> TAKE p \in PartNames
  <2>1. CASE p = "gpr"
    BY <1>4, <1>8, <2>1, PartsAre
  <2>2. CASE p = "flags"
    BY <1>4, <1>8, <2>2, PartsAre
  <2>3. CASE p = "rar"
    BY <1>4, <1>8, <2>3, PartsAre
  <2>4. CASE p = "sp"
    BY <1>5, <1>8, <2>4, PartsAre
  <2>5. CASE p = "sha"
    BY <1>6, <1>8, <2>5, PartsAre
  <2>6. CASE p \in PartNames \ {"gpr", "flags", "rar", "sp", "sha"}
    BY <1>8, <2>6 DEF TypedCore
  <2> QED
    BY <2>1, <2>2, <2>3, <2>4, <2>5, <2>6
<1> QED
  BY <1>1, <1>9, <1>10 DEF TypedCore

\* Whatever memory holds before anything is initialised, the core has its types.
LEMMA AnyCore ==
  ASSUME FormatsAssumption, NEW c \in Context!Uninitialised
  PROVE  TypedCore(c)
<1>1. PICK least, greatest :
        /\ least = [p \in DOMAIN Context!Parts |-> CHOOSE x \in Context!Parts[p].of : TRUE]
        /\ greatest = [p \in DOMAIN Context!Parts |->
                         CHOOSE x \in Context!Parts[p].of :
                           \A y \in Context!Parts[p].of : y <= x]
  OBVIOUS
<1>2. PICK v \in {least, greatest} :
        c = [p \in DOMAIN Context!Parts |-> Context!Repeated(v[p], Context!Parts[p].len)]
  BY <1>1, Zenon DEF Context!Uninitialised
<1>3. ASSUME NEW p \in PartNames PROVE v[p] \in Context!Parts[p].of
  <2>1. PICK S : S = Context!Parts[p].of
    OBVIOUS
  <2>2. S # {} /\ \E m \in Nat : S \subseteq 0 .. m
    BY <2>1, PartValues
  <2>3. \E x \in S : \A y \in S : y <= x
    <3>1. PICK m \in Nat : S \in SUBSET (0 .. m)
      BY <2>2
    <3> QED
      BY <2>2, <3>1, GreatestExists
  <2>4. p \in DOMAIN Context!Parts
    BY PartsAre
  <2>5. least[p] \in S
    <3>1. least[p] = CHOOSE x \in S : TRUE
      BY <1>1, <2>1, <2>4
    <3> QED
      BY <2>2, <3>1
  <2>6. greatest[p] \in S
    <3>1. greatest[p] = CHOOSE x \in S : \A y \in S : y <= x
      BY <1>1, <2>1, <2>4
    <3> QED
      BY <2>3, <3>1
  <2> QED
    BY <2>1, <2>5, <2>6
<1>4. DOMAIN Context!Parts = PartNames
  BY PartsAre
<1>5. \A p \in PartNames : c[p] = [k \in 1 .. Context!Parts[p].len |-> v[p]]
  BY <1>2, <1>4 DEF Context!Repeated
<1>6. ASSUME NEW p \in PartNames
      PROVE  c[p] \in [1 .. Context!Parts[p].len -> Context!Parts[p].of]
  <2>1. PICK n, S, w : n = Context!Parts[p].len /\ S = Context!Parts[p].of /\ w = v[p]
    OBVIOUS
  <2>2. w \in S /\ c[p] = [k \in 1 .. n |-> w]
    BY <1>3, <1>5, <2>1
  <2> QED
    BY <2>1, <2>2
<1>7. c = [p \in PartNames |-> c[p]]
  BY <1>2, <1>4
<1> QED
  BY <1>6, <1>7 DEF TypedCore

\* The core and what was last dumped have their types; a process with a context has the
\* dump of that core; and right after a start with a context the two agree.
CtxInv ==
  /\ TypedCore(core) /\ TypedCore(saved) /\ withContext \in BOOLEAN
  /\ withContext => file = Context!DumpContext(saved)
  /\ Context!StartsFromContext

LEMMA Fresh == Context!SavedParts = PartNames \ {"emem"}
BY PartsAre DEF Context!SavedParts

LEMMA AnyStart ==
  ASSUME FormatsAssumption, NEW d \in {Context!Reset(c) : c \in Context!Uninitialised}
  PROVE  TypedCore(d)
<1>1. PICK c \in Context!Uninitialised : d = Context!Reset(c)
  OBVIOUS
<1>2. TypedCore(c)
  BY AnyCore
<1> QED
  BY <1>1, <1>2, Resetting

LEMMA ContextStart == ASSUME FormatsAssumption, Context!Init PROVE CtxInv
<1>1. TypedCore(core) /\ saved = core /\ withContext = FALSE /\ fresh = FALSE
  BY AnyStart DEF Context!Init
<1> QED
  BY <1>1 DEF CtxInv, Context!StartsFromContext

LEMMA PreloadKeeps == ASSUME FormatsAssumption, CtxInv, Context!Preload PROVE CtxInv'
<1>1. PICK p \in {"ramIn", "emem"}, w \in Words :
        core' = [core EXCEPT ![p] = Context!Repeated(w, Context!Parts[p].len)]
  BY DEF Context!Preload
<1>2. PICK x, n : n = Context!Parts[p].len /\ x = Context!Repeated(w, n)
  OBVIOUS
<1>3. core' = [core EXCEPT ![p] = x]
  BY <1>1, <1>2
<1>4. x \in [1 .. n -> Words]
  BY <1>2 DEF Context!Repeated
<1>5. p \in PartNames /\ Context!Parts[p].of = Words
  BY PartsAre DEF PartNames
<1>6. TypedCore([core EXCEPT ![p] = x])
  BY <1>2, <1>4, <1>5, PartReplaced DEF CtxInv
<1>7. fresh' = FALSE /\ UNCHANGED <<saved, withContext, file>>
  BY DEF Context!Preload
<1>8. TypedCore(core')
  BY <1>3, <1>6
<1> QED
  BY <1>7, <1>8 DEF CtxInv, TypedCore, Context!StartsFromContext, Context!DumpContext

LEMMA StartProgramKeeps == ASSUME FormatsAssumption, CtxInv, Context!StartProgram PROVE CtxInv'
<1>1. /\ core' = Context!Began(core) /\ fresh' = withContext
      /\ UNCHANGED <<file, withContext, saved>>
  BY DEF Context!StartProgram
<1>2. PICK d : d = Context!Reset(core)
  OBVIOUS
<1>3. TypedCore(d)
  BY <1>2, Resetting DEF CtxInv
<1>4. TypedCore(core') /\ (withContext => \A p \in PartNames \ {"emem"} : core'[p] = saved[p])
  <2>1. CASE withContext
    <3>1. PICK e : e = Context!LoadContext(d, Context!DumpContext(saved))
      OBVIOUS
    <3>2. TypedCore(e) /\ \A p \in PartNames \ {"emem"} : e[p] = saved[p]
      BY <1>3, <3>1, DumpIsLoaded DEF CtxInv
    <3>3. core' = e
      BY <1>1, <1>2, <2>1, <3>1 DEF Context!Began, CtxInv
    <3> QED
      BY <3>2, <3>3
  <2>2. CASE ~ withContext
    BY <1>1, <1>2, <1>3, <2>2 DEF Context!Began
  <2> QED
    BY <2>1, <2>2
<1>5. Context!StartsFromContext'
  <2>1. (\A p \in Context!SavedParts : core[p] = saved[p])'
          <=> \A p \in PartNames \ {"emem"} : core'[p] = saved[p]
    BY <1>1, Fresh DEF Context!SavedParts, Context!Parts
  <2> QED
    BY <1>1, <1>4, <2>1 DEF Context!StartsFromContext
<1> QED
  BY <1>1, <1>4, <1>5 DEF CtxInv, TypedCore, Context!DumpContext

LEMMA ExecuteKeeps == ASSUME FormatsAssumption, CtxInv, Context!Execute PROVE CtxInv'
<1>1. PICK p \in DOMAIN Context!Parts :
        \E k \in 1 .. Context!Parts[p].len, v \in Context!Parts[p].of :
          core' = [core EXCEPT ![p][k] = v]
  BY DEF Context!Execute
<1>2. PICK n, S : n = Context!Parts[p].len /\ S = Context!Parts[p].of
  OBVIOUS
<1>3. PICK k \in 1 .. n, v \in S : core' = [core EXCEPT ![p][k] = v]
  BY <1>1, <1>2
<1>4. p \in PartNames
  BY PartsAre
<1>5. PICK x : x = [core[p] EXCEPT ![k] = v]
  OBVIOUS
<1>6. core[p] \in [1 .. n -> S]
  BY <1>2, <1>4 DEF CtxInv, TypedCore
<1>7. x \in [1 .. n -> S]
  BY <1>5, <1>6
<1>8. core' = [core EXCEPT ![p] = x]
  BY <1>3, <1>5
<1>9. TypedCore([core EXCEPT ![p] = x])
  BY <1>2, <1>4, <1>7, PartReplaced DEF CtxInv
<1>10. TypedCore(core')
  BY <1>8, <1>9
<1>11. fresh' = FALSE /\ UNCHANGED <<saved, withContext, file>>
  BY DEF Context!Execute
<1> QED
  BY <1>10, <1>11 DEF CtxInv, TypedCore, Context!StartsFromContext, Context!DumpContext

LEMMA ExitAndBootKeeps == ASSUME FormatsAssumption, CtxInv, Context!ExitAndBoot PROVE CtxInv'
<1>1. /\ file' = Context!DumpContext(core) /\ saved' = core /\ withContext' \in BOOLEAN
      /\ fresh' = FALSE /\ core' \in {Context!Reset(c) : c \in Context!Uninitialised}
  BY DEF Context!ExitAndBoot
<1>2. TypedCore(core') /\ TypedCore(saved')
  BY <1>1, AnyStart DEF CtxInv
<1>3. file' = Context!DumpContext(saved')
  BY <1>1
<1> QED
  BY <1>1, <1>2, <1>3 DEF CtxInv, TypedCore, Context!StartsFromContext, Context!DumpContext

\* Wherever a session starts its program from a context, whatever it ran, loaded or
\* started before, every part of the core that the file has is what it was when the
\* context was dumped (LoadContext, DumpContext).
THEOREM ContextsAreRestored == SubjectSpec => []ContextRestored
<1> DEFINE Inv == subject = "context" => CtxInv
<1> USE FormatsAssumption
<1>1. SubjectInit => Inv
  BY ContextStart DEF SubjectInit
<1>2. Inv /\ [SubjectNext]_subjectVars => Inv'
  <2> SUFFICES ASSUME Inv, [SubjectNext]_subjectVars, subject' = "context" PROVE CtxInv'
    OBVIOUS
  <2>1. subject = "context"
    BY DEF SubjectNext, subjectVars
  <2>2. CtxInv
    BY <2>1
  <2>3. CASE SubjectNext
    <3>1. Context!Next
      BY <2>1, <2>3 DEF SubjectNext
    <3> QED
      BY <2>2, <3>1, PreloadKeeps, StartProgramKeeps, ExecuteKeeps, ExitAndBootKeeps
      DEF Context!Next
  <2>4. CASE UNCHANGED subjectVars
    <3>1. UNCHANGED <<core, file, withContext, saved, fresh>>
      BY <2>4 DEF subjectVars, contextVars
    <3> QED
      BY <2>2, <3>1
      DEF CtxInv, TypedCore, Context!StartsFromContext, Context!SavedParts, Context!Parts,
          Context!DumpContext
  <2> QED
    BY <2>3, <2>4
<1>3. Inv => ContextRestored
  BY DEF CtxInv, ContextRestored
<1> QED
  BY <1>1, <1>2, <1>3, PTL DEF SubjectSpec


--------------------------------------------------------------------------------
(* Parity *)

XorShift(w, n) == Xor(w, Shr(w, n))

LEMMA XorHas == ASSUME NEW v, NEW w, NEW x PROVE x \in Xor(v, w) <=> (x \in v <=> x \notin w)
  BY DEF Xor

LEMMA ShrHas ==
  ASSUME NEW w \in SUBSET Nat, NEW n \in Nat, NEW x
  PROVE  x \in Shr(w, n) <=> x \in Nat /\ x + n \in w
  BY DEF Shr

LEMMA XorShiftType ==
  ASSUME NEW w \in SUBSET Nat, NEW n \in Nat
  PROVE  XorShift(w, n) \in SUBSET Nat
<1>1. Shr(w, n) \in SUBSET Nat
  BY ShrHas
<1> QED
  BY <1>1 DEF XorShift, Xor

LEMMA XorShiftOfXor ==
  ASSUME NEW v \in SUBSET Nat, NEW w \in SUBSET Nat, NEW n \in Nat
  PROVE  XorShift(Xor(v, w), n) = Xor(XorShift(v, n), XorShift(w, n))
<1>1. Xor(v, w) \in SUBSET Nat
  BY DEF Xor
<1>2. ASSUME NEW x
      PROVE  x \in XorShift(Xor(v, w), n) <=> x \in Xor(XorShift(v, n), XorShift(w, n))
  <2>1. x \in Shr(Xor(v, w), n) <=> x \in Nat /\ x + n \in Xor(v, w)
    BY <1>1, ShrHas
  <2>2. /\ x \in Shr(v, n) <=> x \in Nat /\ x + n \in v
        /\ x \in Shr(w, n) <=> x \in Nat /\ x + n \in w
    BY ShrHas
  <2>3. /\ x \in XorShift(Xor(v, w), n) <=> (x \in Xor(v, w) <=> x \notin Shr(Xor(v, w), n))
        /\ x \in XorShift(v, n) <=> (x \in v <=> x \notin Shr(v, n))
        /\ x \in XorShift(w, n) <=> (x \in w <=> x \notin Shr(w, n))
    BY XorHas DEF XorShift
  <2>4. /\ x \in Xor(v, w) <=> (x \in v <=> x \notin w)
        /\ x + n \in Xor(v, w) <=> (x + n \in v <=> x + n \notin w)
        /\ x \in Xor(XorShift(v, n), XorShift(w, n))
             <=> (x \in XorShift(v, n) <=> x \notin XorShift(w, n))
    BY XorHas
  <2> QED
    BY <2>1, <2>2, <2>3, <2>4
<1> QED
  BY <1>2

\* The places from b downwards.
Run(b, n) == {x \in Nat : b - n < x /\ x <= b}

LEMMA RunDoubles ==
  ASSUME NEW b \in Nat, NEW n \in Nat, n >= 1
  PROVE  XorShift(Run(b, n), n) = Run(b, 2 * n)
<1>1. Run(b, n) \in SUBSET Nat
  BY DEF Run
<1>2. ASSUME NEW x PROVE x \in XorShift(Run(b, n), n) <=> x \in Run(b, 2 * n)
  <2>1. x \in Shr(Run(b, n), n) <=> x \in Nat /\ x + n \in Run(b, n)
    BY <1>1, ShrHas
  <2>2. x \in XorShift(Run(b, n), n) <=> (x \in Run(b, n) <=> x \notin Shr(Run(b, n), n))
    BY XorHas DEF XorShift
  <2> QED
    BY <2>1, <2>2 DEF Run
<1> QED
  BY <1>2

LEMMA FoldedIs ==
  ASSUME NEW w
  PROVE  Folded(w) = XorShift(XorShift(XorShift(XorShift(XorShift(w, 1), 2), 4), 8), 16)
  BY Zenon DEF Folded, XorShift

LEMMA FoldedOne ==
  ASSUME NEW b \in Bits
  PROVE  0 \in Folded({b})
<1>1. {b} = Run(b, 1) /\ b \in Nat
  BY DEF Run, Bits
<1>2. XorShift({b}, 1) = Run(b, 2)
  BY <1>1, RunDoubles
<1>3. XorShift(Run(b, 2), 2) = Run(b, 4)
  BY <1>1, RunDoubles
<1>4. XorShift(Run(b, 4), 4) = Run(b, 8)
  BY <1>1, RunDoubles
<1>5. XorShift(Run(b, 8), 8) = Run(b, 16)
  BY <1>1, RunDoubles
<1>6. XorShift(Run(b, 16), 16) = Run(b, 32)
  BY <1>1, RunDoubles
<1>7. 0 \in Run(b, 32)
  BY DEF Run, Bits
<1> QED
  BY <1>2, <1>3, <1>4, <1>5, <1>6, <1>7, FoldedIs

\* One bit more or less is the other parity.
LEMMA FoldedFlips ==
  ASSUME NEW w \in SUBSET Bits, NEW b \in Bits
  PROVE  0 \in Folded(Xor(w, {b})) <=> 0 \notin Folded(w)
<1>1. PICK v : v = {b}
  OBVIOUS
<1>2. w \in SUBSET Nat /\ v \in SUBSET Nat
  BY <1>1 DEF Bits
<1> DEFINE F1(z) == XorShift(z, 1)
           F2(z) == XorShift(F1(z), 2)
           F3(z) == XorShift(F2(z), 4)
           F4(z) == XorShift(F3(z), 8)
<1>3. F1(w) \in SUBSET Nat /\ F1(v) \in SUBSET Nat /\ F1(Xor(w, v)) = Xor(F1(w), F1(v))
  BY <1>2, XorShiftType, XorShiftOfXor
<1> HIDE DEF F1
<1>4. F2(w) \in SUBSET Nat /\ F2(v) \in SUBSET Nat /\ F2(Xor(w, v)) = Xor(F2(w), F2(v))
  BY <1>3, XorShiftType, XorShiftOfXor
<1> HIDE DEF F2
<1>5. F3(w) \in SUBSET Nat /\ F3(v) \in SUBSET Nat /\ F3(Xor(w, v)) = Xor(F3(w), F3(v))
  BY <1>4, XorShiftType, XorShiftOfXor
<1> HIDE DEF F3
<1>6. F4(w) \in SUBSET Nat /\ F4(v) \in SUBSET Nat /\ F4(Xor(w, v)) = Xor(F4(w), F4(v))
  BY <1>5, XorShiftType, XorShiftOfXor
<1> HIDE DEF F4
<1>7. XorShift(F4(Xor(w, v)), 16) = Xor(XorShift(F4(w), 16), XorShift(F4(v), 16))
  BY <1>6, XorShiftOfXor
<1>8. ASSUME NEW z PROVE Folded(z) = XorShift(F4(z), 16)
  BY FoldedIs, Zenon DEF F1, F2, F3, F4
<1>9. Folded(Xor(w, v)) = Xor(Folded(w), Folded(v))
  BY <1>7, <1>8
<1> QED
  BY <1>1, <1>9, FoldedOne, XorHas

LEMMA ParityComputed ==
  ASSUME NEW w \in SUBSET (0 .. 30), NEW p \in ParityTypes
  PROVE  CheckParity(p, IF ComputeParity(p, w) THEN w \cup {ParityOffset} ELSE w)
<1>1. w \in SUBSET Bits /\ 31 \in Bits
  BY DEF Bits
<1>2. w \cup {ParityOffset} = Xor(w, {31})
  BY DEF Xor, ParityOffset
<1>3. 0 \in Folded(w \cup {ParityOffset}) <=> 0 \notin Folded(w)
  BY <1>1, <1>2, FoldedFlips
<1>4. CASE p = "NONE"
  BY <1>4 DEF CheckParity
<1>5. CASE p = "ODD"
  BY <1>3, <1>5 DEF CheckParity, ComputeParity
<1>6. CASE p = "EVEN"
  BY <1>3, <1>6 DEF CheckParity, ComputeParity
<1> QED
  BY <1>4, <1>5, <1>6 DEF ParityTypes

LEMMA ParityFlipped ==
  ASSUME NEW w \in SUBSET Bits, NEW p \in {"ODD", "EVEN"}, NEW q \in {"ODD", "EVEN"},
         NEW b \in Bits, CheckParity(p, w)
  PROVE  /\ CheckParity(q, w) <=> p = q
         /\ CheckParity(q, Xor(w, {b})) <=> p # q
<1>1. 0 \in Folded(Xor(w, {b})) <=> 0 \notin Folded(w)
  BY FoldedFlips
<1> QED
  BY <1>1 DEF CheckParity

--------------------------------------------------------------------------------
(* The tables *)

GoodRow(r) == r[2] \in {"R", "I", "M", "J"} /\ r[3] \in 0 .. 15 /\ r[4] \in 0 .. 7
SameKey(r, s) == r[2] = s[2] /\ r[3] = s[3] /\ r[4] = s[4]

\* A table of n rows, no two of which have the same type, opcode and func.
GoodTable(t, n) ==
  /\ IsSequence(t) /\ Len(t) = n
  /\ \A k \in 1 .. n : GoodRow(t[k])
  /\ \A j, k \in 1 .. n : SameKey(t[j], t[k]) => j = k

LEMMA SharedRows == GoodTable(SharedTable, 44)
<1>1. IsSequence(SharedTable)
  <2>1. PICK S : S = {SharedTable[k] : k \in 1 .. 44}
    OBVIOUS
  <2>2. SharedTable \in [1 .. 44 -> S]
    BY <2>1 DEF SharedTable
  <2>3. PICK n \in Nat : n = 44
    OBVIOUS
  <2>4. PICK t : t = SharedTable
    OBVIOUS
  <2>5. t \in [1 .. n -> S]
    BY <2>2, <2>3, <2>4
  <2>6. t \in Seq(S)
    BY <2>5
  <2> QED
    BY <2>4, <2>6 DEF IsSequence
<1>2. Len(SharedTable) = 44
  BY DEF SharedTable
<1>3. \A k \in 1 .. 44 : GoodRow(SharedTable[k])
  BY DEF SharedTable, GoodRow
<1>4. \A j, k \in 1 .. 44 : SameKey(SharedTable[j], SharedTable[k]) => j = k
  BY DEF SharedTable, SameKey
<1> QED
  BY <1>1, <1>2, <1>3, <1>4 DEF GoodTable

RowsOfV1 == << <<"CMPA", "I", 8, 5, "011">>, <<"GPK", "I", 10, 7, "101">> >>

RowsOfV2 == <<
  <<"SBIT", "R", 1, 3, "111">>, <<"CBIT", "R", 2, 3, "111">>, <<"ROLIN", "R", 14, 4, "111">>,
  <<"RORIN", "R", 13, 4, "111">>, <<"LDR", "R", 2, 5, "110">>, <<"STR", "R", 4, 5, "110">>,
  <<"ZSWAP", "R", 7, 5, "110">>, <<"TMAC_IT", "R", 1, 7, "010">>, <<"TMAC_UP", "R", 4, 7, "010">>,
  <<"TMAC_RD", "R", 8, 7, "100">>, <<"TMAC_IS", "I", 2, 7, "011">>, <<"LDK", "I", 10, 7, "111">>,
  <<"STK", "I", 11, 7, "111">>, <<"KBO", "I", 12, 7, "011">>, <<"BRE", "J", 14, 0, "100">>,
  <<"BRNE", "J", 15, 0, "100">> >>

LEMMA OwnRows == GoodTable(RowsOfV1, 2) /\ GoodTable(RowsOfV2, 16)
<1>1. IsSequence(RowsOfV1) /\ IsSequence(RowsOfV2)
  <2>1. RowsOfV1 \in Seq({RowsOfV1[k] : k \in 1 .. 2})
    BY DEF RowsOfV1
  <2>2. RowsOfV2 \in Seq({RowsOfV2[k] : k \in 1 .. 16})
    BY DEF RowsOfV2
  <2> QED
    BY <2>1, <2>2 DEF IsSequence
<1>2. Len(RowsOfV1) = 2 /\ Len(RowsOfV2) = 16
  BY DEF RowsOfV1, RowsOfV2
<1>3. \A k \in 1 .. 2 : GoodRow(RowsOfV1[k])
  BY DEF RowsOfV1, GoodRow
<1>4. \A k \in 1 .. 16 : GoodRow(RowsOfV2[k])
  BY DEF RowsOfV2, GoodRow
<1>5. \A j, k \in 1 .. 2 : SameKey(RowsOfV1[j], RowsOfV1[k]) => j = k
  BY DEF RowsOfV1, SameKey
<1>6. \A j, k \in 1 .. 16 : SameKey(RowsOfV2[j], RowsOfV2[k]) => j = k
  BY DEF RowsOfV2, SameKey
<1> QED
  BY <1>1, <1>2, <1>3, <1>4, <1>5, <1>6 DEF GoodTable

\* The rows of a version have other encodings than the shared ones.
LEMMA RowsApart ==
  /\ \A j \in 1 .. 44, k \in 1 .. 2 : ~ SameKey(SharedTable[j], RowsOfV1[k])
  /\ \A j \in 1 .. 44, k \in 1 .. 16 : ~ SameKey(SharedTable[j], RowsOfV2[k])
<1>1. \A j \in 1 .. 44, k \in 1 .. 2 : ~ SameKey(SharedTable[j], RowsOfV1[k])
  BY DEF SharedTable, RowsOfV1, SameKey
<1>2. \A j \in 1 .. 44, k \in 1 .. 16 : ~ SameKey(SharedTable[j], RowsOfV2[k])
  BY DEF SharedTable, RowsOfV2, SameKey
<1> QED
  BY <1>1, <1>2

LEMMA TablesJoin ==
  ASSUME NEW s, NEW t, NEW m \in Nat, NEW n \in Nat, GoodTable(s, m), GoodTable(t, n),
         \A j \in 1 .. m, k \in 1 .. n : ~ SameKey(s[j], t[k])
  PROVE  GoodTable(s \o t, m + n)
<1>1. PICK r : r = s \o t
  OBVIOUS
<1>2. /\ IsSequence(r) /\ Len(r) = m + n
      /\ \A i \in 1 .. m : r[i] = s[i]
      /\ \A i \in 1 .. n : r[m + i] = t[i]
  <2>1. IsSequence(s) /\ IsSequence(t) /\ Len(s) = m /\ Len(t) = n
    BY DEF GoodTable
  <2>2. /\ IsSequence(s \o t) /\ Len(s \o t) = Len(s) + Len(t)
        /\ \A i \in 1 .. Len(s) : (s \o t)[i] = s[i]
        /\ \A i \in 1 .. Len(t) : (s \o t)[Len(s) + i] = t[i]
    BY <2>1, Joined
  <2> QED
    BY <1>1, <2>1, <2>2
<1>3. ASSUME NEW k \in 1 .. m + n
      PROVE  \/ k \in 1 .. m /\ r[k] = s[k]
             \/ k - m \in 1 .. n /\ r[k] = t[k - m]
  <2>1. CASE k <= m
    BY <1>2, <2>1
  <2>2. CASE k > m
    <3>1. k - m \in 1 .. n /\ m + (k - m) = k
      BY <2>2
    <3> QED
      BY <1>2, <3>1
  <2> QED
    BY <2>1, <2>2
<1>4. ASSUME NEW k \in 1 .. m + n PROVE GoodRow(r[k])
  BY <1>3 DEF GoodTable
<1>5. ASSUME NEW j \in 1 .. m + n, NEW k \in 1 .. m + n, SameKey(r[j], r[k]) PROVE j = k
  <2>1. SameKey(r[k], r[j])
    BY <1>5 DEF SameKey
  <2>2. CASE j \in 1 .. m /\ r[j] = s[j] /\ k \in 1 .. m /\ r[k] = s[k]
    BY <1>5, <2>2 DEF GoodTable
  <2>3. CASE j \in 1 .. m /\ r[j] = s[j] /\ k - m \in 1 .. n /\ r[k] = t[k - m]
    BY <1>5, <2>3
  <2>4. CASE k \in 1 .. m /\ r[k] = s[k] /\ j - m \in 1 .. n /\ r[j] = t[j - m]
    BY <2>1, <2>4
  <2>5. CASE j - m \in 1 .. n /\ r[j] = t[j - m] /\ k - m \in 1 .. n /\ r[k] = t[k - m]
    <3>1. SameKey(t[j - m], t[k - m])
      BY <1>5, <2>5
    <3>2. j - m = k - m
      BY <2>5, <3>1 DEF GoodTable
    <3> QED
      BY <3>2
  <2> QED
    BY <1>3, <2>2, <2>3, <2>4, <2>5
<1> QED
  BY <1>1, <1>2, <1>4, <1>5 DEF GoodTable

LEMMA TablesAre == GoodTable(TableV1, 46) /\ GoodTable(TableV2, 60)
<1>1. TableV1 = SharedTable \o RowsOfV1
  BY DEF TableV1, RowsOfV1
<1>2. TableV2 = SharedTable \o RowsOfV2
  BY DEF TableV2, RowsOfV2
<1>3. GoodTable(SharedTable \o RowsOfV1, 44 + 2)
  BY SharedRows, OwnRows, RowsApart, TablesJoin
<1>4. GoodTable(SharedTable \o RowsOfV2, 44 + 16)
  BY SharedRows, OwnRows, RowsApart, TablesJoin
<1> QED
  BY <1>1, <1>2, <1>3, <1>4

\* In each type the fields are apart, below the func, and no wider than 16 bits.
IsField(f) == f.bits \in 1 .. 16 /\ f.offset \in Nat /\ f.offset + f.bits <= 31
Apart(f, g) == f.offset + f.bits <= g.offset \/ g.offset + g.bits <= f.offset
GoodFields(fs) ==
  \A j \in DOMAIN fs :
    /\ IsField(fs[j]) /\ fs[j].offset + fs[j].bits <= 22
    /\ \A k \in DOMAIN fs : j # k => Apart(fs[j], fs[k])

LEMMA FieldsAre == \A t \in {"R", "I", "M", "J"} : GoodFields(TypeFields[t])
<1>1. GoodFields(TypeFields["R"])
  BY DEF TypeFields, GoodFields, IsField, Apart
<1>2. GoodFields(TypeFields["I"])
  BY DEF TypeFields, GoodFields, IsField, Apart
<1>3. GoodFields(TypeFields["M"])
  BY DEF TypeFields, GoodFields, IsField, Apart
<1>4. GoodFields(TypeFields["J"])
  BY DEF TypeFields, GoodFields, IsField, Apart
<1> QED
  BY <1>1, <1>2, <1>3, <1>4

LEMMA DivMod ==
  ASSUME NEW b \in Nat, b > 0, NEW q \in Int, NEW r \in 0 .. b - 1, NEW x \in Int,
         x = b * q + r
  PROVE  x \div b = q /\ x % b = r
<1>1. PICK d, e : d = x \div b /\ e = x % b
  OBVIOUS
<1>2. d \in Int /\ e \in 0 .. b - 1 /\ x = b * d + e
  BY <1>1
<1>3. b * (d - q) = r - e
  BY <1>2
<1>4. -b < r - e /\ r - e < b
  BY <1>2
<1>5. d = q
  <2>1. PICK k : k = d - q
    OBVIOUS
  <2>2. PICK m : m = b * k
    OBVIOUS
  <2>3. k \in Int /\ m \in Int /\ -b < m /\ m < b
    BY <1>2, <1>3, <1>4, <2>1, <2>2
  <2>4. CASE k >= 1
    <3>1. m >= b
      BY <2>2, <2>3, <2>4
    <3> QED
      BY <2>3, <3>1
  <2>5. CASE k <= -1
    <3>1. m <= -b
      BY <2>2, <2>3, <2>5
    <3> QED
      BY <2>3, <3>1
  <2> QED
    BY <1>2, <2>1, <2>3, <2>4, <2>5
<1> QED
  BY <1>1, <1>2, <1>5

--------------------------------------------------------------------------------
(* Numbers in fields *)

LEMMA SmallPowers == 2^0 = 1 /\ 2^1 = 2 /\ 2^2 = 4 /\ 2^3 = 8 /\ 2^4 = 16
<1>1. \A n \in 0 .. 16 : 2^(n + 1) = 2 * 2^n
  BY FieldPowersAssumption
<1>2. 2^0 = 1
  BY FieldPowersAssumption
<1>3. 2^(0 + 1) = 2 * 2^0 /\ 2^(1 + 1) = 2 * 2^1 /\ 2^(2 + 1) = 2 * 2^2 /\ 2^(3 + 1) = 2 * 2^3
  BY <1>1
<1>4. 0 + 1 = 1 /\ 1 + 1 = 2 /\ 2 + 1 = 3 /\ 3 + 1 = 4
  OBVIOUS
<1>5. 2^1 = 2 * 2^0 /\ 2^2 = 2 * 2^1 /\ 2^3 = 2 * 2^2 /\ 2^4 = 2 * 2^3
  BY <1>3, <1>4
<1> QED
  BY <1>2, <1>5

LEMMA FieldPower == ASSUME NEW k \in 0 .. 17 PROVE 2^k \in Nat /\ 2^k >= 1
<1> DEFINE good == {i \in Nat : i <= 17 => 2^i \in Nat /\ 2^i >= 1}
<1>1. 0 \in good
  BY SmallPowers
<1>2. ASSUME NEW i \in Nat, i \in good PROVE i + 1 \in good
  <2>1. CASE i + 1 <= 17
    <3>1. i \in 0 .. 16 /\ 2^i \in Nat /\ 2^i >= 1
      BY <1>2, <2>1
    <3>2. 2^(i + 1) = 2 * 2^i
      BY <3>1, FieldPowersAssumption
    <3> QED
      BY <3>1, <3>2
  <2> QED
    BY <2>1
<1>3. Nat \subseteq good
  <2> HIDE DEF good
  <2> QED
    BY <1>1, <1>2, NatInSet
<1> QED
  BY <1>3

BitIn(n, b) == (n \div 2^b) % 2 = 1

\* A remainder and the next bit.
LEMMA NextRemainder ==
  ASSUME NEW n \in Nat, NEW k \in 0 .. 16
  PROVE  /\ n % 2^k \in Nat
         /\ n % 2^(k + 1) = (n % 2^k) + (IF BitIn(n, k) THEN 2^k ELSE 0)
<1>1. PICK p, q : p = 2^k /\ q = 2^(k + 1)
  OBVIOUS
<1>2. p \in Nat /\ p >= 1 /\ q = 2 * p
  <2>1. \A i \in 0 .. 16 : 2^(i + 1) = 2 * 2^i
    BY FieldPowersAssumption
  <2>2. 2^(k + 1) = 2 * 2^k
    BY <2>1
  <2>3. k \in 0 .. 17
    OBVIOUS
  <2>4. 2^k \in Nat /\ 2^k >= 1
    BY <2>3, FieldPower
  <2> QED
    BY <1>1, <2>2, <2>4
<1>3. PICK d, r : d = n \div p /\ r = n % p
  OBVIOUS
<1>4. d \in Int /\ r \in 0 .. p - 1 /\ n = p * d + r
  BY <1>2, <1>3
<1>5. PICK e, c : e = d \div 2 /\ c = d % 2
  OBVIOUS
<1>6. e \in Int /\ c \in {0, 1} /\ d = 2 * e + c
  BY <1>4, <1>5
<1>7. PICK s : s = (IF c = 1 THEN p ELSE 0) + r
  OBVIOUS
<1>8. q \in Nat /\ q > 0 /\ s \in 0 .. q - 1 /\ n = q * e + s
  <2>1. p * d = 2 * (p * e) + p * c
    BY <1>2, <1>4, <1>6
  <2>2. p * c = IF c = 1 THEN p ELSE 0
    BY <1>2, <1>6
  <2>3. q * e = 2 * (p * e) /\ p * e \in Int
    BY <1>2, <1>6
  <2> QED
    BY <1>2, <1>4, <1>6, <1>7, <2>1, <2>2, <2>3
<1>9. n % q = s
  BY <1>6, <1>8, DivMod
<1>10. BitIn(n, k) <=> c = 1
  BY <1>1, <1>3, <1>5 DEF BitIn
<1> QED
  BY <1>1, <1>2, <1>3, <1>4, <1>7, <1>9, <1>10

\* The function NumberOf is defined with.
Counts(f, w) ==
  f = [b \in 0 .. 17 |->
         IF b = 0 THEN 0 ELSE f[b - 1] + (IF b - 1 \in w THEN 2^(b - 1) ELSE 0)]

LEMMA NumberCounts ==
  ASSUME NEW w, NEW g, Counts(g, w)
  PROVE  \E f : Counts(f, w) /\ NumberOf(w) = f[17]
<1>1. PICK f : f = CHOOSE h : Counts(h, w)
  OBVIOUS
<1>2. Counts(f, w)
  BY <1>1, Zenon
<1>3. NumberOf(w) = f[17]
  BY <1>1, Zenon DEF NumberOf, Counts
<1> QED
  BY <1>2, <1>3

\* The low bits of n are the number n has in a field.
LEMMA FieldNumber ==
  ASSUME NEW n \in Nat, NEW bits \in 1 .. 16, NEW w,
         \A b \in 0 .. 16 : b \in w <=> b < bits /\ BitIn(n, b)
  PROVE  NumberOf(w) = n % 2^bits
<1> DEFINE g == [b \in 0 .. 17 |-> n % 2^(IF b <= bits THEN b ELSE bits)]
<1>1. ASSUME NEW b \in 0 .. 17
      PROVE  g[b] = IF b = 0 THEN 0 ELSE g[b - 1] + (IF b - 1 \in w THEN 2^(b - 1) ELSE 0)
  <2>1. CASE b = 0
    <3>1. g[b] = n % 1
      BY <2>1, SmallPowers
    <3> QED
      BY <2>1, <3>1
  <2>2. CASE b # 0
    <3>1. PICK c : c = b - 1
      OBVIOUS
    <3>2. c \in 0 .. 16 /\ c \in 0 .. 17 /\ b = c + 1 /\ b - 1 = c
      BY <2>2, <3>1
    <3>3. c \in w <=> c < bits /\ BitIn(n, c)
      BY <3>2
    <3>4. CASE c < bits
      <4>1. g[b] = n % 2^(c + 1) /\ g[c] = n % 2^c
        BY <3>2, <3>4
      <4>2. n % 2^(c + 1) = (n % 2^c) + (IF BitIn(n, c) THEN 2^c ELSE 0)
        BY <3>2, NextRemainder
      <4> HIDE DEF g
      <4> QED
        BY <2>2, <3>2, <3>3, <3>4, <4>1, <4>2
    <3>5. CASE ~ (c < bits)
      <4>1. g[b] = n % 2^bits /\ g[c] = n % 2^bits
        BY <3>2, <3>5
      <4>2. n % 2^bits \in Nat
        <5>1. bits \in 0 .. 16
          OBVIOUS
        <5> QED
          BY <5>1, NextRemainder
      <4>3. g[b] = g[c] + 0
        BY <4>1, <4>2
      <4> HIDE DEF g
      <4> QED
        BY <2>2, <3>2, <3>3, <3>5, <4>3
    <3> QED
      BY <3>4, <3>5
  <2> QED
    BY <2>1, <2>2
<1>2. g = [b \in 0 .. 17 |-> g[b]]
  OBVIOUS
<1>3. g[0] = 0 /\ \A b \in 1 .. 17 : g[b] = g[b - 1] + (IF b - 1 \in w THEN 2^(b - 1) ELSE 0)
  BY <1>1
<1>4. g[17] = n % 2^bits
  OBVIOUS
<1> HIDE DEF g
<1>5. Counts(g, w)
  BY <1>1, <1>2 DEF Counts
<1>6. PICK f : Counts(f, w) /\ NumberOf(w) = f[17]
  BY <1>5, NumberCounts
<1>7. \A b \in 0 .. 17 : f[b] = IF b = 0 THEN 0 ELSE f[b - 1] + (IF b - 1 \in w THEN 2^(b - 1) ELSE 0)
  BY <1>6 DEF Counts
<1> DEFINE good == {i \in Nat : i <= 17 => f[i] = g[i]}
<1>8. 0 \in good
  BY <1>3, <1>7
<1>9. ASSUME NEW i \in Nat, i \in good PROVE i + 1 \in good
  <2>1. CASE i + 1 <= 17
    <3>1. i + 1 \in 0 .. 17 /\ i + 1 \in 1 .. 17 /\ (i + 1) - 1 = i /\ i + 1 # 0 /\ f[i] = g[i]
      BY <1>9, <2>1
    <3> QED
      BY <1>3, <1>7, <3>1
  <2> QED
    BY <2>1
<1>10. Nat \subseteq good
  <2> HIDE DEF good
  <2> QED
    BY <1>8, <1>9, NatInSet
<1>11. f[17] = g[17]
  BY <1>10
<1> QED
  BY <1>4, <1>6, <1>11

--------------------------------------------------------------------------------
(* Instructions as words *)

LEMMA PutHas ==
  ASSUME NEW n, NEW bits \in 1 .. 16, NEW offset \in Nat, offset + bits <= 31, NEW x
  PROVE  x \in Put(n, bits, offset) <=> x \in offset .. offset + bits - 1 /\ BitIn(n, x - offset)
<1>1. PICK s : s = {b \in BitsOf(n) : b < bits}
  OBVIOUS
<1>2. \A b : b \in s <=> b \in 0 .. bits - 1 /\ BitIn(n, b)
  BY <1>1 DEF BitsOf, Bits, BitIn
<1>3. Put(n, bits, offset) = {b + offset : b \in s} \cap (0 .. 31)
  BY <1>1 DEF Put, Shl, Bits
<1>4. ASSUME x \in Put(n, bits, offset)
      PROVE  x \in offset .. offset + bits - 1 /\ BitIn(n, x - offset)
  <2>1. PICK b \in s : x = b + offset
    BY <1>3, <1>4
  <2>2. b \in 0 .. bits - 1 /\ BitIn(n, b)
    BY <1>2
  <2>3. x - offset = b /\ x \in offset .. offset + bits - 1
    BY <2>1, <2>2
  <2> QED
    BY <2>2, <2>3
<1>5. ASSUME x \in offset .. offset + bits - 1, BitIn(n, x - offset)
      PROVE  x \in Put(n, bits, offset)
  <2>1. PICK b : b = x - offset
    OBVIOUS
  <2>2. b \in 0 .. bits - 1 /\ x = b + offset /\ x \in 0 .. 31
    BY <1>5, <2>1
  <2>3. b \in s
    BY <1>2, <1>5, <2>1, <2>2
  <2> QED
    BY <1>3, <2>2, <2>3
<1> QED
  BY <1>4, <1>5

\* The bits of a field are the low ones of n.
Holds(w, n, f) == \A b \in 0 .. f.bits - 1 : f.offset + b \in w <=> BitIn(n, b)

LEMMA GetField ==
  ASSUME NEW w \in SUBSET Bits, NEW n \in Nat, NEW f, IsField(f), Holds(w, n, f)
  PROVE  Get(w, f.bits, f.offset) = n % 2^(f.bits)
<1>1. PICK bits, offset : bits = f.bits /\ offset = f.offset
  OBVIOUS
<1>2. bits \in 1 .. 16 /\ offset \in Nat
  BY <1>1 DEF IsField
<1>3. PICK s : s = {b \in Shr(w, offset) : b < bits}
  OBVIOUS
<1>4. w \in SUBSET Nat
  BY DEF Bits
<1>5. ASSUME NEW b \in 0 .. 16 PROVE b \in s <=> b < bits /\ BitIn(n, b)
  <2>1. b \in Shr(w, offset) <=> b \in Nat /\ b + offset \in w
    BY <1>2, <1>4, ShrHas
  <2>2. b + offset = offset + b
    BY <1>2
  <2>3. b < bits => (offset + b \in w <=> BitIn(n, b))
    <3>1. b < bits => b \in 0 .. bits - 1
      BY <1>2
    <3> QED
      BY <1>1, <3>1 DEF Holds
  <2> QED
    BY <1>3, <2>1, <2>2, <2>3
<1>6. NumberOf(s) = n % 2^bits
  BY <1>2, <1>5, FieldNumber
<1> QED
  BY <1>1, <1>3, <1>6 DEF Get

HasHead(w, r) ==
  /\ Holds(w, TypeCode[r[2]], TypeField)
  /\ Holds(w, r[3], OpcodeField)
  /\ Holds(w, r[4], FuncField)

LEMMA HeadFields ==
  /\ TypeField.bits = 2 /\ TypeField.offset = 29
  /\ OpcodeField.bits = 4 /\ OpcodeField.offset = 25
  /\ FuncField.bits = 3 /\ FuncField.offset = 22
  BY DEF TypeField, OpcodeField, FuncField

LEMMA TypeCodes ==
  /\ \A t \in {"R", "I", "M", "J"} : TypeCode[t] \in 0 .. 3
  /\ \A t, u \in {"R", "I", "M", "J"} : TypeCode[t] = TypeCode[u] => t = u
  BY DEF TypeCode

LEMMA HeadRead ==
  ASSUME NEW w \in SUBSET Bits, NEW r, GoodRow(r), HasHead(w, r)
  PROVE  /\ Get(w, TypeField.bits, TypeField.offset) = TypeCode[r[2]]
         /\ Get(w, OpcodeField.bits, OpcodeField.offset) = r[3]
         /\ Get(w, FuncField.bits, FuncField.offset) = r[4]
<1>1. IsField(TypeField) /\ IsField(OpcodeField) /\ IsField(FuncField)
  BY HeadFields DEF IsField
<1>2. TypeCode[r[2]] \in 0 .. 3 /\ r[3] \in 0 .. 15 /\ r[4] \in 0 .. 7
  BY TypeCodes DEF GoodRow
<1>3. PICK t, o, f : t = TypeCode[r[2]] /\ o = r[3] /\ f = r[4]
  OBVIOUS
<1>4. t \in Nat /\ o \in Nat /\ f \in Nat /\ t \in 0 .. 3 /\ o \in 0 .. 15 /\ f \in 0 .. 7
  BY <1>2, <1>3
<1>5. Holds(w, t, TypeField) /\ Holds(w, o, OpcodeField) /\ Holds(w, f, FuncField)
  BY <1>3 DEF HasHead
<1>6. Get(w, TypeField.bits, TypeField.offset) = t % 2^(TypeField.bits)
  BY <1>1, <1>4, <1>5, GetField
<1>7. Get(w, OpcodeField.bits, OpcodeField.offset) = o % 2^(OpcodeField.bits)
  BY <1>1, <1>4, <1>5, GetField
<1>8. Get(w, FuncField.bits, FuncField.offset) = f % 2^(FuncField.bits)
  BY <1>1, <1>4, <1>5, GetField
<1>9. t % 4 = t /\ o % 16 = o /\ f % 8 = f
  BY <1>4
<1> QED
  BY <1>3, <1>6, <1>7, <1>8, <1>9, HeadFields, SmallPowers

LEMMA EncodingHas ==
  ASSUME NEW r, GoodRow(r)
  PROVE  EncodingOf(r) \in SUBSET (22 .. 30) /\ HasHead(EncodingOf(r), r)
<1>1. PICK t, o, f : t = TypeCode[r[2]] /\ o = r[3] /\ f = r[4]
  OBVIOUS
<1>2. PICK w : w = EncodingOf(r)
  OBVIOUS
<1>3. ASSUME NEW x
      PROVE  x \in w <=> \/ x \in 22 .. 24 /\ BitIn(f, x - 22)
                         \/ x \in 25 .. 28 /\ BitIn(o, x - 25)
                         \/ x \in 29 .. 30 /\ BitIn(t, x - 29)
  <2>1. x \in w <=> \/ x \in Put(f, 3, 22) \/ x \in Put(o, 4, 25) \/ x \in Put(t, 2, 29)
    BY <1>1, <1>2, HeadFields DEF EncodingOf, InstrEncode
  <2>0. /\ 3 \in 1 .. 16 /\ 22 \in Nat /\ 22 + 3 <= 31
        /\ 4 \in 1 .. 16 /\ 25 \in Nat /\ 25 + 4 <= 31
        /\ 2 \in 1 .. 16 /\ 29 \in Nat /\ 29 + 2 <= 31
    OBVIOUS
  <2>2. x \in Put(f, 3, 22) <=> x \in 22 .. 22 + 3 - 1 /\ BitIn(f, x - 22)
    BY <2>0, PutHas, Zenon
  <2>3. x \in Put(o, 4, 25) <=> x \in 25 .. 25 + 4 - 1 /\ BitIn(o, x - 25)
    BY <2>0, PutHas, Zenon
  <2>4. x \in Put(t, 2, 29) <=> x \in 29 .. 29 + 2 - 1 /\ BitIn(t, x - 29)
    BY <2>0, PutHas, Zenon
  <2> QED
    BY <2>1, <2>2, <2>3, <2>4
<1>4. w \in SUBSET (22 .. 30)
  BY <1>3
<1>5. Holds(w, t, TypeField)
  <2>1. ASSUME NEW b \in 0 .. 1 PROVE 29 + b \in w <=> BitIn(t, b)
    <3>1. (29 + b) - 29 = b /\ 29 + b \in 29 .. 30 /\ 29 + b \notin 22 .. 24 /\ 29 + b \notin 25 .. 28
      OBVIOUS
    <3> QED
      BY <1>3, <3>1
  <2> QED
    BY <2>1, HeadFields DEF Holds
<1>6. Holds(w, o, OpcodeField)
  <2>1. ASSUME NEW b \in 0 .. 3 PROVE 25 + b \in w <=> BitIn(o, b)
    <3>1. (25 + b) - 25 = b /\ 25 + b \notin 29 .. 30 /\ 25 + b \notin 22 .. 24 /\ 25 + b \in 25 .. 28
      OBVIOUS
    <3> QED
      BY <1>3, <3>1
  <2> QED
    BY <2>1, HeadFields DEF Holds
<1>7. Holds(w, f, FuncField)
  <2>1. ASSUME NEW b \in 0 .. 2 PROVE 22 + b \in w <=> BitIn(f, b)
    <3>1. (22 + b) - 22 = b /\ 22 + b \notin 29 .. 30 /\ 22 + b \in 22 .. 24 /\ 22 + b \notin 25 .. 28
      OBVIOUS
    <3> QED
      BY <1>3, <3>1
  <2> QED
    BY <2>1, HeadFields DEF Holds
<1> QED
  BY <1>1, <1>2, <1>4, <1>5, <1>6, <1>7 DEF HasHead

\* No two rows of a table share an encoding.
LEMMA EncodingsDiffer ==
  ASSUME NEW r, NEW s, GoodRow(r), GoodRow(s), EncodingOf(r) = EncodingOf(s)
  PROVE  SameKey(r, s)
<1>1. PICK w : w = EncodingOf(r)
  OBVIOUS
<1>2. w \in SUBSET Bits /\ HasHead(w, r) /\ HasHead(w, s)
  BY <1>1, EncodingHas DEF Bits
<1>3. TypeCode[r[2]] = TypeCode[s[2]] /\ r[3] = s[3] /\ r[4] = s[4]
  BY <1>2, HeadRead
<1> QED
  BY <1>3, TypeCodes DEF SameKey, GoodRow

LEMMA FactoryHas ==
  ASSUME NEW t, NEW n \in Nat, GoodTable(t, n), NEW k \in 1 .. n
  PROVE  /\ EncodingOf(t[k]) \in DOMAIN Register(t)
         /\ Register(t)[EncodingOf(t[k])] = t[k]
<1>1. PICK e : e = EncodingOf(t[k])
  OBVIOUS
<1>2. DOMAIN t = 1 .. n
  BY DEF GoodTable, IsSequence
<1>3. {j \in DOMAIN t : EncodingOf(t[j]) = e} = {k}
  <2>1. ASSUME NEW j \in 1 .. n, EncodingOf(t[j]) = e PROVE j = k
    <3>1. GoodRow(t[j]) /\ GoodRow(t[k])
      BY DEF GoodTable
    <3>2. SameKey(t[j], t[k])
      BY <1>1, <2>1, <3>1, EncodingsDiffer
    <3> QED
      BY <3>2 DEF GoodTable
  <2> QED
    BY <1>1, <1>2, <2>1
<1>4. Max({k}) = k
  <2>1. k \in {k} /\ \A y \in {k} : k >= y
    OBVIOUS
  <2>2. \A x \in {k} : (\A y \in {k} : x >= y) => x = k
    OBVIOUS
  <2> QED
    BY <2>1, <2>2 DEF Max
<1>5. PICK keys : keys = {EncodingOf(t[j]) : j \in DOMAIN t}
  OBVIOUS
<1>6. Register(t) = [d \in keys |-> t[Max({j \in DOMAIN t : EncodingOf(t[j]) = d})]]
  BY <1>5, Zenon DEF Register
<1>7. e \in keys
  BY <1>1, <1>2, <1>5
<1>8. Register(t)[e] = t[Max({j \in DOMAIN t : EncodingOf(t[j]) = e})]
  BY <1>6, <1>7, Zenon
<1>9. e \in DOMAIN Register(t)
  BY <1>6, <1>7
<1> QED
  BY <1>1, <1>3, <1>4, <1>8, <1>9

\* The word before its parity.
Body(i) ==
  EncodingOf(i.row)
    \cup UNION {Put(i.args[k], Fields(i.row[2])[k].bits, Fields(i.row[2])[k].offset) :
                  k \in DOMAIN i.args}

LEMMA AssembleIs ==
  ASSUME NEW i, NEW p
  PROVE  Assemble(p, i) = IF ComputeParity(p, Body(i)) THEN Body(i) \cup {ParityOffset} ELSE Body(i)
  BY Zenon DEF Assemble, Body

LEMMA BodyHas ==
  ASSUME NEW i, NEW r, NEW a, i.row = r, i.args = a, GoodRow(r),
         NEW fs, fs = Fields(r[2]), DOMAIN a = DOMAIN fs
  PROVE  /\ Body(i) \in SUBSET (0 .. 30)
         /\ \A x \in 22 .. 30 : x \in Body(i) <=> x \in EncodingOf(r)
         /\ \A k \in DOMAIN fs : Holds(Body(i), a[k], fs[k])
<1>1. GoodFields(fs)
  BY FieldsAre DEF GoodRow, Fields
<1>2. PICK w, h : w = Body(i) /\ h = EncodingOf(r)
  OBVIOUS
<1>3. h \in SUBSET (22 .. 30)
  BY <1>2, EncodingHas
<1>4. ASSUME NEW k \in DOMAIN fs
      PROVE  fs[k].bits \in 1 .. 16 /\ fs[k].offset \in Nat /\ fs[k].offset + fs[k].bits <= 22
  BY <1>1 DEF GoodFields, IsField
<1>5. ASSUME NEW x
      PROVE  x \in w <=> \/ x \in h
                         \/ \E k \in DOMAIN fs : /\ x \in fs[k].offset .. fs[k].offset + fs[k].bits - 1
                                                 /\ BitIn(a[k], x - fs[k].offset)
  <2>1. ASSUME NEW k \in DOMAIN fs
        PROVE  x \in Put(a[k], fs[k].bits, fs[k].offset)
                 <=> x \in fs[k].offset .. fs[k].offset + fs[k].bits - 1 /\ BitIn(a[k], x - fs[k].offset)
    <3>1. fs[k].bits \in 1 .. 16 /\ fs[k].offset \in Nat /\ fs[k].offset + fs[k].bits <= 31
      BY <1>4
    <3> QED
      BY <3>1, PutHas
  <2>2. w = h \cup UNION {Put(a[k], fs[k].bits, fs[k].offset) : k \in DOMAIN fs}
    BY <1>2, Zenon DEF Body
  <2>3. x \in w <=> \/ x \in h
                    \/ \E k \in DOMAIN fs : x \in Put(a[k], fs[k].bits, fs[k].offset)
    BY <2>2, Zenon
  <2> QED
    BY <2>1, <2>3
<1>6. w \in SUBSET (0 .. 30)
  <2>1. ASSUME NEW x \in w PROVE x \in 0 .. 30
    <3>1. CASE x \in h
      BY <1>3, <3>1
    <3>2. ASSUME NEW k \in DOMAIN fs, x \in fs[k].offset .. fs[k].offset + fs[k].bits - 1
          PROVE  x \in 0 .. 30
      BY <1>4, <3>2
    <3> QED
      BY <1>5, <3>1, <3>2
  <2> QED
    BY <2>1
<1>7. ASSUME NEW x \in 22 .. 30 PROVE x \in w <=> x \in h
  BY <1>4, <1>5
<1>8. ASSUME NEW k \in DOMAIN fs PROVE Holds(w, a[k], fs[k])
  <2>1. PICK n, o : n = fs[k].bits /\ o = fs[k].offset
    OBVIOUS
  <2>2. n \in 1 .. 16 /\ o \in Nat /\ o + n <= 22
    BY <1>4, <2>1
  <2>3. ASSUME NEW b \in 0 .. n - 1 PROVE o + b \in w <=> BitIn(a[k], b)
    <3>1. PICK x : x = o + b
      OBVIOUS
    <3>2. x \in o .. o + n - 1 /\ x - o = b /\ x \notin h
      BY <1>3, <2>2, <3>1
    <3>3. ASSUME NEW j \in DOMAIN fs, x \in fs[j].offset .. fs[j].offset + fs[j].bits - 1
          PROVE  j = k
      <4>1. j # k => Apart(fs[j], fs[k])
        BY <1>1 DEF GoodFields
      <4>2. fs[j].bits \in 1 .. 16 /\ fs[j].offset \in Nat
        BY <1>4
      <4> QED
        BY <2>1, <2>2, <3>2, <3>3, <4>1, <4>2 DEF Apart
    <3> QED
      BY <1>5, <2>1, <3>1, <3>2, <3>3
  <2> QED
    BY <2>1, <2>3 DEF Holds
<1> QED
  BY <1>2, <1>6, <1>7, <1>8

\* The operands a row may have, and of them those it is given.
ValuesOf(row) == [R |-> <<Operands, Operands, Operands>>, I |-> <<Operands, Operands, Immediates>>,
                  M |-> <<Operands, Addresses>>, J |-> <<Addresses>>][row[2]]
GivenOf(row) ==
  [k \in DOMAIN ValuesOf(row) |-> IF SubSeq(row[5], k, k) = "1" THEN ValuesOf(row)[k] ELSE {0}]

LEMMA PairOf ==
  ASSUME NEW S, NEW T, NEW v, v = <<S, T>>, S \in SUBSET Nat, T \in SUBSET Nat
  PROVE  DOMAIN v = 1 .. 2 /\ \A k \in 1 .. 2 : v[k] \in SUBSET Nat
<1>1. DOMAIN v = 1 .. 2 /\ v[1] = S /\ v[2] = T
  OBVIOUS
<1>2. ASSUME NEW k \in 1 .. 2 PROVE k = 1 \/ k = 2
  OBVIOUS
<1> QED
  BY <1>1, <1>2, Zenon

LEMMA OneOf ==
  ASSUME NEW S, NEW v, v = <<S>>, S \in SUBSET Nat
  PROVE  DOMAIN v = 1 .. 1 /\ \A k \in 1 .. 1 : v[k] \in SUBSET Nat
<1>1. DOMAIN v = 1 .. 1 /\ v[1] = S
  OBVIOUS
<1>2. ASSUME NEW k \in 1 .. 1 PROVE k = 1
  OBVIOUS
<1> QED
  BY <1>1, <1>2, Zenon

LEMMA ArgsAre ==
  ASSUME NEW r, GoodRow(r), NEW a \in ArgsOf(r)
  PROVE  DOMAIN a = DOMAIN Fields(r[2]) /\ \A k \in DOMAIN a : a[k] \in Nat
<1>1. /\ Operands \in SUBSET Nat /\ Immediates \in SUBSET Nat /\ Addresses \in SUBSET Nat
  BY WordAssumption
<1>2. PICK values :
        /\ values = ValuesOf(r)
        /\ values = [R |-> <<Operands, Operands, Operands>>, I |-> <<Operands, Operands, Immediates>>,
                     M |-> <<Operands, Addresses>>, J |-> <<Addresses>>][r[2]]
  BY Zenon DEF ValuesOf
<1>3. PICK taken :
        /\ taken = GivenOf(r)
        /\ taken = [k \in DOMAIN values |-> IF SubSeq(r[5], k, k) = "1" THEN values[k] ELSE {0}]
  BY <1>2, Zenon DEF GivenOf
<1>4. /\ a \in [DOMAIN values -> UNION {taken[k] : k \in DOMAIN taken}]
      /\ \A k \in DOMAIN a : a[k] \in taken[k]
  <2>1. ArgsOf(r) = {b \in [DOMAIN ValuesOf(r) -> UNION {GivenOf(r)[k] : k \in DOMAIN GivenOf(r)}] :
                       \A k \in DOMAIN b : b[k] \in GivenOf(r)[k]}
    BY Zenon DEF ArgsOf, ValuesOf, GivenOf
  <2>2. a \in {b \in [DOMAIN ValuesOf(r) -> UNION {GivenOf(r)[k] : k \in DOMAIN GivenOf(r)}] :
                \A k \in DOMAIN b : b[k] \in GivenOf(r)[k]}
    BY <2>1, Zenon
  <2>3. /\ a \in [DOMAIN ValuesOf(r) -> UNION {GivenOf(r)[k] : k \in DOMAIN GivenOf(r)}]
        /\ \A k \in DOMAIN a : a[k] \in GivenOf(r)[k]
    BY <2>2, Zenon
  <2>4. values = ValuesOf(r)
    BY <1>2
  <2>5. taken = GivenOf(r)
    BY <1>3
  <2> QED
    BY <2>3, <2>4, <2>5, Zenon
<1>5. DOMAIN values = DOMAIN TypeFields[r[2]] /\ \A k \in DOMAIN values : values[k] \in SUBSET Nat
  <2>1. CASE r[2] = "R"
    <3>1. values = <<Operands, Operands, Operands>>
      BY <1>2, <2>1
    <3>2. DOMAIN values = 1 .. 3 /\ \A k \in 1 .. 3 : values[k] \in SUBSET Nat
      BY <1>1, <3>1
    <3>3. DOMAIN TypeFields["R"] = 1 .. 3
      BY DEF TypeFields
    <3> QED
      BY <2>1, <3>2, <3>3
  <2>2. CASE r[2] = "I"
    <3>1. values = <<Operands, Operands, Immediates>>
      BY <1>2, <2>2
    <3>2. DOMAIN values = 1 .. 3 /\ \A k \in 1 .. 3 : values[k] \in SUBSET Nat
      BY <1>1, <3>1
    <3>3. DOMAIN TypeFields["I"] = 1 .. 3
      BY DEF TypeFields
    <3> QED
      BY <2>2, <3>2, <3>3
  <2>3. CASE r[2] = "M"
    <3>1. values = <<Operands, Addresses>>
      BY <1>2, <2>3
    <3>2. DOMAIN values = 1 .. 2 /\ \A k \in 1 .. 2 : values[k] \in SUBSET Nat
      BY <1>1, <3>1, PairOf
    <3>3. DOMAIN TypeFields["M"] = 1 .. 2
      BY DEF TypeFields
    <3> QED
      BY <2>3, <3>2, <3>3
  <2>4. CASE r[2] = "J"
    <3>1. values = <<Addresses>>
      BY <1>2, <2>4
    <3>2. DOMAIN values = 1 .. 1 /\ \A k \in 1 .. 1 : values[k] \in SUBSET Nat
      BY <1>1, <3>1, OneOf
    <3>3. DOMAIN TypeFields["J"] = 1 .. 1
      BY DEF TypeFields
    <3> QED
      BY <2>4, <3>2, <3>3
  <2> QED
    BY <2>1, <2>2, <2>3, <2>4 DEF GoodRow
<1>6. DOMAIN a = DOMAIN values
  BY <1>4
<1>7. ASSUME NEW k \in DOMAIN a PROVE a[k] \in Nat
  <2>1. taken[k] \in SUBSET Nat
    BY <1>3, <1>5, <1>6
  <2> QED
    BY <1>4, <2>1
<1> QED
  BY <1>5, <1>6, <1>7 DEF Fields

\* The table of the version, of n rows.
LEMMA RowsAre == ASSUME isa \in {1, 2} PROVE \E n \in Nat : GoodTable(Rows, n) /\ Factory[isa] = Register(Rows)
<1>1. CASE isa = 1
  BY <1>1, TablesAre DEF Rows, Factory
<1>2. CASE isa = 2
  BY <1>2, TablesAre DEF Rows, Factory
<1> QED
  BY <1>1, <1>2

Given(i) == \E k \in DOMAIN Rows : \E a \in ArgsOf(Rows[k]) : i = [row |-> Rows[k], args |-> a]

LEMMA AssembledIs ==
  ASSUME isa \in {1, 2}, NEW i, Given(i), NEW p \in ParityTypes
  PROVE  /\ Assemble(p, i) \in SUBSET Bits
         /\ CheckParity(p, Assemble(p, i))
<1>1. PICK n \in Nat : GoodTable(Rows, n)
  BY RowsAre
<1>0. PICK k \in DOMAIN Rows : \E a \in ArgsOf(Rows[k]) : i = [row |-> Rows[k], args |-> a]
  BY DEF Given
<1>2. PICK a \in ArgsOf(Rows[k]) : i = [row |-> Rows[k], args |-> a]
  BY <1>0
<1>3. PICK r : r = Rows[k]
  OBVIOUS
<1>4. GoodRow(r)
  BY <1>1, <1>2, <1>3 DEF GoodTable, IsSequence
<1>5. DOMAIN a = DOMAIN Fields(r[2])
  BY <1>3, <1>4, ArgsAre
<1>6. Body(i) \in SUBSET (0 .. 30)
  <2>1. i.row = r /\ i.args = a
    BY <1>2, <1>3
  <2> QED
    BY <1>4, <1>5, <2>1, BodyHas
<1>7. Assemble(p, i) = IF ComputeParity(p, Body(i)) THEN Body(i) \cup {ParityOffset} ELSE Body(i)
  BY AssembleIs
<1>8. CheckParity(p, Assemble(p, i))
  BY <1>6, <1>7, ParityComputed
<1> QED
  BY <1>6, <1>7, <1>8 DEF Bits, ParityOffset

LEMMA AssembledRead ==
  ASSUME isa \in {1, 2}, NEW i, Given(i), NEW p \in ParityTypes, NEW q \in {p, "NONE"}
  PROVE  DisAssemble(isa, q, Assemble(p, i)) = Held(i)
<1>1. PICK n \in Nat : GoodTable(Rows, n) /\ Factory[isa] = Register(Rows)
  BY RowsAre
<1>0. PICK k \in DOMAIN Rows : \E a \in ArgsOf(Rows[k]) : i = [row |-> Rows[k], args |-> a]
  BY DEF Given
<1>2. PICK a \in ArgsOf(Rows[k]) : i = [row |-> Rows[k], args |-> a]
  BY <1>0
<1>3. PICK r, fs : r = Rows[k] /\ fs = Fields(r[2])
  OBVIOUS
<1>4. GoodRow(r) /\ k \in 1 .. n
  BY <1>1, <1>2, <1>3 DEF GoodTable, IsSequence
<1>5. DOMAIN a = DOMAIN fs /\ \A j \in DOMAIN a : a[j] \in Nat
  BY <1>3, <1>4, ArgsAre
<1>6. PICK b, w, h : b = Body(i) /\ w = Assemble(p, i) /\ h = EncodingOf(r)
  OBVIOUS
<1>7. /\ b \in SUBSET (0 .. 30) /\ \A x \in 22 .. 30 : x \in b <=> x \in h
      /\ \A j \in DOMAIN fs : Holds(b, a[j], fs[j])
  <2>1. i.row = r /\ i.args = a
    BY <1>2, <1>3
  <2> QED
    BY <1>3, <1>4, <1>5, <1>6, <2>1, BodyHas
<1>8. w = IF ComputeParity(p, b) THEN b \cup {31} ELSE b
  BY <1>6, AssembleIs DEF ParityOffset
<1>9. w \in SUBSET Bits /\ CheckParity(q, w)
  <2>1. w \in SUBSET Bits /\ CheckParity(p, w)
    BY <1>6, AssembledIs
  <2> QED
    BY <2>1 DEF CheckParity
<1>10. \A x \in 0 .. 30 : x \in w <=> x \in b
  BY <1>8
<1>11. HasHead(w, r)
  <2>1. HasHead(h, r)
    BY <1>4, <1>6, EncodingHas
  <2>2. \A x \in 22 .. 30 : x \in w <=> x \in h
    BY <1>7, <1>10
  <2>3. ASSUME NEW f, NEW m, f.offset \in 22 .. 30, f.bits \in 1 .. 16, f.offset + f.bits <= 31,
               Holds(h, m, f)
        PROVE  Holds(w, m, f)
    BY <2>2, <2>3 DEF Holds
  <2> QED
    BY <2>1, <2>3, HeadFields DEF HasHead
<1>12. /\ Get(w, TypeField.bits, TypeField.offset) = TypeCode[r[2]]
       /\ Get(w, OpcodeField.bits, OpcodeField.offset) = r[3]
       /\ Get(w, FuncField.bits, FuncField.offset) = r[4]
  BY <1>4, <1>9, <1>11, HeadRead
<1>13. InstrEncode(Get(w, TypeField.bits, TypeField.offset),
                   Get(w, OpcodeField.bits, OpcodeField.offset),
                   Get(w, FuncField.bits, FuncField.offset)) = h
  BY <1>6, <1>12, Zenon DEF EncodingOf
<1>14. h \in DOMAIN Factory[isa] /\ Factory[isa][h] = r
  BY <1>1, <1>3, <1>4, <1>6, FactoryHas
<1>15. ASSUME NEW j \in DOMAIN fs
       PROVE  Get(w, fs[j].bits, fs[j].offset) = a[j] % 2^(fs[j].bits)
  <2>1. IsField(fs[j]) /\ fs[j].offset + fs[j].bits <= 22
    BY <1>3, <1>4, FieldsAre DEF GoodFields, Fields, GoodRow
  <2>2. Holds(w, a[j], fs[j])
    BY <1>7, <1>10, <2>1 DEF Holds, IsField
  <2>3. a[j] \in Nat
    BY <1>5
  <2> QED
    BY <1>9, <2>1, <2>2, <2>3, GetField
<1>16. DisAssemble(isa, q, w)
         = [row |-> r, args |-> [j \in DOMAIN fs |-> Get(w, fs[j].bits, fs[j].offset)]]
  BY <1>3, <1>9, <1>13, <1>14, Zenon DEF DisAssemble
<1>17. Held(i) = [row |-> r, args |-> [j \in DOMAIN a |-> a[j] % 2^(fs[j].bits)]]
  BY <1>2, <1>3 DEF Held
<1>18. [j \in DOMAIN fs |-> Get(w, fs[j].bits, fs[j].offset)] = [j \in DOMAIN a |-> a[j] % 2^(fs[j].bits)]
  BY <1>5, <1>15
<1> QED
  BY <1>6, <1>16, <1>17, <1>18

\* The word is the one that was assembled, with one bit wrong if it was flipped, and what
\* was decoded is what a core of some parity reads of it.
WordInv ==
  /\ isa \in {1, 2} /\ parity \in ParityTypes /\ flipped \in BOOLEAN
  /\ (decoded # <<>> \/ flipped) => instr # NoInstruction
  /\ instr # NoInstruction =>
       /\ Given(instr)
       /\ ~flipped => word = Assemble(parity, instr)
       /\ flipped => \E b \in Bits : word = Xor(Assemble(parity, instr), {b})
  /\ decoded # <<>> => \E p \in ParityTypes : decoded = <<p, DisAssemble(isa, p, word)>>

LEMMA WordStart == ASSUME Init PROVE WordInv
  BY DEF Init, WordInv

LEMMA WordStutters == ASSUME WordInv, UNCHANGED vars PROVE WordInv'
<1>1. UNCHANGED <<isa, instr, parity, word, flipped, decoded>>
  BY DEF vars
<1> QED
  BY <1>1 DEF WordInv, Given, Rows

LEMMA AssembleOneKeeps == ASSUME WordInv, AssembleOne PROVE WordInv'
<1>1. /\ instr = NoInstruction /\ word' = Assemble(parity, instr')
      /\ UNCHANGED <<isa, parity, flipped, decoded>>
      /\ \E k \in DOMAIN Rows : \E a \in ArgsOf(Rows[k]) : instr' = [row |-> Rows[k], args |-> a]
  BY DEF AssembleOne
<1>2. Rows' = Rows
  BY <1>1 DEF Rows
<1>3. Given(instr)'
  BY <1>1, <1>2 DEF Given
<1>4. ~flipped' /\ decoded' = <<>>
  BY <1>1 DEF WordInv
<1> QED
  BY <1>1, <1>3, <1>4 DEF WordInv

LEMMA FlipBitKeeps == ASSUME WordInv, FlipBit PROVE WordInv'
<1>1. /\ instr # NoInstruction /\ ~flipped /\ decoded = <<>>
      /\ \E b \in Bits : word' = Xor(word, {b})
      /\ flipped' /\ UNCHANGED <<isa, instr, parity, decoded>>
  BY DEF FlipBit
<1>2. PICK b \in Bits : word' = Xor(word, {b})
  BY <1>1
<1>3. Given(instr) /\ word = Assemble(parity, instr)
  BY <1>1 DEF WordInv
<1>4. Given(instr)'
  BY <1>1, <1>3 DEF Given, Rows
<1>5. word' = Xor(Assemble(parity, instr), {b})'
  BY <1>1, <1>2, <1>3
<1> QED
  BY <1>1, <1>4, <1>5 DEF WordInv

LEMMA FetchOneKeeps == ASSUME WordInv, FetchOne PROVE WordInv'
<1>1. /\ instr # NoInstruction
      /\ \E p \in ParityTypes : decoded' = <<p, DisAssemble(isa, p, word)>>
      /\ UNCHANGED <<isa, instr, parity, word, flipped>>
  BY DEF FetchOne
<1>2. Given(instr) => Given(instr)'
  BY <1>1 DEF Given, Rows
<1>3. \E p \in ParityTypes : decoded' = <<p, DisAssemble(isa, p, word)'>>
  BY <1>1
<1> QED
  BY <1>1, <1>2, <1>3 DEF WordInv

LEMMA ReportKbusKeeps == ASSUME WordInv, ReportKbus PROVE WordInv'
<1>1. UNCHANGED <<isa, instr, parity, word, flipped, decoded>>
  BY DEF ReportKbus
<1> QED
  BY <1>1 DEF WordInv, Given, Rows

LEMMA WordsRead == ASSUME WordInv, decoded # <<>> PROVE DecodesBack /\ WrongParityRejected
<1>1. PICK p \in ParityTypes : decoded = <<p, DisAssemble(isa, p, word)>>
  BY DEF WordInv
<1>2. decoded[1] = p /\ decoded[2] = DisAssemble(isa, p, word)
  BY <1>1
<1>3. /\ isa \in {1, 2} /\ parity \in ParityTypes /\ Given(instr)
      /\ ~flipped => word = Assemble(parity, instr)
      /\ flipped => \E b \in Bits : word = Xor(Assemble(parity, instr), {b})
  BY DEF WordInv
<1>4. ASSUME ~flipped, p \in {parity, "NONE"}
      PROVE  decoded[2] = Held(instr)
  BY <1>2, <1>3, <1>4, AssembledRead
<1>5. ASSUME parity # "NONE", p # "NONE", flipped <=> (parity = p)
      PROVE  decoded[2] = NoInstruction
  <2>1. PICK w : w = Assemble(parity, instr)
    OBVIOUS
  <2>2. w \in SUBSET Bits /\ CheckParity(parity, w)
    BY <1>3, <2>1, AssembledIs
  <2>3. parity \in {"ODD", "EVEN"} /\ p \in {"ODD", "EVEN"}
    BY <1>1, <1>3, <1>5 DEF ParityTypes
  <2>4. ~CheckParity(p, word)
    <3>1. CASE ~flipped
      <4>1. 0 \in Bits
        BY DEF Bits
      <4>2. CheckParity(p, w) <=> parity = p
        BY <2>2, <2>3, <4>1, ParityFlipped
      <4> QED
        BY <1>3, <1>5, <2>1, <3>1, <4>2
    <3>2. CASE flipped
      <4>1. PICK b \in Bits : word = Xor(w, {b})
        BY <1>3, <2>1, <3>2
      <4>2. CheckParity(p, Xor(w, {b})) <=> parity # p
        BY <2>2, <2>3, ParityFlipped
      <4> QED
        BY <1>5, <3>2, <4>1, <4>2
    <3> QED
      BY <3>1, <3>2
  <2> QED
    BY <1>2, <2>4, Zenon DEF DisAssemble
<1>6. DecodesBack
  BY <1>2, <1>4 DEF DecodesBack
<1>7. WrongParityRejected
  <2>1. flipped \in BOOLEAN
    BY DEF WordInv
  <2> QED
    BY <1>2, <1>5, <2>1 DEF WrongParityRejected
<1> QED
  BY <1>6, <1>7

\* No two instructions of a version share an encoding and no field overlaps another: what
\* is decoded from an intact word is what was assembled, whatever its operands, and one
\* wrong bit, or the opposite parity, makes it invalid (Instruction::DisAssemble,
\* CheckParity).
THEOREM WordsKeepParity == SubjectSpec => []WordsUnderParity
<1> DEFINE Inv == subject = "word" => WordInv
<1>1. SubjectInit => Inv
  BY WordStart DEF SubjectInit
<1>2. Inv /\ [SubjectNext]_subjectVars => Inv'
  <2> SUFFICES ASSUME Inv, [SubjectNext]_subjectVars, subject' = "word" PROVE WordInv'
    OBVIOUS
  <2>1. subject = "word"
    BY DEF SubjectNext, subjectVars
  <2>2. WordInv
    BY <2>1
  <2>3. CASE SubjectNext
    <3>1. Next
      BY <2>1, <2>3 DEF SubjectNext
    <3> QED
      BY <2>2, <3>1, AssembleOneKeeps, FlipBitKeeps, FetchOneKeeps, ReportKbusKeeps DEF Next
  <2>4. CASE UNCHANGED subjectVars
    <3>1. UNCHANGED vars
      BY <2>4 DEF subjectVars
    <3> QED
      BY <2>2, <3>1, WordStutters
  <2> QED
    BY <2>3, <2>4
<1>3. Inv => WordsUnderParity
  BY WordsRead DEF WordInv, WordsUnderParity, DecodesBack, WrongParityRejected
<1> QED
  BY <1>1, <1>2, <1>3, PTL DEF SubjectSpec

================================================================================
