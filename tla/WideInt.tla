-------------------------------- MODULE WideInt --------------------------------
(*****************************************************************************)
(* The wide unsigned integers every register, product and modulus of the     *)
(* simulator is computed with (uint256_t, uint512_t), limb by limb: a number *)
(* is an array of Limbs limbs of LimbBits bits, lowest first, and an         *)
(* operation works in a double limb.  WordArith takes for granted that the   *)
(* operations are those of the numbers; this module shows it.                *)
(*                                                                           *)
(* In the code a limb has 32 bits and a number 8 or 16 limbs.  With limbs of *)
(* 2 bits all operands can be enumerated, and the rare cases of the long     *)
(* division (an estimate that is two too large, a remainder that must be     *)
(* added back) are common.                                                   *)
(*****************************************************************************)
EXTENDS Naturals, FiniteSetsExt

CONSTANTS Limbs, LimbBits

LimbAssumption == Limbs \in Nat \ {0, 1} /\ LimbBits \in Nat \ {0}

Base == 2^LimbBits
Limb == 0 .. Base - 1
Index == 0 .. Limbs - 1
WideInts == [Index -> Limb]
Width == Limbs * LimbBits
Most == [i \in Index |-> Base - 1]

\* A double limb is unsigned: a difference below 0 wraps.
Double(d) == d % Base^2
Less(d, e) == (d + Base^2 - e) % Base^2

Bit(d, i) == (d \div 2^i) % 2
And(d, e) == MapThenSumSet(LAMBDA i : 2^i * Bit(d, i) * Bit(e, i), 0 .. LimbBits - 1)
Or(d, e) == d + e - And(d, e)
Xor(d, e) == d + e - 2 * And(d, e)

\* The first n limbs of a loop that keeps the low half of T and carries the high half
\* to the next limb, and what the last limb carries out.
Ripple(n, carryIn, T(_, _)) ==
  LET carry[i \in 0 .. n] == IF i = 0 THEN carryIn ELSE T(i - 1, carry[i - 1]) \div Base
  IN [limbs |-> [i \in 0 .. n - 1 |-> T(i, carry[i]) % Base], out |-> carry[n]]

\* f with the limbs of g in place of its own from limb "at" on.
Put(f, at, g) == [i \in DOMAIN f |-> IF i - at \in DOMAIN g THEN g[i - at] ELSE f[i]]

AddN(n, u, v, carryIn) == Ripple(n, carryIn, LAMBDA i, c : u[i] + v[i] + c)

\* The high half of a wrapped difference is all ones, and counts as one.
SubtractN(n, u, v) ==
  LET borrow[i \in 0 .. n] ==
        IF i = 0 THEN 0
        ELSE IF Less(u[i - 1], v[i - 1] + borrow[i - 1]) \div Base # 0 THEN 1 ELSE 0
  IN [limbs |-> [i \in 0 .. n - 1 |-> Less(u[i], v[i] + borrow[i]) % Base],
      out |-> borrow[n] # 0]

Multiply1d(n, u, d) == Ripple(n, 0, LAMBDA i, c : u[i] * d + c)

\* The rows of the product, added up in place; limbs above the width are never computed.
MultiplyLoPart(u, v) ==
  LET rows[i \in 0 .. Limbs] ==
        IF i = 0 THEN [k \in Index |-> 0]
        ELSE LET a == i - 1
                 r == rows[a]
             IN IF u[a] = 0 THEN r
                ELSE Put(r, a, Ripple(Limbs - a, 0,
                                      LAMBDA j, c : u[a] * v[j] + c + r[a + j]).limbs)
  IN rows[Limbs]

\* Mutant: the carry out of a limb is dropped.
PlusNoCarry(u, v) == [i \in Index |-> (u[i] + v[i]) % Base]

Plus(u, v) == AddN(Limbs, u, v, 0).limbs

Minus(u, v) == SubtractN(Limbs, u, v).limbs

Times(u, v) == MultiplyLoPart(u, v)

MulByLimb(u, d) ==
  CASE d = 0 -> [i \in Index |-> 0] [] d = 1 -> u [] OTHER -> Multiply1d(Limbs, u, d).limbs

\* The carry runs on as long as limbs become 0.
Increment(u) ==
  [i \in Index |-> IF \A k \in 0 .. i - 1 : u[k] = Base - 1 THEN (u[i] + 1) % Base ELSE u[i]]

BitwiseNot(u) == [i \in Index |-> Base - 1 - u[i]]

Negate(u) == Increment(BitwiseNot(u))

AndAssign(u, v) == [i \in Index |-> And(u[i], v[i])]
OrAssign(u, v) == [i \in Index |-> Or(u[i], v[i])]
XorAssign(u, v) == [i \in Index |-> Xor(u[i], v[i])]

IsZero(u) == \A i \in Index : u[i] = 0

\* The highest limb in which they differ decides; the code has 1, 0 and -1 for the order.
CompareRanges(u, v) ==
  IF u = v THEN "equal"
  ELSE LET top == Max({i \in Index : u[i] # v[i]})
       IN IF u[top] > v[top] THEN "greater" ELSE "less"

\* Whole limbs move first, then the bits; what leaves a limb enters the next one.
ShiftLimbsUp(u, k) == [i \in Index |-> IF i < k THEN 0 ELSE u[i - k]]
ShiftLimbsDown(u, k) == [i \in Index |-> IF i + k \in Index THEN u[i + k] ELSE 0]

Shl(u, n) ==
  LET moved == ShiftLimbsUp(u, n \div LimbBits)
      s == n % LimbBits
  IN [i \in Index |-> ((moved[i] * 2^s) % Base)
                      + (IF i = 0 \/ s = 0 THEN 0 ELSE moved[i - 1] \div 2^(LimbBits - s))]

Shr(u, n) ==
  LET moved == ShiftLimbsDown(u, n \div LimbBits)
      s == n % LimbBits
  IN [i \in Index |-> moved[i] \div 2^s
                      + (IF i = Limbs - 1 \/ s = 0 THEN 0
                         ELSE (moved[i + 1] * 2^(LimbBits - s)) % Base)]

\* A shift by the width or more is caught before the limbs are moved out of the array.
ShlAssign(u, n) == IF n = 0 THEN u ELSE IF n >= Width THEN [i \in Index |-> 0] ELSE Shl(u, n)
ShrAssign(u, n) == IF n = 0 THEN u ELSE IF n >= Width THEN [i \in Index |-> 0] ELSE Shr(u, n)

--------------------------------------------------------------------------------
(* Division and remainder: one limb at a time for a divisor of one limb,     *)
(* otherwise Knuth's algorithm D, which estimates every limb of the quotient *)
(* from two limbs of the dividend, corrects the estimate and adds the        *)
(* divisor back when it was still too large.                                 *)

\* The number of leading zero limbs.
Offset(u) == Cardinality({i \in Index : \A k \in i .. Limbs - 1 : u[k] = 0})

\* Limbs of the quotient from the highest limb in use down, and the remainder.
DivideBySingleLimb(u, short, uOffset) ==
  LET top == Limbs - 1 - uOffset
      long[i \in 0 .. top] ==
        IF i = top THEN u[i] ELSE u[i] + (long[i + 1] % short) * Base
  IN [quotient |-> [i \in Index |-> IF i > top THEN u[i] ELSE (long[i] \div short) % Base],
      remainder |-> [i \in Index |-> IF i = 0 THEN long[0] % short ELSE 0]]

\* The factor that makes the highest limb of the divisor at least half a limb.
Normalizer(v, n) == Base \div (v[n - 1] + 1)

\* q_hat: decreased until its product with the second limb of the divisor is not above
\* what is left, or until that no longer fits a limb.
Estimate(uu, vv, n, uj) ==
  LET two == uu[uj] * Base + uu[uj - 1]
      first == IF uu[uj] = vv[n - 1] THEN Base - 1 ELSE (two \div vv[n - 1]) % Base
      left(q) == Less(two, q * vv[n - 1])
      stops(q) == \/ left(q) \div Base # 0
                  \/ vv[n - 2] * q <= Double(left(q) * Base) + uu[uj - 2]
  IN Max({q \in 0 .. first : stops(q)})

\* Mutant: a dividend that went below zero is not corrected.
DivideStepNoAddBack(uu, vv, n, uj) ==
  LET q == Estimate(uu, vv, n, uj)
      product == Multiply1d(n, vv, q)
      nv == [i \in 0 .. n |-> IF i = n THEN product.out ELSE product.limbs[i]]
      part == [i \in 0 .. n |-> uu[uj - n + i]]
  IN [uu |-> Put(uu, uj - n, SubtractN(n + 1, part, nv).limbs), digit |-> q]

\* One limb of the quotient: multiply and subtract, and add the divisor back when the
\* difference borrowed.  The carry of that addition, and the limb above, are left as they are.
DivideStep(uu, vv, n, uj) ==
  LET q == Estimate(uu, vv, n, uj)
      product == Multiply1d(n, vv, q)
      nv == [i \in 0 .. n |-> IF i = n THEN product.out ELSE product.limbs[i]]
      part == [i \in 0 .. n |-> uu[uj - n + i]]
      rest == SubtractN(n + 1, part, nv)
  IN IF rest.out
     THEN [uu |-> Put(uu, uj - n, Put(rest.limbs, 0, AddN(n, rest.limbs, vv, 0).limbs)),
           digit |-> q - 1]
     ELSE [uu |-> Put(uu, uj - n, rest.limbs), digit |-> q]

\* The normalized operands; limbs of the arrays that are never read are 0 here.
Normalized(u, v, n, uOffset, d) ==
  LET used == Limbs - uOffset
      scaled == Multiply1d(used, u, d)
  IN [uu |-> [i \in 0 .. Limbs |-> IF i < used THEN scaled.limbs[i]
                                   ELSE IF i = used THEN scaled.out ELSE 0],
      vv |-> Put([i \in Index |-> 0], 0, Multiply1d(n, v, d).limbs)]

\* What is left of the normalized dividend, divided by the normalizer from the top.
Denormalized(uu, n, d) ==
  LET t[i \in 0 .. n - 1] == uu[i] + (IF i = n - 1 THEN 0 ELSE (t[i + 1] % d) * Base)
  IN [i \in Index |-> IF i < n THEN t[i] \div d ELSE 0]

DivideKnuthCore(u, v) ==
  LET n == Limbs - Offset(v)
      uOffset == Offset(u)
      m == Limbs - uOffset - n
      d == Normalizer(v, n)
      start == Normalized(u, v, n, uOffset, d)
      step[j \in 0 .. m + 1] ==
        IF j = 0 THEN [uu |-> start.uu, digit |-> 0]
        ELSE DivideStep(step[j - 1].uu, start.vv, n, Limbs - uOffset - (j - 1))
  IN IF n = 1 THEN DivideBySingleLimb(u, v[0], uOffset)
     ELSE [quotient |-> [i \in Index |-> IF i <= m THEN step[m - i + 1].digit ELSE 0],
           remainder |-> Denormalized(step[m + 1].uu, n, d)]

\* The cases the long division is not needed, or not possible, for.
DivideKnuth(u, v) ==
  LET zero == [i \in Index |-> 0]
      one == [zero EXCEPT ![0] = 1]
  IN CASE IsZero(v) -> [quotient |-> Most, remainder |-> zero]
       [] ~IsZero(v) /\ IsZero(u) -> [quotient |-> u, remainder |-> zero]
       [] ~IsZero(v) /\ ~IsZero(u) ->
            CASE CompareRanges(u, v) = "less" -> [quotient |-> zero, remainder |-> u]
              [] CompareRanges(u, v) = "equal" -> [quotient |-> one, remainder |-> zero]
              [] OTHER -> DivideKnuthCore(u, v)

Over(u, v) == IF IsZero(v) THEN Most ELSE DivideKnuth(u, v).quotient
Mod(u, v) == DivideKnuth(u, v).remainder

Half == Limbs \div 2

\* A register widened to the double width of a product, and the product's low register:
\* the conversions uint256_t -> uint512_t and back.
Widened(u) == [i \in Index |-> IF i \in DOMAIN u THEN u[i] ELSE 0]
Narrowed(u) == [i \in 0 .. Half - 1 |-> u[i]]

\* What MULP leaves in its destination.
MultiplyModulo(a, b, p) == Narrowed(Mod(Times(Widened(a), Widened(b)), Widened(p)))

----------------------------------------------------------------------------
VARIABLES x, y
vars == <<x, y>>

Init == x = [i \in Index |-> 0] /\ y = [i \in Index |-> 0]

\* Operands, one limb at a time.
LoadX == \E i \in Index, d \in Limb : x' = [x EXCEPT ![i] = d] /\ UNCHANGED y
LoadY == \E i \in Index, d \in Limb : y' = [y EXCEPT ![i] = d] /\ UNCHANGED x

Next == LoadX \/ LoadY
Spec == Init /\ [][Next]_vars

\* The number an array of limbs stands for.
Num(u) == MapThenSumSet(LAMBDA i : u[i] * Base^i, DOMAIN u)

\* Every result is an array of limbs of the same length.
TypeOK ==
  {x, y, Plus(x, y), Minus(x, y), Times(x, y), Negate(x), Shl(x, 1), Shr(x, 1), Over(x, y),
   Mod(x, y)} \subseteq WideInts

\* operator+=, -=, ++ and negate: carries and borrows run through every limb, and what
\* leaves the highest one is dropped.
SumsWrap ==
  /\ Num(Plus(x, y)) = (Num(x) + Num(y)) % 2^Width
  /\ Num(Minus(x, y)) = (Num(x) + 2^Width - Num(y)) % 2^Width
  /\ Num(Increment(x)) = (Num(x) + 1) % 2^Width
  /\ Num(Negate(x)) = (2^Width - Num(x)) % 2^Width

\* operator*= and mul_by_limb give the product modulo the width, though no limb above it
\* is computed and rows of zero are skipped.
ProductsWrap ==
  /\ Num(Times(x, y)) = (Num(x) * Num(y)) % 2^Width
  /\ \A d \in Limb : Num(MulByLimb(x, d)) = (Num(x) * d) % 2^Width

\* operator/= and %= are exact, whatever was estimated, corrected or added back; by 0 they
\* give the largest number and 0.
DivisionExact ==
  IF IsZero(y) THEN Over(x, y) = Most /\ IsZero(Mod(x, y))
  ELSE /\ Num(Over(x, y)) = Num(x) \div Num(y)
       /\ Num(Mod(x, y)) = Num(x) % Num(y)

\* A modular product of registers is the one of the numbers: the double width holds the
\* product, and the remainder fits the register it is narrowed to.
ModularProductExact ==
  LET a == Narrowed(x)
      b == [i \in 0 .. Half - 1 |-> x[Half + i]]
      p == Narrowed(y)
  IN ~IsZero(Widened(p)) =>
       Num(MultiplyModulo(a, b, p)) = (Num(a) * Num(b)) % Num(p)

\* operator<<= and >>= for every distance, at, across and beyond the borders of limbs.
ShiftsExact ==
  \A n \in 0 .. Width + 1 :
    /\ Num(ShlAssign(x, n)) = (Num(x) * 2^n) % 2^Width
    /\ Num(ShrAssign(x, n)) = Num(x) \div 2^n

\* compare orders as the numbers are ordered, and the bitwise operators are those of the
\* number, which the algebra of Plus and Negate shows.
OrderAndBits ==
  /\ CompareRanges(x, y) = IF Num(x) = Num(y) THEN "equal"
                           ELSE IF Num(x) > Num(y) THEN "greater" ELSE "less"
  /\ Num(OrAssign(x, y)) + Num(AndAssign(x, y)) = Num(x) + Num(y)
  /\ Num(XorAssign(x, y)) + Num(AndAssign(x, y)) = Num(OrAssign(x, y))
  /\ IsZero(AndAssign(x, BitwiseNot(x)))
===============================================================================
