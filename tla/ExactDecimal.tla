---------------------------- MODULE ExactDecimal ----------------------------
(***************************************************************************)
(* The exact non-negative numbers the calculation engine computes with     *)
(* (packages/calculation-engine/src/arithmetic/decimal.ts): fractions in   *)
(* lowest terms, never rounded except where the engine asks for a ceiling. *)
(***************************************************************************)
EXTENDS Integers, FiniteSetsExt, Functions

\* greatestCommonDivisor of a pair: Euclid's remainders; zero and zero have divisor one.
Gcd[p \in Nat \X Nat] ==
  IF p[2] = 0 THEN IF p[1] = 0 THEN 1 ELSE p[1] ELSE Gcd[<<p[2], p[1] % p[2]>>]

\* The constructor: lowest terms.
Fraction(n, d) == [num |-> n \div Gcd[<<n, d>>], den |-> d \div Gcd[<<n, d>>]]

\* The values that there are, and those that are not zero.
Fractions == { x \in [num : Nat, den : Nat \ {0}] : Gcd[<<x.num, x.den>>] = 1 }
Positives == { x \in Fractions : x.num # 0 }

Whole(n) == [num |-> n, den |-> 1]
Zero == Whole(0)
One == Whole(1)

Add(x, y) == Fraction(x.num * y.den + y.num * x.den, x.den * y.den)

\* A difference below zero is refused with an error: see Leq at each use.
Subtract(x, y) == Fraction(x.num * y.den - y.num * x.den, x.den * y.den)
Multiply(x, y) == Fraction(x.num * y.num, x.den * y.den)
Divide(x, y) == Fraction(x.num * y.den, x.den * y.num)
Leq(x, y) == x.num * y.den <= y.num * x.den
Minimum(x, y) == IF Leq(x, y) THEN x ELSE y

\* Mutant of CeilOf: rounds to the integer below.
FloorOf(n, d) == n \div d

\* The least integer that is not below n / d.
CeilOf(n, d) == n \div d + (IF n % d = 0 THEN 0 ELSE 1)

Ceil(x) == Whole(CeilOf(x.num, x.den))
IsInteger(x) == x.den = 1

\* sumDecimals of the values of a function, and of the values Of(e) of the elements e of a
\* finite set.
SumOf(f) == FoldFunction(Add, Zero, f)
SumOver(Of(_), S) == SumOf([e \in S |-> Of(e)])
=============================================================================
