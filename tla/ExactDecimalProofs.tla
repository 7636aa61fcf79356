------------------------- MODULE ExactDecimalProofs --------------------------
(***************************************************************************)
(* What the exact arithmetic of the calculation engine computes, for every *)
(* number: lowest terms, the laws of the operations and of the order, the  *)
(* ceiling, and sums over finite sets in any order and by parts.           *)
(***************************************************************************)
EXTENDS ExactDecimal, FiniteSetTheorems, NaturalsInduction, WellFoundedInduction, TLAPS

-----------------------------------------------------------------------------
(* Natural numbers and their divisors.                                     *)

LEMMA Smallest ==
  ASSUME NEW S \in SUBSET Nat, S # {}
  PROVE  \E n \in S : \A m \in S : n <= m
<1> DEFINE R == { pair \in Nat \X Nat : pair[1] < pair[2] }
<1>1. IsWellFoundedOn(R, Nat)
  <2>1. R = OpToRel(<, Nat)
    BY Zenon DEF OpToRel
  <2> QED
    BY <2>1, NatLessThanWellFounded, Zenon
<1>2. PICK n \in S : \A m \in S : <<m, n>> \notin R
  <2> HIDE DEF R
  <2> QED
    BY <1>1, WFMin, Zenon
<1>3. ASSUME NEW m \in S PROVE n <= m
  <2>1. ~(m < n)
    BY <1>2
  <2> QED
    BY <2>1
<1> QED
  BY <1>2, <1>3

LEMMA TimesIsAssociative ==
  ASSUME NEW x \in Int, NEW y \in Int, NEW z \in Int
  PROVE  (x * y) * z = x * (y * z)
  OBVIOUS

Divides(k, n) == \E q \in Nat : n = k * q
CommonDivisors(p) == { k \in Nat \ {0} : Divides(k, p[1]) /\ Divides(k, p[2]) }

\* The greatest common divisor; zero and zero have divisor one.
Greatest(p) ==
  IF p = <<0, 0>> THEN 1 ELSE CHOOSE k \in CommonDivisors(p) : \A m \in CommonDivisors(p) : m <= k

LEMMA DivisorIsSmaller ==
  ASSUME NEW k \in Nat \ {0}, NEW n \in Nat \ {0}, Divides(k, n)
  PROVE  k <= n
<1>1. PICK q \in Nat : n = k * q
  BY DEF Divides
<1>2. q >= 1
  BY <1>1
<1>3. k * q >= k * 1
  BY <1>2
<1> QED
  BY <1>1, <1>3

LEMMA GreatestIsCommon ==
  ASSUME NEW a \in Nat, NEW b \in Nat, a # 0 \/ b # 0
  PROVE  /\ Greatest(<<a, b>>) \in CommonDivisors(<<a, b>>)
         /\ \A k \in CommonDivisors(<<a, b>>) : k <= Greatest(<<a, b>>)
<1> DEFINE C == CommonDivisors(<<a, b>>)
           Below == { n \in 0..(a + b) : (a + b) - n \in C }
<1>1. 1 \in C
  <2>1. a = 1 * a /\ b = 1 * b
    OBVIOUS
  <2> QED
    BY <2>1 DEF CommonDivisors, Divides
<1>2. \A k \in C : k \in Nat \ {0} /\ k <= a + b
  <2>1. ASSUME NEW k \in C PROVE k \in Nat \ {0} /\ k <= a + b
    <3>1. k \in Nat \ {0} /\ Divides(k, a) /\ Divides(k, b)
      BY DEF CommonDivisors
    <3>2. a # 0 => k <= a
      BY <3>1, DivisorIsSmaller
    <3>3. b # 0 => k <= b
      BY <3>1, DivisorIsSmaller
    <3> QED
      BY <3>1, <3>2, <3>3
  <2> QED
    BY <2>1
<1> HIDE DEF C
<1>3. Below \in SUBSET Nat /\ Below # {}
  <2>1. a + b \in Nat /\ 1 <= a + b
    OBVIOUS
  <2>2. (a + b) - 1 \in 0..(a + b) /\ (a + b) - ((a + b) - 1) = 1
    BY <2>1
  <2>3. (a + b) - 1 \in Below
    BY <1>1, <2>2
  <2>4. Below \subseteq 0..(a + b) /\ 0..(a + b) \subseteq Nat
    OBVIOUS
  <2> QED
    BY <2>3, <2>4
<1>4. PICK n \in Below : \A m \in Below : n <= m
  <2> HIDE DEF Below
  <2> QED
    BY <1>3, Smallest
<1>5. (a + b) - n \in C /\ n \in 0..(a + b)
  BY <1>4
<1>6. ASSUME NEW k \in C PROVE k <= (a + b) - n
  <2>1. k \in Nat /\ k <= a + b
    BY <1>2
  <2>2. (a + b) - k \in 0..(a + b) /\ (a + b) - ((a + b) - k) = k
    BY <2>1
  <2>3. (a + b) - k \in Below
    BY <2>2
  <2>4. n <= (a + b) - k
    BY <1>4, <2>3
  <2> QED
    BY <1>5, <2>1, <2>4
<1>7. \E k \in C : \A m \in C : m <= k
  BY <1>5, <1>6
<1>8. Greatest(<<a, b>>) = CHOOSE k \in C : \A m \in C : m <= k
  <2>1. <<a, b>> # <<0, 0>>
    OBVIOUS
  <2> QED
    BY <2>1 DEF Greatest, C
<1> QED
  BY <1>7, <1>8 DEF C

\* Euclid's step.
LEMMA SameDivisors ==
  ASSUME NEW a \in Nat, NEW b \in Nat \ {0}
  PROVE  CommonDivisors(<<a, b>>) = CommonDivisors(<<b, a % b>>)
<1>1. a \div b \in Nat /\ a % b \in Nat /\ a = b * (a \div b) + (a % b)
  OBVIOUS
<1>2. ASSUME NEW k \in Nat \ {0}, NEW p \in Nat, NEW q \in Nat, a = k * p, b = k * q
      PROVE  Divides(k, a % b)
  <2> DEFINE r == p - q * (a \div b)
  <2>1. a % b = k * r
    <3>1. k * p = (k * q) * (a \div b) + (a % b)
      BY <1>1, <1>2
    <3>2. (k * q) * (a \div b) = k * (q * (a \div b))
      <4>1. k \in Int /\ q \in Int /\ a \div b \in Int
        BY <1>1
      <4> QED
        BY <4>1, TimesIsAssociative, Zenon
    <3>3. k * p - k * (q * (a \div b)) = k * (p - q * (a \div b))
      BY <1>1
    <3> QED
      BY <1>1, <3>1, <3>2, <3>3
  <2>2. r \in Int
    BY <1>1
  <2>3. r >= 0
    <3> HIDE DEF r
    <3>1. ~(r < 0)
      <4>1. r < 0 => k * r < 0
        BY <2>2
      <4> QED
        BY <4>1, <2>1, <1>1
    <3> QED
      BY <3>1, <2>2
  <2> HIDE DEF r
  <2> QED
    BY <2>1, <2>2, <2>3 DEF Divides
<1>3. ASSUME NEW k \in Nat \ {0}, NEW p \in Nat, NEW q \in Nat, b = k * p, a % b = k * q
      PROVE  Divides(k, a)
  <2>1. a = (k * p) * (a \div b) + k * q
    BY <1>1, <1>3
  <2>2. (k * p) * (a \div b) + k * q = k * (p * (a \div b) + q)
    BY <1>1
  <2>3. p * (a \div b) + q \in Nat
    BY <1>1
  <2> QED
    BY <2>1, <2>2, <2>3 DEF Divides
<1>4. ASSUME NEW k \in Nat \ {0} PROVE Divides(k, a) /\ Divides(k, b) <=> Divides(k, b) /\ Divides(k, a % b)
  BY <1>2, <1>3 DEF Divides
<1> QED
  BY <1>4 DEF CommonDivisors

\* Euclid's remainders end at the greatest common divisor.
LEMMA GcdIsGreatest ==
  ASSUME NEW a \in Nat, NEW b \in Nat
  PROVE  Gcd[<<a, b>>] = Greatest(<<a, b>>)
<1> DEFINE g == [p \in Nat \X Nat |-> Greatest(p)]
           Step(p) == IF p[2] = 0 THEN IF p[1] = 0 THEN 1 ELSE p[1] ELSE Greatest(<<p[2], p[1] % p[2]>>)
           Wrong == { n \in Nat : \E m \in Nat : Gcd[<<m, n>>] # Greatest(<<m, n>>) }
<1>1. ASSUME NEW m \in Nat, NEW n \in Nat PROVE Greatest(<<m, n>>) = Step(<<m, n>>)
  <2>1. CASE n = 0 /\ m = 0
    BY <2>1 DEF Greatest
  <2>2. CASE n = 0 /\ m # 0
    <3>1. m = m * 1 /\ n = m * 0
      BY <2>2
    <3>2. m \in CommonDivisors(<<m, n>>)
      BY <2>2, <3>1 DEF CommonDivisors, Divides
    <3>3. Greatest(<<m, n>>) \in Nat \ {0} /\ Divides(Greatest(<<m, n>>), m) /\ m <= Greatest(<<m, n>>)
      BY <2>2, <3>2, GreatestIsCommon DEF CommonDivisors
    <3>4. Greatest(<<m, n>>) <= m
      BY <2>2, <3>3, DivisorIsSmaller
    <3> QED
      BY <2>2, <3>3, <3>4
  <2>3. CASE n # 0
    <3>1. CommonDivisors(<<m, n>>) = CommonDivisors(<<n, m % n>>)
      BY <2>3, SameDivisors
    <3>2. <<m, n>> # <<0, 0>> /\ <<n, m % n>> # <<0, 0>>
      BY <2>3
    <3>3. Greatest(<<m, n>>) = CHOOSE k \in CommonDivisors(<<m, n>>) : \A j \in CommonDivisors(<<m, n>>) : j <= k
      BY <3>2, Zenon DEF Greatest
    <3>4. Greatest(<<n, m % n>>) =
            CHOOSE k \in CommonDivisors(<<n, m % n>>) : \A j \in CommonDivisors(<<n, m % n>>) : j <= k
      BY <3>2, Zenon DEF Greatest
    <3>5. Greatest(<<m, n>>) = Greatest(<<n, m % n>>)
      BY <3>1, <3>3, <3>4, Zenon
    <3> QED
      BY <2>3, <3>5
  <2> QED
    BY <2>1, <2>2, <2>3
<1>2. g = [p \in Nat \X Nat |-> IF p[2] = 0 THEN IF p[1] = 0 THEN 1 ELSE p[1] ELSE g[<<p[2], p[1] % p[2]>>]]
  <2>1. ASSUME NEW p \in Nat \X Nat
        PROVE  g[p] = IF p[2] = 0 THEN IF p[1] = 0 THEN 1 ELSE p[1] ELSE g[<<p[2], p[1] % p[2]>>]
    <3>1. PICK m \in Nat, n \in Nat : p = <<m, n>>
      OBVIOUS
    <3>2. n # 0 => m % n \in Nat
      OBVIOUS
    <3>3. g[p] = Step(<<m, n>>)
      BY <1>1, <3>1
    <3> QED
      BY <3>1, <3>2, <3>3
  <2> QED
    BY <2>1
<1>3. \E f : f = [p \in Nat \X Nat |-> IF p[2] = 0 THEN IF p[1] = 0 THEN 1 ELSE p[1] ELSE f[<<p[2], p[1] % p[2]>>]]
  <2> HIDE DEF g
  <2> QED
    BY <1>2, Zenon
<1>4. Gcd = [p \in Nat \X Nat |-> IF p[2] = 0 THEN IF p[1] = 0 THEN 1 ELSE p[1] ELSE Gcd[<<p[2], p[1] % p[2]>>]]
  BY <1>3, Zenon DEF Gcd
<1>5. ASSUME NEW m \in Nat, NEW n \in Nat
      PROVE  Gcd[<<m, n>>] = IF n = 0 THEN IF m = 0 THEN 1 ELSE m ELSE Gcd[<<n, m % n>>]
  BY <1>4
<1>6. Wrong = {}
  <2> SUFFICES ASSUME Wrong # {} PROVE FALSE
    OBVIOUS
  <2>1. PICK n \in Wrong : \A k \in Wrong : n <= k
    <3>1. Wrong \in SUBSET Nat
      OBVIOUS
    <3> HIDE DEF Wrong
    <3> QED
      BY <3>1, Smallest
  <2>2. PICK m \in Nat : Gcd[<<m, n>>] # Greatest(<<m, n>>)
    BY <2>1
  <2>3. n # 0
    BY <1>1, <1>5, <2>2
  <2>4. m % n \in Nat /\ m % n < n
    BY <2>3
  <2>5. m % n \notin Wrong
    BY <2>1, <2>4
  <2>6. Gcd[<<n, m % n>>] = Greatest(<<n, m % n>>)
    BY <2>4, <2>5
  <2> QED
    BY <1>1, <1>5, <2>2, <2>3, <2>6
<1> QED
  BY <1>6

\* The arithmetic that the nonlinear steps need.
LEMMA TimesKeepsOrder ==
  ASSUME NEW x \in Nat, NEW y \in Nat, NEW z \in Nat
  PROVE  /\ x * y \in Nat /\ x * y = y * x
         /\ x * y = 0 <=> x = 0 \/ y = 0
         /\ x <= y => z * x <= z * y
         /\ x # 0 /\ y # 0 => x <= x * y
<1>1. x * y \in Nat /\ x * y = y * x
  OBVIOUS
<1>2. x * y = 0 <=> x = 0 \/ y = 0
  OBVIOUS
<1>3. x <= y => z * x <= z * y
  OBVIOUS
<1>4. x # 0 /\ y # 0 => x <= x * y
  <2> SUFFICES ASSUME x >= 1, y >= 1 PROVE x <= x * y
    OBVIOUS
  <2>1. x * (y - 1) >= 0
    OBVIOUS
  <2>2. x * (y - 1) = x * y - x
    OBVIOUS
  <2>3. x * y \in Nat
    OBVIOUS
  <2> QED
    BY <2>1, <2>2, <2>3
<1> QED
  BY <1>1, <1>2, <1>3, <1>4

-----------------------------------------------------------------------------
(* Fractions: the operations return fractions in lowest terms, and zero    *)
(* only where they should.                                                 *)

\* The constructor divides by the greatest common divisor.
LEMMA FractionParts ==
  ASSUME NEW n \in Nat, NEW d \in Nat \ {0}
  PROVE  \E g \in Nat \ {0}, p \in Nat, q \in Nat \ {0} :
           /\ n = g * p /\ d = g * q
           /\ Fraction(n, d) = [num |-> p, den |-> q]
           /\ Gcd[<<p, q>>] = 1
<1>1. /\ Greatest(<<n, d>>) \in CommonDivisors(<<n, d>>)
      /\ \A k \in CommonDivisors(<<n, d>>) : k <= Greatest(<<n, d>>)
  BY GreatestIsCommon
<1>2. PICK g \in Nat \ {0} : g = Greatest(<<n, d>>) /\ Divides(g, n) /\ Divides(g, d)
  BY <1>1 DEF CommonDivisors
<1>3. PICK p \in Nat : n = g * p
  BY <1>2 DEF Divides
<1>4. PICK q \in Nat : d = g * q
  BY <1>2 DEF Divides
<1>5. q # 0
  BY <1>4
<1>6. Gcd[<<n, d>>] = g
  BY <1>2, GcdIsGreatest
<1>7. (g * p) \div g = p /\ (g * q) \div g = q
  OBVIOUS
<1>8. Fraction(n, d) = [num |-> p, den |-> q]
  <2>1. n \div g = p /\ d \div g = q
    BY <1>3, <1>4, <1>7
  <2> QED
    BY <1>6, <2>1 DEF Fraction
<1>9. Gcd[<<p, q>>] = 1
  <2>1. PICK k \in Nat \ {0} : k = Greatest(<<p, q>>) /\ Divides(k, p) /\ Divides(k, q)
    BY <1>5, GreatestIsCommon DEF CommonDivisors
  <2>2. PICK i \in Nat : p = k * i
    BY <2>1 DEF Divides
  <2>3. PICK j \in Nat : q = k * j
    BY <2>1 DEF Divides
  <2>4. n = (g * k) * i /\ d = (g * k) * j
    <3>1. g \in Int /\ k \in Int /\ i \in Int /\ j \in Int
      OBVIOUS
    <3>2. (g * k) * i = g * (k * i) /\ (g * k) * j = g * (k * j)
      BY <3>1, TimesIsAssociative, Zenon
    <3> QED
      BY <1>3, <1>4, <2>2, <2>3, <3>2, Zenon
  <2>5. g * k \in Nat \ {0}
    OBVIOUS
  <2>6. g * k \in CommonDivisors(<<n, d>>)
    BY <2>4, <2>5 DEF CommonDivisors, Divides
  <2>7. g * k <= g
    BY <1>1, <1>2, <2>6
  <2>8. k = 1
    <3>1. k >= 2 => g * 2 <= g * k
      BY TimesKeepsOrder
    <3> QED
      BY <2>5, <2>7, <3>1
  <2> QED
    BY <1>5, <2>1, <2>8, GcdIsGreatest
<1> QED
  BY <1>3, <1>4, <1>5, <1>8, <1>9

LEMMA FractionFits ==
  ASSUME NEW n \in Nat, NEW d \in Nat \ {0}
  PROVE  /\ Fraction(n, d) \in Fractions
         /\ n # 0 => Fraction(n, d) \in Positives
         /\ Fraction(n, d).num * d = n * Fraction(n, d).den
<1>1. PICK g \in Nat \ {0}, p \in Nat, q \in Nat \ {0} :
        /\ n = g * p /\ d = g * q
        /\ Fraction(n, d) = [num |-> p, den |-> q]
        /\ Gcd[<<p, q>>] = 1
  BY FractionParts
<1>2. [num |-> p, den |-> q].num = p /\ [num |-> p, den |-> q].den = q
  OBVIOUS
<1>3. Fraction(n, d) \in Fractions
  BY <1>1, <1>2 DEF Fractions
<1>4. n # 0 => p # 0
  BY <1>1
<1>5. p * (g * q) = (g * p) * q
  <2>1. g \in Int /\ p \in Int /\ q \in Int
    OBVIOUS
  <2>2. (p * g) * q = p * (g * q)
    BY <2>1, TimesIsAssociative, Zenon
  <2>3. p * g = g * p
    OBVIOUS
  <2> QED
    BY <2>2, <2>3
<1> QED
  BY <1>1, <1>2, <1>3, <1>4, <1>5 DEF Positives

LEMMA FractionTypes ==
  /\ \A x \in Fractions : x.num \in Nat /\ x.den \in Nat \ {0} /\ x = [num |-> x.num, den |-> x.den]
  /\ Positives = Fractions \ {Zero}
  /\ \A x \in Positives : x.num \in Nat \ {0} /\ x # Zero
<1>1. \A x \in Fractions : x.num \in Nat /\ x.den \in Nat \ {0} /\ x = [num |-> x.num, den |-> x.den]
  BY DEF Fractions
<1>2. ASSUME NEW x \in Fractions, x.num = 0 PROVE x = Zero
  <2>1. Gcd[<<0, x.den>>] = 1
    BY <1>2 DEF Fractions
  <2>2. Greatest(<<0, x.den>>) = 1
    BY <1>1, <2>1, GcdIsGreatest
  <2>3. 0 = x.den * 0 /\ x.den = x.den * 1
    BY <1>1
  <2>4. x.den \in CommonDivisors(<<0, x.den>>)
    BY <1>1, <2>3 DEF CommonDivisors, Divides
  <2>5. x.den <= 1
    BY <1>1, <2>2, <2>4, GreatestIsCommon
  <2> QED
    BY <1>1, <1>2, <2>5 DEF Zero, Whole
<1>3. Zero.num = 0
  BY DEF Zero, Whole
<1> QED
  BY <1>1, <1>2, <1>3 DEF Positives

LEMMA WholeFits ==
  ASSUME NEW n \in Nat
  PROVE  /\ Whole(n) \in Fractions /\ Fraction(n, 1) = Whole(n)
         /\ Whole(n).num = n /\ Whole(n).den = 1
         /\ n # 0 => Whole(n) \in Positives
<1>0. PICK d \in Nat \ {0} : d = 1
  OBVIOUS
<1>1. PICK g \in Nat \ {0}, p \in Nat, q \in Nat \ {0} :
        /\ n = g * p /\ 1 = g * q
        /\ Fraction(n, 1) = [num |-> p, den |-> q]
        /\ Gcd[<<p, q>>] = 1
  <2>1. \E g \in Nat \ {0}, p \in Nat, q \in Nat \ {0} :
           /\ n = g * p /\ d = g * q
           /\ Fraction(n, d) = [num |-> p, den |-> q]
           /\ Gcd[<<p, q>>] = 1
    BY FractionParts, Zenon
  <2> QED
    BY <1>0, <2>1, Zenon
<1>2. g = 1
  <2>1. g <= g * q
    BY TimesKeepsOrder
  <2> QED
    BY <1>1, <2>1
<1>3. Fraction(n, 1) = Whole(n)
  <2>1. p = n /\ q = 1
    BY <1>1, <1>2
  <2> QED
    BY <1>1, <2>1, Zenon DEF Whole
<1>4. Fraction(n, d) \in Fractions /\ (n # 0 => Fraction(n, d) \in Positives)
  BY FractionFits, Zenon
<1>5. Whole(n) \in Fractions /\ (n # 0 => Whole(n) \in Positives)
  BY <1>0, <1>3, <1>4, Zenon
<1>6. Whole(n).num = n /\ Whole(n).den = 1
  BY DEF Whole
<1> QED
  BY <1>3, <1>5, <1>6

LEMMA AddFits ==
  ASSUME NEW x \in Fractions, NEW y \in Fractions
  PROVE  /\ Add(x, y) \in Fractions
         /\ x \in Positives \/ y \in Positives => Add(x, y) \in Positives
<1>1. /\ x.num \in Nat /\ x.den \in Nat \ {0} /\ y.num \in Nat /\ y.den \in Nat \ {0}
      /\ x \in Positives => x.num # 0
      /\ y \in Positives => y.num # 0
  BY FractionTypes
<1>2. /\ x.num * y.den \in Nat /\ y.num * x.den \in Nat /\ x.den * y.den \in Nat \ {0}
      /\ x \in Positives => x.num * y.den # 0
      /\ y \in Positives => y.num * x.den # 0
  BY <1>1, TimesKeepsOrder
<1>3. /\ x.num * y.den + y.num * x.den \in Nat
      /\ x \in Positives \/ y \in Positives => x.num * y.den + y.num * x.den # 0
  BY <1>2
<1> QED
  BY <1>2, <1>3, FractionFits DEF Add

LEMMA MultiplyFits ==
  ASSUME NEW x \in Fractions, NEW y \in Fractions
  PROVE  /\ Multiply(x, y) \in Fractions
         /\ x \in Positives /\ y \in Positives => Multiply(x, y) \in Positives
<1>1. /\ x.num \in Nat /\ x.den \in Nat \ {0} /\ y.num \in Nat /\ y.den \in Nat \ {0}
      /\ x \in Positives => x.num # 0
      /\ y \in Positives => y.num # 0
  BY FractionTypes
<1>2. /\ x.num * y.num \in Nat /\ x.den * y.den \in Nat \ {0}
      /\ x \in Positives /\ y \in Positives => x.num * y.num # 0
  BY <1>1, TimesKeepsOrder
<1> QED
  BY <1>2, FractionFits DEF Multiply

LEMMA DivideFits ==
  ASSUME NEW x \in Fractions, NEW y \in Positives
  PROVE  /\ Divide(x, y) \in Fractions
         /\ x \in Positives => Divide(x, y) \in Positives
<1>1. /\ x.num \in Nat /\ x.den \in Nat \ {0} /\ y.num \in Nat \ {0} /\ y.den \in Nat \ {0}
      /\ x \in Positives => x.num # 0
  BY FractionTypes DEF Positives
<1>2. /\ x.num * y.den \in Nat /\ x.den * y.num \in Nat \ {0}
      /\ x \in Positives => x.num * y.den # 0
  BY <1>1, TimesKeepsOrder
<1> QED
  BY <1>2, FractionFits DEF Divide

LEMMA CeilFits ==
  ASSUME NEW x \in Fractions
  PROVE  \E n \in Nat : Ceil(x) = Whole(n) /\ (x \in Positives => n # 0)
<1>1. x.num \in Nat /\ x.den \in Nat \ {0} /\ (x \in Positives => x.num # 0)
  BY FractionTypes
<1>2. ASSUME NEW n \in Nat, NEW d \in Nat \ {0}
      PROVE  CeilOf(n, d) \in Nat /\ (n # 0 => CeilOf(n, d) # 0)
  <2>1. PICK q \in Nat, r \in Nat : q = n \div d /\ r = n % d /\ n = d * q + r
    OBVIOUS
  <2>2. q = 0 /\ r = 0 => n = 0
    <3>1. d * 0 = 0
      OBVIOUS
    <3> QED
      BY <2>1, <3>1
  <2>3. CeilOf(n, d) = q + (IF r = 0 THEN 0 ELSE 1)
    BY <2>1, Zenon DEF CeilOf
  <2> QED
    BY <2>2, <2>3
<1>3. PICK m : m = CeilOf(x.num, x.den)
  OBVIOUS
<1>4. m \in Nat /\ (x.num # 0 => m # 0)
  BY <1>1, <1>2, <1>3
<1>5. Ceil(x) = Whole(m)
  BY <1>3, Zenon DEF Ceil
<1> QED
  BY <1>1, <1>4, <1>5

\* Whole numbers stay whole.
LEMMA WholesAdd ==
  ASSUME NEW m \in Nat, NEW n \in Nat
  PROVE  /\ Add(Whole(m), Whole(n)) = Whole(m + n)
         /\ Multiply(Whole(m), Whole(n)) = Whole(m * n)
         /\ Leq(Whole(m), Whole(n)) <=> m <= n
         /\ n <= m => Subtract(Whole(m), Whole(n)) = Whole(m - n)
<1>1. Whole(m).num = m /\ Whole(m).den = 1 /\ Whole(n).num = n /\ Whole(n).den = 1
  BY WholeFits
<1>2. Add(Whole(m), Whole(n)) = Fraction(m + n, 1)
  <2>1. m * 1 + n * 1 = m + n /\ 1 * 1 = 1
    OBVIOUS
  <2> QED
    BY <1>1, <2>1, Zenon DEF Add
<1>3. Multiply(Whole(m), Whole(n)) = Fraction(m * n, 1)
  <2>1. 1 * 1 = 1
    OBVIOUS
  <2> QED
    BY <1>1, <2>1, Zenon DEF Multiply
<1>4. Subtract(Whole(m), Whole(n)) = Fraction(m - n, 1)
  <2>1. m * 1 - n * 1 = m - n /\ 1 * 1 = 1
    OBVIOUS
  <2> QED
    BY <1>1, <2>1, Zenon DEF Subtract
<1>5. Leq(Whole(m), Whole(n)) <=> m <= n
  BY <1>1 DEF Leq
<1>6. m + n \in Nat /\ m * n \in Nat /\ (n <= m => m - n \in Nat)
  OBVIOUS
<1> QED
  BY <1>2, <1>3, <1>4, <1>5, <1>6, WholeFits

-----------------------------------------------------------------------------
(* Folds over finite sets, by the size of the set.                         *)

\* A set that cannot be left out by taking one element after the other is reached.
LEMMA TakingAway ==
  ASSUME NEW S, IsFiniteSet(S), NEW Good, {} \in Good,
         ASSUME NEW s \in SUBSET S, s # {}, s \ {CHOOSE x \in s : TRUE} \in Good
         PROVE  s \in Good
  PROVE  S \in Good
<1> DEFINE Bad == { s \in SUBSET S : s \notin Good }
<1> SUFFICES ASSUME S \notin Good PROVE FALSE
  OBVIOUS
<1>1. S \in Bad /\ Bad \subseteq SUBSET S
  OBVIOUS
<1>2. IsWellFoundedOn(StrictSubsetOrdering(S), SUBSET S)
  <2>1. FiniteSubsetsOf(S) = SUBSET S
    BY FS_FiniteSubsetsOfFinite
  <2> QED
    BY <2>1, FS_StrictSubsetOrderingWellFounded
<1> DEFINE R == StrictSubsetOrdering(S)
<1>3. PICK s \in Bad : \A t \in Bad : <<t, s>> \notin R
  <2> HIDE DEF Bad
  <2>1. Bad # {}
    BY <1>1
  <2>2. IsWellFoundedOn(R, SUBSET S)
    BY <1>2
  <2> HIDE DEF R
  <2>3. \E s \in Bad : \A t \in Bad : ~(<<t, s>> \in R)
    BY <1>1, <2>1, <2>2, WFMin
  <2> QED
    BY <2>3, Zenon
<1>4. s # {} /\ s \in SUBSET S
  OBVIOUS
<1>5. PICK x : x = CHOOSE t \in s : TRUE
  OBVIOUS
<1>6. x \in s
  BY <1>4, <1>5
<1>7. s \ {x} \subseteq s /\ s \ {x} # s /\ s \ {x} \in SUBSET S
  BY <1>4, <1>6
<1>8. <<s \ {x}, s>> \in StrictSubsetOrdering(S)
  BY <1>4, <1>7 DEF StrictSubsetOrdering
<1>9. s \ {x} \in Good
  BY <1>3, <1>7, <1>8
<1> QED
  BY <1>4, <1>5, <1>9

\* The function that a fold looks its value up in, for a step that keeps to the values V.
FoldsTo(h, S, base, step) ==
  h = [s \in SUBSET S |-> IF s = {} THEN base
                          ELSE LET x == CHOOSE t \in s : TRUE IN step[<<x, h[s \ {x}]>>]]

LEMMA FoldExists ==
  ASSUME NEW S, IsFiniteSet(S), NEW V, NEW base \in V, NEW step \in [S \X V -> V]
  PROVE  \E h \in [SUBSET S -> V] : FoldsTo(h, S, base, step)
<1> DEFINE Sub(n) == { s \in SUBSET S : Cardinality(s) <= n }
           Next(h, s) == IF s = {} THEN base ELSE step[<<CHOOSE t \in s : TRUE, h[s \ {CHOOSE t \in s : TRUE}]>>]
           Folded(h, n) == h \in [Sub(n) -> V] /\ \A s \in Sub(n) : h[s] = Next(h, s)
           Bad == { n \in Nat : \A h : ~Folded(h, n) }
<1>1. ASSUME NEW s \in SUBSET S
      PROVE  /\ Cardinality(s) \in Nat /\ (Cardinality(s) = 0 <=> s = {})
             /\ s # {} => /\ (CHOOSE t \in s : TRUE) \in s
                          /\ Cardinality(s \ {CHOOSE t \in s : TRUE}) = Cardinality(s) - 1
  <2>1. IsFiniteSet(s)
    BY FS_Subset
  <2>2. Cardinality(s) \in Nat /\ (Cardinality(s) = 0 <=> s = {})
    BY <2>1, FS_EmptySet, FS_CardinalityType
  <2>3. s # {} => (CHOOSE t \in s : TRUE) \in s
    BY Zenon
  <2> QED
    BY <2>1, <2>2, <2>3, FS_RemoveElement
<1>2. ASSUME NEW n \in Nat, n = 0 \/ \E h : Folded(h, n - 1) PROVE \E h : Folded(h, n)
  <2> DEFINE Below(g) == IF n = 0 THEN TRUE ELSE Folded(g, n - 1)
  <2>1. PICK g : Below(g)
    BY <1>2
  <2>2. ASSUME NEW s \in Sub(n), s # {}
        PROVE  /\ s \in SUBSET S /\ n # 0
               /\ (CHOOSE t \in s : TRUE) \in S
               /\ s \ {CHOOSE t \in s : TRUE} \in Sub(n - 1)
    <3>1. s \in SUBSET S /\ Cardinality(s) <= n
      OBVIOUS
    <3> QED
      BY <1>1, <2>2, <3>1
  <2>3. ASSUME NEW s \in Sub(n), s # {}
        PROVE  /\ g[s \ {CHOOSE t \in s : TRUE}] \in V
               /\ g[s \ {CHOOSE t \in s : TRUE}] = Next(g, s \ {CHOOSE t \in s : TRUE})
    <3>1. Folded(g, n - 1)
      BY <2>1, <2>2, <2>3
    <3> HIDE DEF Next, Sub
    <3> QED
      BY <2>2, <2>3, <3>1
  <2> DEFINE h == [s \in Sub(n) |-> Next(g, s)]
  <2>4. h \in [Sub(n) -> V]
    <3>1. ASSUME NEW s \in Sub(n) PROVE Next(g, s) \in V
      <4>1. CASE s = {}
        BY <4>1
      <4>2. CASE s # {}
        <5>1. PICK x, v : x = (CHOOSE t \in s : TRUE) /\ v = g[s \ {CHOOSE t \in s : TRUE}]
          OBVIOUS
        <5>2. x \in S /\ v \in V
          BY <2>2, <2>3, <4>2, <5>1
        <5>3. Next(g, s) = step[<<x, v>>]
          BY <4>2, <5>1
        <5> QED
          BY <5>2, <5>3
      <4> QED
        BY <4>1, <4>2
    <3> HIDE DEF Next, Sub
    <3> QED
      BY <3>1
  <2>5. ASSUME NEW s \in Sub(n) PROVE h[s] = Next(h, s)
    <3>1. h[s] = Next(g, s)
      OBVIOUS
    <3>2. CASE s = {}
      BY <3>1, <3>2
    <3>3. CASE s # {}
      <4>1. PICK u : u = s \ {CHOOSE t \in s : TRUE}
        OBVIOUS
      <4>2. u \in Sub(n - 1) /\ u \in Sub(n)
        <5>1. u \in Sub(n - 1) /\ Cardinality(u) \in Nat
          BY <1>1, <2>2, <3>3, <4>1
        <5> QED
          BY <5>1
      <4>3. h[u] = g[u]
        <5>1. h[u] = Next(g, u)
          BY <4>2
        <5>2. g[u] = Next(g, u)
          BY <2>3, <3>3, <4>1
        <5> QED
          BY <5>1, <5>2
      <4>4. Next(g, s) = Next(h, s)
        <5> HIDE DEF h
        <5> QED
          BY <4>1, <4>3, Zenon
      <4> QED
        BY <3>1, <4>4
    <3> QED
      BY <3>2, <3>3
  <2>6. Folded(h, n)
    <3> HIDE DEF h, Next, Sub
    <3> QED
      BY <2>4, <2>5
  <2> HIDE DEF h, Folded
  <2> QED
    BY <2>6, Zenon
<1> HIDE DEF Folded
<1>3. Bad = {}
  <2> SUFFICES ASSUME Bad # {} PROVE FALSE
    OBVIOUS
  <2>1. PICK n \in Bad : \A m \in Bad : n <= m
    <3>1. Bad \in SUBSET Nat
      OBVIOUS
    <3> HIDE DEF Bad
    <3> QED
      BY <3>1, Smallest
  <2>2. n \in Nat /\ \A h : ~Folded(h, n)
    BY <2>1
  <2>3. n # 0 => n - 1 \in Nat /\ n - 1 \notin Bad
    BY <2>1, <2>2
  <2>4. n # 0 => \E h : Folded(h, n - 1)
    BY <2>3
  <2> QED
    BY <1>2, <2>2, <2>4
<1>4. PICK n \in Nat : n = Cardinality(S)
  BY FS_CardinalityType
<1>5. PICK h : Folded(h, n)
  BY <1>3
<1>6. Sub(n) = SUBSET S
  BY <1>4, FS_Subset
<1>7. h \in [SUBSET S -> V] /\ \A s \in SUBSET S : h[s] = Next(h, s)
  <2> HIDE DEF Next, Sub
  <2> QED
    BY <1>5, <1>6, Zenon DEF Folded
<1>8. h = [s \in SUBSET S |-> Next(h, s)]
  <2> HIDE DEF Next, Sub
  <2> QED
    BY <1>7
<1>9. FoldsTo(h, S, base, step)
  BY <1>8, Zenon DEF FoldsTo
<1> QED
  BY <1>7, <1>9

LEMMA SumStep ==
  ASSUME NEW f, IsFiniteSet(DOMAIN f), \A x \in DOMAIN f : f[x] \in Fractions
  PROVE  \E h : /\ SumOf(f) = h[DOMAIN f]
                /\ h[{}] = Zero
                /\ \A s \in SUBSET DOMAIN f :
                     s # {} => h[s] = Add(f[CHOOSE t \in s : TRUE], h[s \ {CHOOSE t \in s : TRUE}])
<1> DEFINE D == DOMAIN f
           step == [p \in D \X Fractions |-> Add(f[p[1]], p[2])]
           Equation(h) == h = [s \in SUBSET D |-> IF s = {} THEN Zero
                                 ELSE LET x == CHOOSE t \in s : TRUE IN Add(f[x], h[s \ {x}])]
<1>1. step \in [D \X Fractions -> Fractions]
  <2>1. ASSUME NEW p \in D \X Fractions PROVE Add(f[p[1]], p[2]) \in Fractions
    <3>1. p[1] \in D /\ p[2] \in Fractions
      OBVIOUS
    <3>2. f[p[1]] \in Fractions
      BY <3>1
    <3> QED
      BY <3>1, <3>2, AddFits
  <2> QED
    BY <2>1
<1>2. Zero \in Fractions
  BY WholeFits DEF Zero
<1>3. PICK h \in [SUBSET D -> Fractions] : FoldsTo(h, D, Zero, step)
  <2> HIDE DEF step, D
  <2>1. IsFiniteSet(D)
    BY DEF D
  <2> QED
    BY <1>1, <1>2, <2>1, FoldExists
<1>4. Equation(h)
  <2>1. ASSUME NEW s \in SUBSET D, s # {}
        PROVE  h[s] = Add(f[CHOOSE t \in s : TRUE], h[s \ {CHOOSE t \in s : TRUE}])
    <3>1. PICK x, r : x = (CHOOSE t \in s : TRUE) /\ r = s \ {CHOOSE t \in s : TRUE}
      OBVIOUS
    <3>2. x \in s
      BY <2>1, <3>1, Zenon
    <3>3. x \in D /\ r \in SUBSET D
      BY <3>1, <3>2
    <3>4. h[r] \in Fractions
      BY <1>3, <3>3
    <3>5. h[s] = step[<<x, h[r]>>]
      <4> HIDE DEF step, D
      <4>1. h[s] = IF s = {} THEN Zero ELSE LET y == CHOOSE t \in s : TRUE IN step[<<y, h[s \ {y}]>>]
        BY <1>3, Zenon DEF FoldsTo
      <4> QED
        BY <2>1, <3>1, <4>1, Zenon
    <3>6. step[<<x, h[r]>>] = Add(f[x], h[r])
      <4>1. <<x, h[r]>> \in D \X Fractions
        BY <3>3, <3>4
      <4> QED
        BY <4>1
    <3> QED
      BY <3>1, <3>5, <3>6, Zenon
  <2>2. h[{}] = Zero
    <3> HIDE DEF step, D
    <3> QED
      BY <1>3 DEF FoldsTo
  <2>3. ASSUME NEW s \in SUBSET D
        PROVE  h[s] = IF s = {} THEN Zero ELSE LET x == CHOOSE t \in s : TRUE IN Add(f[x], h[s \ {x}])
    BY <2>1, <2>2, Zenon
  <2> HIDE DEF step, D
  <2>4. h = [s \in SUBSET D |-> h[s]]
    BY <1>3
  <2> QED
    BY <2>3, <2>4, Zenon
<1>5. PICK g : g = CHOOSE h1 : Equation(h1)
  OBVIOUS
<1>6. Equation(g)
  <2>1. \E h1 : Equation(h1)
    <3> HIDE DEF Equation
    <3> QED
      BY <1>4, Zenon
  <2> HIDE DEF Equation
  <2> QED
    BY <1>5, <2>1, Zenon
<1>7. SumOf(f) = g[D]
  BY <1>5, Zenon DEF SumOf, FoldFunction, FoldFunctionOnSet, MapThenFoldSet
<1>8. g[{}] = Zero
  BY <1>6
<1>9. ASSUME NEW s \in SUBSET DOMAIN f, s # {}
      PROVE  g[s] = Add(f[CHOOSE t \in s : TRUE], g[s \ {CHOOSE t \in s : TRUE}])
  <2>1. g[s] = IF s = {} THEN Zero ELSE LET x == CHOOSE t \in s : TRUE IN Add(f[x], g[s \ {x}])
    BY <1>6, Zenon
  <2> QED
    BY <1>9, <2>1, Zenon
<1> QED
  BY <1>7, <1>8, <1>9

\* Sums of exact numbers: fractions, positive if every number is, whole if every number is.
LEMMA SumFits ==
  ASSUME NEW f, IsFiniteSet(DOMAIN f), \A x \in DOMAIN f : f[x] \in Fractions
  PROVE  /\ SumOf(f) \in Fractions
         /\ DOMAIN f # {} /\ (\A x \in DOMAIN f : f[x] \in Positives) => SumOf(f) \in Positives
         /\ (\A x \in DOMAIN f : \E n \in Nat : f[x] = Whole(n)) => \E n \in Nat : SumOf(f) = Whole(n)
<1> DEFINE D == DOMAIN f
           Fits(v, s) == /\ v \in Fractions
                         /\ s # {} /\ (\A x \in D : f[x] \in Positives) => v \in Positives
                         /\ (\A x \in D : \E n \in Nat : f[x] = Whole(n)) => \E n \in Nat : v = Whole(n)
<1>1. PICK h : /\ SumOf(f) = h[DOMAIN f]
               /\ h[{}] = Zero
               /\ \A s \in SUBSET DOMAIN f :
                    s # {} => h[s] = Add(f[CHOOSE t \in s : TRUE], h[s \ {CHOOSE t \in s : TRUE}])
  BY SumStep
<1> DEFINE Good == { s \in SUBSET D : Fits(h[s], s) }
<1>2. {} \in Good
  BY <1>1, WholeFits DEF Zero
<1>3. ASSUME NEW s \in SUBSET D, s # {}, s \ {CHOOSE x \in s : TRUE} \in Good
      PROVE  s \in Good
  <2>1. PICK x, r : x = (CHOOSE t \in s : TRUE) /\ r = s \ {CHOOSE t \in s : TRUE}
    OBVIOUS
  <2>2. x \in D
    BY <1>3, <2>1, Zenon
  <2>3. h[s] = Add(f[x], h[r])
    BY <1>1, <1>3, <2>1
  <2>4. Fits(h[r], r) /\ f[x] \in Fractions
    BY <1>3, <2>1, <2>2
  <2>5. Add(f[x], h[r]) \in Fractions /\ (f[x] \in Positives => Add(f[x], h[r]) \in Positives)
    BY <2>4, AddFits
  <2>6. ASSUME NEW m \in Nat, NEW n \in Nat, f[x] = Whole(m), h[r] = Whole(n)
        PROVE  \E k \in Nat : Add(f[x], h[r]) = Whole(k)
    <3>1. Add(f[x], h[r]) = Whole(m + n) /\ m + n \in Nat
      BY <2>6, WholesAdd
    <3> QED
      BY <3>1
  <2>7. Fits(h[s], s)
    BY <2>2, <2>3, <2>4, <2>5, <2>6
  <2> QED
    BY <2>7
<1>4. D \in Good
  <2> HIDE DEF Good
  <2>1. IsFiniteSet(D)
    OBVIOUS
  <2> HIDE DEF D
  <2> QED
    BY <1>2, <1>3, <2>1, TakingAway
<1> QED
  BY <1>1, <1>4

-----------------------------------------------------------------------------
(* The numbers that fractions stand for.                                   *)

\* The fraction x is n over d, reduced or not.
IsRatio(x, n, d) == x.num * d = n * x.den

LEMMA Cancels ==
  ASSUME NEW b \in Nat \ {0}, NEW p \in Int, NEW q \in Int, p * b = q * b
  PROVE  p = q
<1>1. (p - q) * b = 0
  <2>1. (p - q) * b = p * b - q * b
    OBVIOUS
  <2> QED
    BY <2>1
<1>2. ASSUME p - q # 0 PROVE FALSE
  BY <1>1, <1>2
<1> QED
  BY <1>2

\* A fraction in lowest terms has the least denominator of its value.
LEMMA LeastDenominator ==
  ASSUME NEW x \in Fractions, NEW m \in Nat \ {0}, NEW n \in Nat, IsRatio(x, n, m)
  PROVE  x.den <= m
<1> DEFINE M == { k \in Nat \ {0} : \E l \in Nat : IsRatio(x, l, k) }
<1>1. PICK a \in Nat, b \in Nat \ {0} : a = x.num /\ b = x.den /\ Gcd[<<a, b>>] = 1
  BY FractionTypes DEF Fractions
<1>2. PICK k \in M : \A j \in M : k <= j
  <2>1. m \in M
    OBVIOUS
  <2>2. M \in SUBSET Nat /\ M # {}
    BY <2>1
  <2> HIDE DEF M
  <2> QED
    BY <2>2, Smallest
<1>3. PICK l \in Nat : a * k = l * b
  BY <1>1 DEF IsRatio
<1>4. PICK q \in Nat, r \in Nat : b = k * q + r /\ r < k
  <2>1. b = k * (b \div k) + (b % k) /\ b \div k \in Nat /\ b % k \in Nat /\ b % k < k
    BY <1>2
  <2> QED
    BY <2>1
<1>5. a * r = (a - q * l) * b
  <2>1. a * (k * q + r) = a * k * q + a * r
    OBVIOUS
  <2>2. a * b = a * k * q + a * r
    BY <1>4, <2>1
  <2>3. a * k * q = l * b * q
    BY <1>3
  <2>4. (a - q * l) * b = a * b - l * b * q
    OBVIOUS
  <2> QED
    BY <2>2, <2>3, <2>4
<1>6. a - q * l >= 0
  <2>1. a * r >= 0
    OBVIOUS
  <2>2. ASSUME a - q * l < 0 PROVE FALSE
    <3>1. (a - q * l) * b < 0
      BY <2>2
    <3> QED
      BY <1>5, <2>1, <3>1
  <2> QED
    BY <2>2
<1>7. r = 0
  <2>1. ASSUME r # 0 PROVE FALSE
    <3>1. a - q * l \in Nat
      BY <1>6
    <3>2. r \in M
      BY <1>1, <1>5, <2>1, <3>1 DEF IsRatio
    <3> QED
      BY <1>2, <1>4, <3>2
  <2> QED
    BY <2>1
<1>8. b = q * k /\ a = q * l
  <2>1. (a - q * l) * b = 0 * b
    BY <1>5, <1>7
  <2>2. a - q * l = 0
    BY <2>1, Cancels
  <2> QED
    BY <1>4, <1>7, <2>2
<1>9. q \in CommonDivisors(<<a, b>>)
  <2>1. q # 0
    BY <1>8
  <2> QED
    BY <1>8, <2>1 DEF CommonDivisors, Divides
<1>10. q <= 1
  <2>1. Greatest(<<a, b>>) = 1
    BY <1>1, GcdIsGreatest
  <2> QED
    BY <1>9, <2>1, GreatestIsCommon
<1>11. b = k
  <2>1. q = 0 \/ q = 1
    BY <1>10
  <2> QED
    BY <1>8, <2>1
<1> QED
  BY <1>1, <1>2, <1>11

\* A value has one fraction.
LEMMA OneFraction ==
  ASSUME NEW x \in Fractions, NEW y \in Fractions, NEW n \in Nat, NEW d \in Nat \ {0},
         IsRatio(x, n, d), IsRatio(y, n, d)
  PROVE  x = y
<1>1. PICK a \in Nat, b \in Nat \ {0}, c \in Nat, e \in Nat \ {0} :
        a = x.num /\ b = x.den /\ c = y.num /\ e = y.den
  BY FractionTypes
<1>2. a * d = n * b /\ c * d = n * e
  BY <1>1 DEF IsRatio
<1>3. a * e = c * b
  <2>1. (a * d) * e = (n * b) * e /\ (c * d) * b = (n * e) * b
    BY <1>2
  <2>2. (a * e) * d = (c * b) * d
    <3>1. (a * d) * e = (a * e) * d /\ (c * d) * b = (c * b) * d /\ (n * b) * e = (n * e) * b
      OBVIOUS
    <3> QED
      BY <2>1, <3>1
  <2> QED
    BY <2>2, Cancels
<1>4. b = e
  <2>1. b <= e
    BY <1>1, <1>3, LeastDenominator DEF IsRatio
  <2>2. e <= b
    BY <1>1, <1>3, LeastDenominator DEF IsRatio
  <2> QED
    BY <2>1, <2>2
<1>5. a = c
  BY <1>3, <1>4, Cancels
<1> QED
  BY <1>1, <1>4, <1>5, FractionTypes

LEMMA FractionRatio ==
  ASSUME NEW n \in Nat, NEW d \in Nat \ {0}
  PROVE  Fraction(n, d) \in Fractions /\ IsRatio(Fraction(n, d), n, d)
BY FractionFits DEF IsRatio

LEMMA OwnRatio ==
  ASSUME NEW x \in Fractions
  PROVE  x.num \in Nat /\ x.den \in Nat \ {0} /\ IsRatio(x, x.num, x.den)
BY FractionTypes DEF IsRatio

\* What an operation returns does not depend on how the arguments are written.
LEMMA RatioOfFraction ==
  ASSUME NEW n \in Nat, NEW d \in Nat \ {0}, NEW m \in Nat, NEW e \in Nat \ {0}, n * e = m * d
  PROVE  IsRatio(Fraction(n, d), m, e)
<1>1. PICK z \in Fractions : z = Fraction(n, d) /\ z.num * d = n * z.den
  BY FractionRatio DEF IsRatio
<1>2. PICK a \in Nat, b \in Nat \ {0} : a = z.num /\ b = z.den
  BY FractionTypes
<1>3. (a * e) * d = (m * b) * d
  <2>1. a * d = n * b
    BY <1>1, <1>2
  <2>2. (a * d) * e = (n * b) * e
    BY <2>1
  <2>3. (a * d) * e = (a * e) * d /\ (n * b) * e = (n * e) * b /\ (m * d) * b = (m * b) * d
    OBVIOUS
  <2> QED
    BY <2>2, <2>3
<1>4. a * e = m * b
  BY <1>3, Cancels
<1> QED
  BY <1>1, <1>2, <1>4 DEF IsRatio

LEMMA SumRatio ==
  ASSUME NEW x \in Fractions, NEW n \in Nat, NEW d \in Nat \ {0}, IsRatio(x, n, d),
         NEW y \in Fractions, NEW m \in Nat, NEW e \in Nat \ {0}, IsRatio(y, m, e)
  PROVE  /\ n * e + m * d \in Nat /\ d * e \in Nat \ {0}
         /\ IsRatio(Add(x, y), n * e + m * d, d * e)
<1>1. PICK a \in Nat, b \in Nat \ {0}, c \in Nat, f \in Nat \ {0} :
        a = x.num /\ b = x.den /\ c = y.num /\ f = y.den
  BY FractionTypes
<1>2. a * d = n * b /\ c * e = m * f
  BY <1>1 DEF IsRatio
<1>3. n * e + m * d \in Nat /\ d * e \in Nat \ {0} /\ a * f + c * b \in Nat /\ b * f \in Nat \ {0}
  BY TimesKeepsOrder
<1>4. (a * f + c * b) * (d * e) = (n * e + m * d) * (b * f)
  <2>1. (a * f + c * b) * (d * e) = (a * d) * (f * e) + (c * e) * (b * d)
    OBVIOUS
  <2>2. (n * e + m * d) * (b * f) = (n * b) * (f * e) + (m * f) * (b * d)
    OBVIOUS
  <2> QED
    BY <1>2, <2>1, <2>2
<1>5. Add(x, y) = Fraction(a * f + c * b, b * f)
  BY <1>1 DEF Add
<1> QED
  BY <1>3, <1>4, <1>5, RatioOfFraction

LEMMA ProductRatio ==
  ASSUME NEW x \in Fractions, NEW n \in Nat, NEW d \in Nat \ {0}, IsRatio(x, n, d),
         NEW y \in Fractions, NEW m \in Nat, NEW e \in Nat \ {0}, IsRatio(y, m, e)
  PROVE  /\ n * m \in Nat /\ d * e \in Nat \ {0}
         /\ IsRatio(Multiply(x, y), n * m, d * e)
<1>1. PICK a \in Nat, b \in Nat \ {0}, c \in Nat, f \in Nat \ {0} :
        a = x.num /\ b = x.den /\ c = y.num /\ f = y.den
  BY FractionTypes
<1>2. a * d = n * b /\ c * e = m * f
  BY <1>1 DEF IsRatio
<1>3. n * m \in Nat /\ d * e \in Nat \ {0} /\ a * c \in Nat /\ b * f \in Nat \ {0}
  BY TimesKeepsOrder
<1>4. (a * c) * (d * e) = (n * m) * (b * f)
  <2>1. (a * c) * (d * e) = (a * d) * (c * e)
    OBVIOUS
  <2>2. (n * m) * (b * f) = (n * b) * (m * f)
    OBVIOUS
  <2> QED
    BY <1>2, <2>1, <2>2
<1>5. Multiply(x, y) = Fraction(a * c, b * f)
  BY <1>1 DEF Multiply
<1> QED
  BY <1>3, <1>4, <1>5, RatioOfFraction

LEMMA QuotientRatio ==
  ASSUME NEW x \in Fractions, NEW n \in Nat, NEW d \in Nat \ {0}, IsRatio(x, n, d),
         NEW y \in Fractions, NEW m \in Nat \ {0}, NEW e \in Nat \ {0}, IsRatio(y, m, e)
  PROVE  /\ n * e \in Nat /\ d * m \in Nat \ {0}
         /\ IsRatio(Divide(x, y), n * e, d * m)
<1>1. PICK a \in Nat, b \in Nat \ {0}, c \in Nat, f \in Nat \ {0} :
        a = x.num /\ b = x.den /\ c = y.num /\ f = y.den
  BY FractionTypes
<1>2. a * d = n * b /\ c * e = m * f
  BY <1>1 DEF IsRatio
<1>3. c # 0
  <2>1. m * f # 0
    BY TimesKeepsOrder
  <2> QED
    BY <1>2, <2>1
<1>4. n * e \in Nat /\ d * m \in Nat \ {0} /\ a * f \in Nat /\ b * c \in Nat \ {0}
  BY <1>3, TimesKeepsOrder
<1>5. (a * f) * (d * m) = (n * e) * (b * c)
  <2>1. (a * f) * (d * m) = (a * d) * (m * f)
    OBVIOUS
  <2>2. (n * e) * (b * c) = (n * b) * (c * e)
    OBVIOUS
  <2> QED
    BY <1>2, <2>1, <2>2
<1>6. Divide(x, y) = Fraction(a * f, b * c)
  BY <1>1 DEF Divide
<1> QED
  BY <1>4, <1>5, <1>6, RatioOfFraction

LEMMA OrderOfRatios ==
  ASSUME NEW x \in Fractions, NEW n \in Nat, NEW d \in Nat \ {0}, IsRatio(x, n, d),
         NEW y \in Fractions, NEW m \in Nat, NEW e \in Nat \ {0}, IsRatio(y, m, e)
  PROVE  Leq(x, y) <=> n * e <= m * d
<1>1. PICK a \in Nat, b \in Nat \ {0}, c \in Nat, f \in Nat \ {0} :
        a = x.num /\ b = x.den /\ c = y.num /\ f = y.den
  BY FractionTypes
<1>2. a * d = n * b /\ c * e = m * f
  BY <1>1 DEF IsRatio
<1>3. ASSUME NEW p \in Int, NEW k \in Nat \ {0}
      PROVE  p * k <= 0 <=> p <= 0
  <2>1. p > 0 => p * k > 0
    OBVIOUS
  <2>2. p <= 0 => p * k <= 0
    OBVIOUS
  <2> QED
    BY <2>1, <2>2
<1>4. PICK k \in Nat \ {0}, l \in Nat \ {0} : k = d * e /\ l = b * f
  BY TimesKeepsOrder
<1>5. (a * f - c * b) * k = (n * e - m * d) * l
  <2>1. (a * f - c * b) * (d * e) = (a * d) * (f * e) - (c * e) * (b * d)
    OBVIOUS
  <2>2. (n * e - m * d) * (b * f) = (n * b) * (f * e) - (m * f) * (b * d)
    OBVIOUS
  <2> QED
    BY <1>2, <1>4, <2>1, <2>2
<1>6. a * f - c * b <= 0 <=> n * e - m * d <= 0
  BY <1>3, <1>5
<1>7. Leq(x, y) <=> a * f <= c * b
  BY <1>1 DEF Leq
<1> QED
  BY <1>6, <1>7

LEMMA ZeroRatio ==
  /\ Zero \in Fractions /\ \A d \in Nat \ {0} : IsRatio(Zero, 0, d)
  /\ \A x \in Fractions, d \in Nat \ {0} : IsRatio(x, 0, d) => x = Zero
<1>1. Zero \in Fractions /\ Zero.num = 0 /\ Zero.den = 1
  BY WholeFits DEF Zero
<1>2. ASSUME NEW d \in Nat \ {0} PROVE IsRatio(Zero, 0, d)
  BY <1>1 DEF IsRatio
<1>3. ASSUME NEW x \in Fractions, NEW d \in Nat \ {0}, IsRatio(x, 0, d) PROVE x = Zero
  BY <1>1, <1>2, <1>3, OneFraction
<1> QED
  BY <1>1, <1>2, <1>3

LEMMA WholeRatio ==
  ASSUME NEW n \in Nat
  PROVE  Whole(n) \in Fractions /\ IsRatio(Whole(n), n, 1)
BY WholeFits DEF IsRatio

LEMMA AddLaws ==
  ASSUME NEW x \in Fractions, NEW y \in Fractions, NEW z \in Fractions
  PROVE  /\ Add(x, y) \in Fractions
         /\ Add(x, y) = Add(y, x)
         /\ Add(Add(x, y), z) = Add(x, Add(y, z))
         /\ Add(x, Zero) = x /\ Add(Zero, x) = x
<1>1. PICK a \in Nat, b \in Nat \ {0}, c \in Nat, d \in Nat \ {0}, e \in Nat, f \in Nat \ {0} :
        IsRatio(x, a, b) /\ IsRatio(y, c, d) /\ IsRatio(z, e, f)
  BY OwnRatio
<1>2. \A u, v \in Fractions : Add(u, v) \in Fractions
  BY AddFits
<1>3. Add(x, y) = Add(y, x)
  <2>1. PICK n \in Nat, k \in Nat \ {0} : n = a * d + c * b /\ k = b * d
    BY TimesKeepsOrder
  <2>2. IsRatio(Add(x, y), n, k)
    BY <1>1, <2>1, SumRatio
  <2>3. n = c * b + a * d /\ k = d * b
    BY <2>1
  <2>4. IsRatio(Add(y, x), n, k)
    BY <1>1, <2>3, SumRatio
  <2> QED
    BY <1>2, <2>2, <2>4, OneFraction
<1>4. Add(Add(x, y), z) = Add(x, Add(y, z))
  <2>1. PICK n \in Nat, k \in Nat \ {0} : n = a * d + c * b /\ k = b * d /\ IsRatio(Add(x, y), n, k)
    BY <1>1, SumRatio
  <2>2. PICK m \in Nat, l \in Nat \ {0} : m = c * f + e * d /\ l = d * f /\ IsRatio(Add(y, z), m, l)
    BY <1>1, SumRatio
  <2>3. PICK p \in Nat, q \in Nat \ {0} : p = n * f + e * k /\ q = k * f /\ IsRatio(Add(Add(x, y), z), p, q)
    BY <1>1, <1>2, <2>1, SumRatio
  <2>4. /\ a * l + m * b \in Nat /\ b * l \in Nat \ {0}
        /\ IsRatio(Add(x, Add(y, z)), a * l + m * b, b * l)
    BY <1>1, <1>2, <2>2, SumRatio
  <2>5. q = b * l
    <3>1. (b * d) * f = b * (d * f)
      OBVIOUS
    <3> QED
      BY <2>1, <2>2, <2>3, <3>1
  <2>6. p = a * l + m * b
    <3>1. (a * d + c * b) * f + e * (b * d) = a * (d * f) + (c * f + e * d) * b
      OBVIOUS
    <3> QED
      BY <2>1, <2>2, <2>3, <3>1
  <2>7. IsRatio(Add(x, Add(y, z)), p, q)
    BY <2>4, <2>5, <2>6
  <2> QED
    BY <1>2, <2>3, <2>7, OneFraction
<1>5. Add(x, Zero) = x
  <2>1. IsRatio(Zero, 0, b)
    BY ZeroRatio
  <2>2. PICK n \in Nat, k \in Nat \ {0} : n = a * b + 0 * b /\ k = b * b /\ IsRatio(Add(x, Zero), n, k)
    BY <1>1, <2>1, ZeroRatio, SumRatio
  <2>3. PICK g \in Nat, h \in Nat \ {0} : g = x.num /\ h = x.den /\ g * b = a * h
    BY <1>1, FractionTypes DEF IsRatio
  <2>4. g * (b * b) = (a * b) * h
    <3>1. (g * b) * b = (a * h) * b
      BY <2>3
    <3>2. (g * b) * b = g * (b * b) /\ (a * h) * b = (a * b) * h
      OBVIOUS
    <3> QED
      BY <3>1, <3>2
  <2>5. n = a * b
    BY <2>2
  <2>6. IsRatio(x, n, k)
    BY <2>2, <2>3, <2>4, <2>5 DEF IsRatio
  <2> QED
    BY <1>2, <2>2, <2>6, OneFraction, ZeroRatio
<1>6. Add(Zero, x) = Add(x, Zero)
  <2>1. PICK n \in Nat, k \in Nat \ {0} : n = a * b + 0 * b /\ k = b * b /\ IsRatio(Add(x, Zero), n, k)
    BY <1>1, ZeroRatio, SumRatio
  <2>2. PICK m \in Nat, l \in Nat \ {0} : m = 0 * b + a * b /\ l = b * b /\ IsRatio(Add(Zero, x), m, l)
    BY <1>1, ZeroRatio, SumRatio
  <2>3. m = n /\ l = k
    BY <2>1, <2>2
  <2> QED
    BY <1>2, <2>1, <2>2, <2>3, OneFraction, ZeroRatio
<1> QED
  BY <1>2, <1>3, <1>4, <1>5, <1>6

LEMMA AddSwaps ==
  ASSUME NEW x \in Fractions, NEW y \in Fractions, NEW z \in Fractions
  PROVE  Add(x, Add(y, z)) = Add(y, Add(x, z))
<1>1. Add(Add(x, y), z) = Add(x, Add(y, z)) /\ Add(x, y) = Add(y, x)
  BY AddLaws
<1>2. Add(Add(y, x), z) = Add(y, Add(x, z))
  BY AddLaws
<1> QED
  BY <1>1, <1>2

LEMMA MultiplyDistributes ==
  ASSUME NEW x \in Fractions, NEW y \in Fractions, NEW z \in Fractions
  PROVE  /\ Multiply(Add(x, y), z) = Add(Multiply(x, z), Multiply(y, z))
         /\ Multiply(Zero, z) = Zero
<1>1. PICK a \in Nat, b \in Nat \ {0}, c \in Nat, d \in Nat \ {0}, e \in Nat, f \in Nat \ {0} :
        IsRatio(x, a, b) /\ IsRatio(y, c, d) /\ IsRatio(z, e, f)
  BY OwnRatio
<1>2. \A u, v \in Fractions : Add(u, v) \in Fractions /\ Multiply(u, v) \in Fractions
  BY AddFits, MultiplyFits
<1>3. Multiply(Add(x, y), z) = Add(Multiply(x, z), Multiply(y, z))
  <2>1. PICK n \in Nat, k \in Nat \ {0} : n = a * d + c * b /\ k = b * d /\ IsRatio(Add(x, y), n, k)
    BY <1>1, SumRatio
  <2>2. PICK p \in Nat, q \in Nat \ {0} : p = n * e /\ q = k * f /\ IsRatio(Multiply(Add(x, y), z), p, q)
    BY <1>1, <1>2, <2>1, ProductRatio
  <2>3. PICK g \in Nat, h \in Nat \ {0} : g = a * e /\ h = b * f /\ IsRatio(Multiply(x, z), g, h)
    BY <1>1, ProductRatio
  <2>4. PICK i \in Nat, j \in Nat \ {0} : i = c * e /\ j = d * f /\ IsRatio(Multiply(y, z), i, j)
    BY <1>1, ProductRatio
  <2>5. PICK m \in Nat, l \in Nat \ {0} :
          m = g * j + i * h /\ l = h * j /\ IsRatio(Add(Multiply(x, z), Multiply(y, z)), m, l)
    BY <1>2, <2>3, <2>4, SumRatio
  <2>6. m = p * f /\ l = q * f
    <3>1. (a * e) * (d * f) + (c * e) * (b * f) = ((a * d + c * b) * e) * f /\ (b * f) * (d * f) = ((b * d) * f) * f
      OBVIOUS
    <3> QED
      BY <2>1, <2>2, <2>3, <2>4, <2>5, <3>1
  <2>7. IsRatio(Multiply(Add(x, y), z), m, l)
    <3>1. PICK s \in Nat, t \in Nat \ {0} : s = Multiply(Add(x, y), z).num /\ t = Multiply(Add(x, y), z).den /\ s * q = p * t
      BY <1>2, <2>2, FractionTypes DEF IsRatio
    <3>2. s * (q * f) = (p * f) * t
      <4>1. (s * q) * f = (p * t) * f
        BY <3>1
      <4>2. (s * q) * f = s * (q * f) /\ (p * t) * f = (p * f) * t
        OBVIOUS
      <4> QED
        BY <4>1, <4>2
    <3> QED
      BY <2>6, <3>1, <3>2 DEF IsRatio
  <2> QED
    BY <1>2, <2>5, <2>7, OneFraction
<1>4. Multiply(Zero, z) = Zero
  <2>1. PICK n \in Nat, k \in Nat \ {0} : n = 0 * e /\ k = b * f /\ IsRatio(Multiply(Zero, z), n, k)
    BY <1>1, ZeroRatio, ProductRatio
  <2>2. n = 0
    BY <2>1
  <2> QED
    BY <1>2, <2>1, <2>2, ZeroRatio
<1> QED
  BY <1>3, <1>4

-----------------------------------------------------------------------------
(* Sums in any order and by parts.                                         *)

LEMMA ImageIsFinite ==
  ASSUME NEW S, IsFiniteSet(S), NEW f
  PROVE  IsFiniteSet({ f[x] : x \in S })
<1> DEFINE T == { f[x] : x \in S }
           g == [x \in S |-> f[x]]
<1>1. g \in Surjection(S, T)
  BY DEF Surjection
<1> QED
  BY <1>1, FS_Surjection

LEMMA SubsetsAreWellFounded ==
  ASSUME NEW S, IsFiniteSet(S)
  PROVE  IsWellFoundedOn(StrictSubsetOrdering(S), SUBSET S)
<1>1. FiniteSubsetsOf(S) = SUBSET S
  BY FS_FiniteSubsetsOfFinite
<1> QED
  BY <1>1, FS_StrictSubsetOrderingWellFounded

\* A set that is reached whenever everything smaller is.
LEMMA FromSmaller ==
  ASSUME NEW S, IsFiniteSet(S), NEW Good,
         ASSUME NEW s \in SUBSET S, \A t \in SUBSET s : t # s => t \in Good
         PROVE  s \in Good
  PROVE  S \in Good
<1> DEFINE Bad == { s \in SUBSET S : s \notin Good }
<1> SUFFICES ASSUME S \notin Good PROVE FALSE
  OBVIOUS
<1>1. S \in Bad /\ Bad \subseteq SUBSET S
  OBVIOUS
<1>2. IsWellFoundedOn(StrictSubsetOrdering(S), SUBSET S)
  BY SubsetsAreWellFounded
<1> DEFINE R == StrictSubsetOrdering(S)
<1>3. PICK s \in Bad : \A t \in Bad : <<t, s>> \notin R
  <2> HIDE DEF Bad
  <2>1. Bad # {}
    BY <1>1
  <2>2. IsWellFoundedOn(R, SUBSET S)
    BY <1>2
  <2> HIDE DEF R
  <2>3. \E s \in Bad : \A t \in Bad : ~(<<t, s>> \in R)
    BY <1>1, <2>1, <2>2, WFMin
  <2> QED
    BY <2>3, Zenon
<1>4. ASSUME NEW t \in SUBSET s, t # s PROVE t \in Good
  <2>1. <<t, s>> \in StrictSubsetOrdering(S)
    BY <1>4 DEF StrictSubsetOrdering
  <2> QED
    BY <1>3, <2>1
<1>5. s \in SUBSET S
  OBVIOUS
<1>6. s \in Good
  BY <1>4, <1>5
<1> QED
  BY <1>6

\* h tells how the sum of f is made, one element after the other.
Tells(h, f) ==
  /\ SumOf(f) = h[DOMAIN f] /\ h[{}] = Zero
  /\ \A s \in SUBSET DOMAIN f :
       s # {} => h[s] = Add(f[CHOOSE t \in s : TRUE], h[s \ {CHOOSE t \in s : TRUE}])

LEMMA SumIsTold ==
  ASSUME NEW f, IsFiniteSet(DOMAIN f), \A x \in DOMAIN f : f[x] \in Fractions
  PROVE  \E h : Tells(h, f)
<1>1. PICK h : /\ SumOf(f) = h[DOMAIN f]
               /\ h[{}] = Zero
               /\ \A s \in SUBSET DOMAIN f :
                    s # {} => h[s] = Add(f[CHOOSE t \in s : TRUE], h[s \ {CHOOSE t \in s : TRUE}])
  BY SumStep
<1>2. Tells(h, f)
  BY <1>1, Zenon DEF Tells
<1> QED
  BY <1>2

\* The sums of the parts of a family, which the sum is made from.
LEMMA SumsOfParts ==
  ASSUME NEW f, IsFiniteSet(DOMAIN f), \A x \in DOMAIN f : f[x] \in Fractions
  PROVE  /\ SumOf(Restrict(f, {})) = Zero
         /\ \A s \in SUBSET DOMAIN f :
              /\ SumOf(Restrict(f, s)) \in Fractions
              /\ s # {} => SumOf(Restrict(f, s)) = Add(f[CHOOSE t \in s : TRUE],
                                                       SumOf(Restrict(f, s \ {CHOOSE t \in s : TRUE})))
<1> DEFINE D == DOMAIN f
           Follows(h, S) == /\ h[{}] = Zero
                            /\ \A s \in SUBSET S :
                                 s # {} => h[s] = Add(f[CHOOSE t \in s : TRUE], h[s \ {CHOOSE t \in s : TRUE}])
<1>1. ASSUME NEW S \in SUBSET D
      PROVE  SumOf(Restrict(f, S)) \in Fractions /\ \E h : SumOf(Restrict(f, S)) = h[S] /\ Follows(h, S)
  <2>1. PICK g : g = Restrict(f, S)
    OBVIOUS
  <2>2. DOMAIN g = S /\ \A x \in S : g[x] = f[x]
    BY <2>1 DEF Restrict
  <2>3. IsFiniteSet(S)
    BY FS_Subset
  <2>4. \A x \in S : g[x] \in Fractions
    BY <2>2
  <2>5. PICK h : /\ SumOf(g) = h[S]
                 /\ h[{}] = Zero
                 /\ \A s \in SUBSET S :
                      s # {} => h[s] = Add(g[CHOOSE t \in s : TRUE], h[s \ {CHOOSE t \in s : TRUE}])
    <3>1. IsFiniteSet(DOMAIN g) /\ \A x \in DOMAIN g : g[x] \in Fractions
      BY <2>2, <2>3, <2>4
    <3>2. \E h : Tells(h, g)
      BY <3>1, SumIsTold
    <3>3. PICK h : /\ SumOf(g) = h[DOMAIN g]
                   /\ h[{}] = Zero
                   /\ \A s \in SUBSET DOMAIN g :
                        s # {} => h[s] = Add(g[CHOOSE t \in s : TRUE], h[s \ {CHOOSE t \in s : TRUE}])
      BY <3>2, Zenon DEF Tells
    <3>4. SumOf(g) = h[S]
      BY <2>2, <3>3
    <3>5. ASSUME NEW s \in SUBSET S, s # {}
          PROVE  h[s] = Add(g[CHOOSE t \in s : TRUE], h[s \ {CHOOSE t \in s : TRUE}])
      BY <2>2, <3>3, <3>5
    <3> QED
      BY <3>3, <3>4, <3>5, Zenon
  <2>6. ASSUME NEW s \in SUBSET S, s # {} PROVE g[CHOOSE t \in s : TRUE] = f[CHOOSE t \in s : TRUE]
    <3>1. (CHOOSE t \in s : TRUE) \in s
      BY <2>6, Zenon
    <3> QED
      BY <2>2, <3>1
  <2>7. Follows(h, S)
    BY <2>5, <2>6
  <2>8. SumOf(g) \in Fractions
    BY <2>2, <2>3, <2>4, SumFits
  <2> QED
    BY <2>1, <2>5, <2>7, <2>8
<1>2. ASSUME NEW S \in SUBSET D, NEW h, Follows(h, D), NEW g, Follows(g, S)
      PROVE  g[S] = h[S]
  <2> DEFINE Good == { s \in SUBSET S : g[s] = h[s] }
  <2>1. {} \in Good
    BY <1>2
  <2>2. ASSUME NEW s \in SUBSET S, s # {}, s \ {CHOOSE x \in s : TRUE} \in Good
        PROVE  s \in Good
    <3>1. PICK x, r : x = (CHOOSE t \in s : TRUE) /\ r = s \ {CHOOSE t \in s : TRUE}
      OBVIOUS
    <3>2. g[s] = Add(f[x], g[r]) /\ h[s] = Add(f[x], h[r])
      BY <1>2, <2>2, <3>1
    <3> QED
      BY <2>2, <3>1, <3>2
  <2>3. S \in Good
    <3>1. IsFiniteSet(S)
      BY FS_Subset
    <3> HIDE DEF Good
    <3> QED
      BY <2>1, <2>2, <3>1, TakingAway
  <2> QED
    BY <2>3
<1>3. PICK h : Follows(h, D)
  <2>1. D \in SUBSET D
    OBVIOUS
  <2> HIDE DEF Follows, D
  <2> QED
    BY <1>1, <2>1, Zenon
<1>4. ASSUME NEW S \in SUBSET D PROVE SumOf(Restrict(f, S)) = h[S]
  <2>1. PICK g : SumOf(Restrict(f, S)) = g[S] /\ Follows(g, S)
    BY <1>1
  <2> HIDE DEF Follows
  <2> QED
    BY <1>2, <1>3, <2>1
<1>5. {} \in SUBSET D
  OBVIOUS
<1>6. SumOf(Restrict(f, {})) = Zero
  BY <1>3, <1>4, <1>5
<1>7. ASSUME NEW s \in SUBSET D, s # {}
      PROVE  SumOf(Restrict(f, s)) = Add(f[CHOOSE t \in s : TRUE], SumOf(Restrict(f, s \ {CHOOSE t \in s : TRUE})))
  <2>1. PICK x, r : x = (CHOOSE t \in s : TRUE) /\ r = s \ {CHOOSE t \in s : TRUE}
    OBVIOUS
  <2>2. r \in SUBSET D
    BY <2>1
  <2>3. h[s] = Add(f[x], h[r])
    BY <1>3, <1>7, <2>1
  <2>4. SumOf(Restrict(f, s)) = h[s] /\ SumOf(Restrict(f, r)) = h[r]
    BY <1>4, <2>2
  <2> QED
    BY <2>1, <2>3, <2>4
<1> QED
  BY <1>1, <1>6, <1>7

\* Any element may be added last.
LEMMA SumTakes ==
  ASSUME NEW f, IsFiniteSet(DOMAIN f), \A x \in DOMAIN f : f[x] \in Fractions,
         NEW S \in SUBSET DOMAIN f, NEW x \in S
  PROVE  SumOf(Restrict(f, S)) = Add(f[x], SumOf(Restrict(f, S \ {x})))
<1> DEFINE D == DOMAIN f
           Sum(s) == SumOf(Restrict(f, s))
           Good == { s \in SUBSET S : \A y \in s : Sum(s) = Add(f[y], Sum(s \ {y})) }
<1>1. ASSUME NEW s \in SUBSET S, \A t \in SUBSET s : t # s => t \in Good
      PROVE  s \in Good
  <2> SUFFICES ASSUME NEW y \in s PROVE Sum(s) = Add(f[y], Sum(s \ {y}))
    OBVIOUS
  <2>1. PICK c : c = CHOOSE t \in s : TRUE
    OBVIOUS
  <2>2. c \in s
    BY <2>1, Zenon
  <2>3. Sum(s) = Add(f[c], Sum(s \ {c}))
    <3>1. s \in SUBSET D /\ s # {}
      OBVIOUS
    <3> HIDE DEF D
    <3> QED
      BY <2>1, <3>1, SumsOfParts DEF D
  <2>4. CASE c = y
    BY <2>3, <2>4
  <2>5. CASE c # y
    <3>1. s \ {c} \in Good /\ s \ {y} \in Good
      BY <1>1, <2>2
    <3>2. PICK rest : rest = (s \ {c}) \ {y}
      OBVIOUS
    <3>3. (s \ {y}) \ {c} = rest
      BY <3>2
    <3>4. Sum(s \ {c}) = Add(f[y], Sum(rest)) /\ Sum(s \ {y}) = Add(f[c], Sum(rest))
      BY <2>2, <2>5, <3>1, <3>2, <3>3
    <3>5. f[c] \in Fractions /\ f[y] \in Fractions /\ Sum(rest) \in Fractions
      <4>1. rest \in SUBSET D /\ c \in D /\ y \in D
        BY <2>2, <3>2
      <4> QED
        BY <4>1, SumsOfParts
    <3>6. Add(f[c], Add(f[y], Sum(rest))) = Add(f[y], Add(f[c], Sum(rest)))
      <4>1. PICK a \in Fractions, b \in Fractions, d \in Fractions : a = f[c] /\ b = f[y] /\ d = Sum(rest)
        BY <3>5
      <4>2. Add(a, Add(b, d)) = Add(b, Add(a, d))
        BY AddSwaps
      <4> QED
        BY <4>1, <4>2
    <3> QED
      BY <2>3, <3>4, <3>6
  <2> QED
    BY <2>4, <2>5
<1>2. S \in Good
  <2>1. IsFiniteSet(S)
    BY FS_Subset
  <2> HIDE DEF Good
  <2> QED
    BY <1>1, <2>1, FromSmaller
<1> QED
  BY <1>2

\* What is in two sets that share nothing adds up apart.
LEMMA SumsAdd ==
  ASSUME NEW f, IsFiniteSet(DOMAIN f), \A x \in DOMAIN f : f[x] \in Fractions,
         NEW A \in SUBSET DOMAIN f, NEW B \in SUBSET DOMAIN f, A \cap B = {}
  PROVE  SumOf(Restrict(f, A \cup B)) = Add(SumOf(Restrict(f, A)), SumOf(Restrict(f, B)))
<1> DEFINE Sum(s) == SumOf(Restrict(f, s))
           Good == { s \in SUBSET B : Sum(A \cup s) = Add(Sum(A), Sum(s)) }
<1>0. \A s \in SUBSET DOMAIN f : Sum(s) \in Fractions
  BY SumsOfParts
<1>1. {} \in Good
  <2>1. Sum({}) = Zero /\ Sum(A) \in Fractions /\ A \cup {} = A
    BY SumsOfParts
  <2>2. PICK a \in Fractions : a = Sum(A)
    BY <2>1
  <2>3. Add(a, Zero) = a
    BY AddLaws
  <2> QED
    BY <2>1, <2>2, <2>3
<1>2. ASSUME NEW s \in SUBSET B, s # {}, s \ {CHOOSE x \in s : TRUE} \in Good
      PROVE  s \in Good
  <2>1. PICK x, r : x = (CHOOSE t \in s : TRUE) /\ r = s \ {CHOOSE t \in s : TRUE}
    OBVIOUS
  <2>2. x \in s /\ r = s \ {x}
    BY <1>2, <2>1, Zenon
  <2>3. (A \cup s) \ {x} = A \cup r
    BY <2>2
  <2>4. Sum(A \cup s) = Add(f[x], Sum(A \cup r))
    <3>1. PICK u \in SUBSET DOMAIN f : u = A \cup s /\ x \in u
      BY <2>2
    <3>2. Sum(u) = Add(f[x], Sum(u \ {x}))
      BY <3>1, SumTakes
    <3> QED
      BY <2>3, <3>1, <3>2
  <2>5. Sum(s) = Add(f[x], Sum(r))
    <3>1. s \in SUBSET DOMAIN f
      OBVIOUS
    <3> QED
      BY <2>2, <3>1, SumTakes
  <2>6. Sum(A \cup r) = Add(Sum(A), Sum(r))
    BY <1>2, <2>1
  <2>7. PICK p \in Fractions, q \in Fractions, k \in Fractions : p = f[x] /\ q = Sum(A) /\ k = Sum(r)
    BY <1>0, <2>2
  <2>8. Add(p, Add(q, k)) = Add(q, Add(p, k))
    BY AddSwaps
  <2>9. Sum(A \cup s) = Add(Sum(A), Sum(s))
    BY <2>4, <2>5, <2>6, <2>7, <2>8
  <2> QED
    BY <2>9
<1>3. B \in Good
  <2>1. IsFiniteSet(B)
    BY FS_Subset
  <2> HIDE DEF Good
  <2> QED
    BY <1>1, <1>2, <2>1, TakingAway
<1> QED
  BY <1>3

\* What adds nothing may be left out.
LEMMA SumOfZeros ==
  ASSUME NEW f, IsFiniteSet(DOMAIN f), \A x \in DOMAIN f : f[x] \in Fractions,
         NEW A \in SUBSET DOMAIN f, \A x \in A : f[x] = Zero
  PROVE  SumOf(Restrict(f, A)) = Zero
<1> DEFINE Good == { s \in SUBSET A : SumOf(Restrict(f, s)) = Zero }
<1>1. {} \in Good
  BY SumsOfParts
<1>2. ASSUME NEW s \in SUBSET A, s # {}, s \ {CHOOSE x \in s : TRUE} \in Good
      PROVE  s \in Good
  <2>1. PICK x, r : x = (CHOOSE t \in s : TRUE) /\ r = s \ {CHOOSE t \in s : TRUE}
    OBVIOUS
  <2>2. x \in s
    BY <1>2, <2>1, Zenon
  <2>3. SumOf(Restrict(f, s)) = Add(f[x], SumOf(Restrict(f, r)))
    BY <1>2, <2>1, SumsOfParts
  <2>4. Add(Zero, Zero) = Zero
    BY AddLaws, ZeroRatio
  <2> QED
    BY <1>2, <2>1, <2>2, <2>3, <2>4
<1>3. A \in Good
  <2>1. IsFiniteSet(A)
    BY FS_Subset
  <2> HIDE DEF Good
  <2> QED
    BY <1>1, <1>2, <2>1, TakingAway
<1> QED
  BY <1>3

\* All of a family is the family.
LEMMA SumOfWhole ==
  ASSUME NEW f, IsFiniteSet(DOMAIN f), \A x \in DOMAIN f : f[x] \in Fractions
  PROVE  SumOf(Restrict(f, DOMAIN f)) = SumOf(f)
<1>1. PICK D : D = DOMAIN f
  OBVIOUS
<1>2. PICK g : g = Restrict(f, D)
  OBVIOUS
<1>3. DOMAIN g = D /\ \A x \in D : g[x] = f[x]
  BY <1>2 DEF Restrict
<1>4. PICK h : Tells(h, f)
  BY SumIsTold
<1>5. PICK k : Tells(k, g)
  <2>1. IsFiniteSet(DOMAIN g) /\ \A x \in DOMAIN g : g[x] \in Fractions
    BY <1>1, <1>3
  <2> QED
    BY <2>1, SumIsTold
<1> DEFINE Good == { s \in SUBSET D : k[s] = h[s] }
<1>6. /\ SumOf(f) = h[D] /\ h[{}] = Zero /\ SumOf(g) = k[D] /\ k[{}] = Zero
      /\ \A s \in SUBSET D : s # {} =>
           /\ h[s] = Add(f[CHOOSE t \in s : TRUE], h[s \ {CHOOSE t \in s : TRUE}])
           /\ k[s] = Add(g[CHOOSE t \in s : TRUE], k[s \ {CHOOSE t \in s : TRUE}])
  BY <1>1, <1>3, <1>4, <1>5 DEF Tells
<1>7. {} \in Good
  BY <1>6
<1>8. ASSUME NEW s \in SUBSET D, s # {}, s \ {CHOOSE x \in s : TRUE} \in Good
      PROVE  s \in Good
  <2>1. PICK x, r : x = (CHOOSE t \in s : TRUE) /\ r = s \ {CHOOSE t \in s : TRUE}
    OBVIOUS
  <2>2. x \in s
    BY <1>8, <2>1, Zenon
  <2>3. k[s] = Add(g[x], k[r]) /\ h[s] = Add(f[x], h[r])
    BY <1>6, <1>8, <2>1
  <2> QED
    BY <1>3, <1>8, <2>1, <2>2, <2>3
<1>9. D \in Good
  <2>1. IsFiniteSet(D)
    BY <1>1
  <2> HIDE DEF Good
  <2> QED
    BY <1>7, <1>8, <2>1, TakingAway
<1> QED
  BY <1>1, <1>2, <1>6, <1>9

\* A family whose members are the sums of the parts of another has the same sum.
LEMMA SumByParts ==
  ASSUME NEW v, IsFiniteSet(DOMAIN v), \A x \in DOMAIN v : v[x] \in Fractions,
         NEW w, IsFiniteSet(DOMAIN w), \A l \in DOMAIN w : w[l] \in Fractions,
         NEW part \in [DOMAIN v -> DOMAIN w],
         \A l \in DOMAIN w : w[l] = SumOf(Restrict(v, { x \in DOMAIN v : part[x] = l }))
  PROVE  SumOf(w) = SumOf(v)
<1> DEFINE In(s) == { x \in DOMAIN v : part[x] \in s }
           L == DOMAIN w
           Good == { s \in SUBSET L : SumOf(Restrict(w, s)) = SumOf(Restrict(v, In(s))) }
<1>1. {} \in Good
  <2>1. In({}) = {}
    OBVIOUS
  <2>2. SumOf(Restrict(w, {})) = Zero /\ SumOf(Restrict(v, {})) = Zero
    BY SumsOfParts
  <2> QED
    BY <2>1, <2>2
<1>2. ASSUME NEW s \in SUBSET L, s # {}, s \ {CHOOSE x \in s : TRUE} \in Good
      PROVE  s \in Good
  <2>1. PICK x, r : x = (CHOOSE t \in s : TRUE) /\ r = s \ {CHOOSE t \in s : TRUE}
    OBVIOUS
  <2>2. x \in s /\ r = s \ {x}
    BY <1>2, <2>1, Zenon
  <2>3. PICK own : own = { e \in DOMAIN v : part[e] = x }
    OBVIOUS
  <2>4. In(s) = own \cup In(r) /\ own \cap In(r) = {}
    BY <2>2, <2>3
  <2>5. SumOf(Restrict(w, s)) = Add(w[x], SumOf(Restrict(w, r)))
    BY <1>2, <2>1, SumsOfParts
  <2>6. SumOf(Restrict(v, own \cup In(r))) = Add(SumOf(Restrict(v, own)), SumOf(Restrict(v, In(r))))
    <3>1. own \in SUBSET DOMAIN v /\ In(r) \in SUBSET DOMAIN v
      BY <2>3
    <3> HIDE DEF In
    <3> QED
      BY <2>4, <3>1, SumsAdd
  <2>7. w[x] = SumOf(Restrict(v, own))
    BY <2>2, <2>3
  <2>8. SumOf(Restrict(w, r)) = SumOf(Restrict(v, In(r)))
    BY <1>2, <2>1
  <2>9. SumOf(Restrict(w, s)) = SumOf(Restrict(v, In(s)))
    <3> HIDE DEF In
    <3> QED
      BY <2>4, <2>5, <2>6, <2>7, <2>8
  <2> QED
    BY <2>9
<1>3. L \in Good
  <2>1. IsFiniteSet(L)
    OBVIOUS
  <2> HIDE DEF Good, L
  <2> QED
    BY <1>1, <1>2, <2>1, TakingAway
<1>4. In(L) = DOMAIN v
  OBVIOUS
<1>5. SumOf(Restrict(w, DOMAIN w)) = SumOf(Restrict(v, DOMAIN v))
  BY <1>3, <1>4
<1> QED
  BY <1>5, SumOfWhole

LEMMA SameRatio ==
  ASSUME NEW x \in Fractions, NEW y \in Fractions,
         NEW n \in Nat, NEW d \in Nat \ {0}, NEW m \in Nat, NEW e \in Nat \ {0},
         IsRatio(x, n, d), IsRatio(y, m, e), n * e = m * d
  PROVE  x = y
<1>1. IsRatio(x, m, e)
  <2>1. PICK a \in Nat, b \in Nat \ {0} : a = x.num /\ b = x.den
    BY FractionTypes
  <2>2. a * d = n * b
    BY <2>1 DEF IsRatio
  <2>3. (a * e) * d = (m * b) * d
    <3>1. (a * d) * e = (n * b) * e
      BY <2>2
    <3>2. (a * d) * e = (a * e) * d /\ (n * b) * e = (n * e) * b /\ (m * d) * b = (m * b) * d
      OBVIOUS
    <3> QED
      BY <3>1, <3>2
  <2>4. a * e = m * b
    BY <2>3, Cancels
  <2> QED
    BY <2>1, <2>4 DEF IsRatio
<1> QED
  BY <1>1, OneFraction

LEMMA MultiplyLaws ==
  ASSUME NEW x \in Fractions, NEW y \in Fractions, NEW z \in Fractions
  PROVE  /\ Multiply(x, y) \in Fractions
         /\ Multiply(x, y) = Multiply(y, x)
         /\ Multiply(Multiply(x, y), z) = Multiply(x, Multiply(y, z))
         /\ Multiply(x, One) = x
<1>1. PICK a \in Nat, b \in Nat \ {0}, c \in Nat, d \in Nat \ {0}, e \in Nat, f \in Nat \ {0} :
        IsRatio(x, a, b) /\ IsRatio(y, c, d) /\ IsRatio(z, e, f)
  BY OwnRatio
<1>2. \A u, v \in Fractions : Multiply(u, v) \in Fractions
  BY MultiplyFits
<1>3. Multiply(x, y) = Multiply(y, x)
  <2>1. IsRatio(Multiply(x, y), a * c, b * d) /\ a * c \in Nat /\ b * d \in Nat \ {0}
    BY <1>1, ProductRatio
  <2>2. IsRatio(Multiply(y, x), c * a, d * b) /\ c * a = a * c /\ d * b = b * d
    BY <1>1, ProductRatio
  <2> QED
    BY <1>2, <2>1, <2>2, OneFraction
<1>4. Multiply(Multiply(x, y), z) = Multiply(x, Multiply(y, z))
  <2>1. PICK n \in Nat, k \in Nat \ {0} : n = a * c /\ k = b * d /\ IsRatio(Multiply(x, y), n, k)
    BY <1>1, ProductRatio
  <2>2. PICK m \in Nat, l \in Nat \ {0} : m = c * e /\ l = d * f /\ IsRatio(Multiply(y, z), m, l)
    BY <1>1, ProductRatio
  <2>3. IsRatio(Multiply(Multiply(x, y), z), n * e, k * f) /\ n * e \in Nat /\ k * f \in Nat \ {0}
    BY <1>1, <1>2, <2>1, ProductRatio
  <2>4. IsRatio(Multiply(x, Multiply(y, z)), a * m, b * l)
    BY <1>1, <1>2, <2>2, ProductRatio
  <2>5. n * e = a * m /\ k * f = b * l
    BY <2>1, <2>2, TimesIsAssociative
  <2> QED
    BY <1>2, <2>3, <2>4, <2>5, OneFraction
<1>5. Multiply(x, One) = x
  <2>1. One \in Fractions /\ IsRatio(One, 1, 1)
    BY WholeRatio DEF One
  <2>2. IsRatio(Multiply(x, One), a * 1, b * 1)
    BY <1>1, <2>1, ProductRatio
  <2> QED
    BY <1>1, <1>2, <2>1, <2>2, OneFraction
<1> QED
  BY <1>2, <1>3, <1>4, <1>5

LEMMA QuotientLaws ==
  ASSUME NEW x \in Fractions, NEW y \in Positives
  PROVE  /\ Divide(x, y) \in Fractions
         /\ Multiply(Divide(x, y), y) = x
         /\ Divide(Multiply(x, y), y) = x
<1>1. y \in Fractions /\ y.num # 0
  BY DEF Positives
<1>2. PICK a \in Nat, b \in Nat \ {0}, c \in Nat \ {0}, d \in Nat \ {0} : IsRatio(x, a, b) /\ IsRatio(y, c, d)
  BY <1>1, OwnRatio
<1>3. Divide(x, y) \in Fractions /\ Multiply(x, y) \in Fractions
  BY <1>1, DivideFits, MultiplyFits
<1>4. Divide(Multiply(x, y), y) \in Fractions /\ Multiply(Divide(x, y), y) \in Fractions
  BY <1>1, <1>3, DivideFits, MultiplyFits
<1>5. Multiply(Divide(x, y), y) = x
  <2>1. PICK n \in Nat, k \in Nat \ {0} : n = a * d /\ k = b * c /\ IsRatio(Divide(x, y), n, k)
    BY <1>1, <1>2, QuotientRatio
  <2>2. PICK m \in Nat, l \in Nat \ {0} : m = n * c /\ l = k * d /\ IsRatio(Multiply(Divide(x, y), y), m, l)
    BY <1>1, <1>2, <1>3, <2>1, ProductRatio
  <2>3. m * b = a * l
    <3>1. ((a * d) * c) * b = a * ((b * c) * d)
      OBVIOUS
    <3> QED
      BY <2>1, <2>2, <3>1
  <2> QED
    BY <1>2, <1>4, <2>2, <2>3, SameRatio
<1>6. Divide(Multiply(x, y), y) = x
  <2>1. PICK n \in Nat, k \in Nat \ {0} : n = a * c /\ k = b * d /\ IsRatio(Multiply(x, y), n, k)
    BY <1>1, <1>2, ProductRatio
  <2>2. PICK m \in Nat, l \in Nat \ {0} : m = n * d /\ l = k * c /\ IsRatio(Divide(Multiply(x, y), y), m, l)
    BY <1>1, <1>2, <1>3, <2>1, QuotientRatio
  <2>3. m * b = a * l
    <3>1. ((a * c) * d) * b = a * ((b * d) * c)
      OBVIOUS
    <3> QED
      BY <2>1, <2>2, <3>1
  <2> QED
    BY <1>2, <1>4, <2>2, <2>3, SameRatio
<1> QED
  BY <1>3, <1>5, <1>6

\* Fractions are ordered as the numbers that they stand for.
LEMMA OrderLaws ==
  ASSUME NEW x \in Fractions, NEW y \in Fractions, NEW z \in Fractions
  PROVE  /\ Leq(x, x)
         /\ Leq(x, y) \/ Leq(y, x)
         /\ Leq(x, y) /\ Leq(y, z) => Leq(x, z)
         /\ Leq(Add(x, z), Add(y, z)) <=> Leq(x, y)
<1>1. PICK a \in Nat, b \in Nat \ {0}, c \in Nat, d \in Nat \ {0}, e \in Nat, f \in Nat \ {0} :
        IsRatio(x, a, b) /\ IsRatio(y, c, d) /\ IsRatio(z, e, f)
  BY OwnRatio
<1>2. Leq(x, y) <=> a * d <= c * b
  BY <1>1, OrderOfRatios
<1>3. Leq(y, x) <=> c * b <= a * d
  BY <1>1, OrderOfRatios
<1>4. Leq(x, x)
  BY <1>1, OrderOfRatios
<1>5. ASSUME Leq(x, y), Leq(y, z) PROVE Leq(x, z)
  <2>1. a * d <= c * b /\ c * f <= e * d
    BY <1>1, <1>2, <1>5, OrderOfRatios
  <2>2. (a * d) * f <= (c * b) * f /\ (c * f) * b <= (e * d) * b
    BY <2>1, TimesKeepsOrder
  <2>3. (a * d) * f = (a * f) * d /\ (c * b) * f = (c * f) * b /\ (e * d) * b = (e * b) * d
    OBVIOUS
  <2>4. (a * f) * d <= (e * b) * d
    BY <2>2, <2>3
  <2>5. a * f <= e * b
    <3>1. PICK p \in Nat, q \in Nat : p = a * f /\ q = e * b
      OBVIOUS
    <3>2. p * d <= q * d
      BY <2>4, <3>1
    <3>3. p <= q
      BY <3>2, TimesKeepsOrder
    <3> QED
      BY <3>1, <3>3
  <2> QED
    BY <1>1, <2>5, OrderOfRatios
<1>6. Leq(Add(x, z), Add(y, z)) <=> Leq(x, y)
  <2>1. PICK n \in Nat, k \in Nat \ {0} : n = a * f + e * b /\ k = b * f /\ IsRatio(Add(x, z), n, k)
    BY <1>1, SumRatio
  <2>2. PICK m \in Nat, l \in Nat \ {0} : m = c * f + e * d /\ l = d * f /\ IsRatio(Add(y, z), m, l)
    BY <1>1, SumRatio
  <2>3. Leq(Add(x, z), Add(y, z)) <=> n * l <= m * k
    BY <2>1, <2>2, AddFits, OrderOfRatios
  <2>4. PICK g \in Nat, h \in Nat \ {0}, p \in Nat, q \in Nat :
          h = f * f /\ g = ((e * b) * d) * f /\ p = a * d /\ q = c * b
    OBVIOUS
  <2>5. n * l = p * h + g /\ m * k = q * h + g
    <3>1. (a * f + e * b) * (d * f) = (a * d) * (f * f) + ((e * b) * d) * f
      OBVIOUS
    <3>2. (c * f + e * d) * (b * f) = (c * b) * (f * f) + ((e * b) * d) * f
      OBVIOUS
    <3> QED
      BY <2>1, <2>2, <2>4, <3>1, <3>2
  <2>6. p * h + g <= q * h + g <=> p <= q
    <3>1. p * h <= q * h <=> p <= q
      BY TimesKeepsOrder
    <3>2. p * h \in Nat /\ q * h \in Nat
      OBVIOUS
    <3> QED
      BY <3>1, <3>2
  <2> QED
    BY <1>2, <2>3, <2>4, <2>5, <2>6
<1> QED
  BY <1>2, <1>3, <1>4, <1>5, <1>6

LEMMA MultiplyKeepsOrder ==
  ASSUME NEW x \in Fractions, NEW y \in Fractions, NEW z \in Positives
  PROVE  Leq(Multiply(x, z), Multiply(y, z)) <=> Leq(x, y)
<1>1. z \in Fractions /\ z.num # 0
  BY DEF Positives
<1>2. PICK a \in Nat, b \in Nat \ {0}, c \in Nat, d \in Nat \ {0}, e \in Nat \ {0}, f \in Nat \ {0} :
        IsRatio(x, a, b) /\ IsRatio(y, c, d) /\ IsRatio(z, e, f)
  BY <1>1, OwnRatio
<1>3. PICK n \in Nat, k \in Nat \ {0} : n = a * e /\ k = b * f /\ IsRatio(Multiply(x, z), n, k)
  BY <1>1, <1>2, ProductRatio
<1>4. PICK m \in Nat, l \in Nat \ {0} : m = c * e /\ l = d * f /\ IsRatio(Multiply(y, z), m, l)
  BY <1>1, <1>2, ProductRatio
<1>5. Leq(Multiply(x, z), Multiply(y, z)) <=> n * l <= m * k
  BY <1>1, <1>3, <1>4, MultiplyFits, OrderOfRatios
<1>6. PICK h \in Nat \ {0}, p \in Nat, q \in Nat : h = e * f /\ p = a * d /\ q = c * b
  OBVIOUS
<1>7. n * l = p * h /\ m * k = q * h
  <2>1. (a * e) * (d * f) = (a * d) * (e * f) /\ (c * e) * (b * f) = (c * b) * (e * f)
    OBVIOUS
  <2> QED
    BY <1>3, <1>4, <1>6, <2>1
<1>8. p * h <= q * h <=> p <= q
  BY TimesKeepsOrder
<1>9. Leq(x, y) <=> p <= q
  BY <1>2, <1>6, OrderOfRatios
<1> QED
  BY <1>5, <1>7, <1>8, <1>9

\* The ceiling is the least whole number that is not below.
LEMMA CeilIsLeast ==
  ASSUME NEW x \in Fractions
  PROVE  /\ \E n \in Nat : Ceil(x) = Whole(n)
         /\ Leq(x, Ceil(x))
         /\ ~Leq(Add(x, One), Ceil(x))
         /\ \A m \in Nat : Leq(x, Whole(m)) => Leq(Ceil(x), Whole(m))
<1>1. PICK a \in Nat, b \in Nat \ {0} : a = x.num /\ b = x.den /\ IsRatio(x, a, b)
  BY OwnRatio
<1>2. PICK n \in Nat : Ceil(x) = Whole(n)
  BY CeilFits
<1>3. n = CeilOf(a, b)
  <2>1. Whole(n) = Whole(CeilOf(a, b))
    BY <1>1, <1>2 DEF Ceil
  <2> QED
    BY <2>1 DEF Whole
<1>4. a <= n * b /\ n * b < a + b
  <2>1. PICK q \in Nat, r \in Nat : q = a \div b /\ r = a % b /\ a = b * q + r /\ r < b
    OBVIOUS
  <2>2. n = q + (IF r = 0 THEN 0 ELSE 1)
    BY <1>3, <2>1 DEF CeilOf
  <2>3. CASE r = 0
    BY <2>1, <2>2, <2>3
  <2>4. CASE r # 0
    <3>1. n = q + 1
      BY <2>2, <2>4
    <3>2. (q + 1) * b = b * q + b
      OBVIOUS
    <3> QED
      BY <2>1, <2>4, <3>1, <3>2
  <2> QED
    BY <2>3, <2>4
<1>5. Whole(n) \in Fractions /\ IsRatio(Whole(n), n, 1)
  BY WholeRatio
<1>6. Leq(x, Whole(n))
  <2>1. Leq(x, Whole(n)) <=> a * 1 <= n * b
    BY <1>1, <1>5, OrderOfRatios
  <2> QED
    BY <1>4, <2>1
<1>7. ~Leq(Add(x, One), Whole(n))
  <2>1. One \in Fractions /\ IsRatio(One, 1, 1)
    BY WholeRatio DEF One
  <2>2. PICK m \in Nat, l \in Nat \ {0} : m = a * 1 + 1 * b /\ l = b * 1 /\ IsRatio(Add(x, One), m, l)
    BY <1>1, <2>1, SumRatio
  <2>3. Leq(Add(x, One), Whole(n)) <=> m * 1 <= n * l
    BY <1>5, <2>1, <2>2, AddFits, OrderOfRatios
  <2>4. m * 1 = a + b /\ l = b
    BY <2>2
  <2> QED
    BY <1>4, <2>3, <2>4
<1>8. ASSUME NEW m \in Nat, Leq(x, Whole(m)) PROVE Leq(Whole(n), Whole(m))
  <2>1. Whole(m) \in Fractions /\ IsRatio(Whole(m), m, 1)
    BY WholeRatio
  <2>2. Leq(x, Whole(m)) <=> a * 1 <= m * b
    BY <1>1, <2>1, OrderOfRatios
  <2>3. a <= m * b
    BY <1>8, <2>2
  <2>4. n <= m
    <3>1. ASSUME m < n PROVE FALSE
      <4>1. PICK k \in Nat : n = m + 1 + k
        <5>1. n = m + 1 + (n - m - 1) /\ n - m - 1 \in Nat
          BY <3>1
        <5> QED
          BY <5>1
      <4>2. n * b = m * b + b + k * b
        <5>1. (m + 1 + k) * b = m * b + b + k * b
          OBVIOUS
        <5> QED
          BY <4>1, <5>1
      <4>3. k * b >= 0 /\ m * b \in Nat /\ k * b \in Nat /\ n * b \in Nat
        OBVIOUS
      <4> QED
        BY <1>4, <2>3, <4>2, <4>3
    <3> QED
      BY <3>1
  <2> QED
    BY <2>4, WholesAdd
<1> QED
  BY <1>2, <1>6, <1>7, <1>8

\* x in whole parts of y: the least multiple of y that is not below x.
LEMMA RoundUp ==
  ASSUME NEW x \in Fractions, NEW y \in Positives
  PROVE  LET up == Multiply(Ceil(Divide(x, y)), y)
         IN /\ up \in Fractions
            /\ Leq(x, up)
            /\ ~Leq(Add(x, y), up)
            /\ Divide(up, y) = Ceil(Divide(x, y)) /\ IsInteger(Divide(up, y))
<1>1. y \in Fractions
  BY DEF Positives
<1>2. PICK q \in Fractions : q = Divide(x, y) /\ Multiply(q, y) = x
  BY QuotientLaws
<1>3. PICK c \in Fractions, n \in Nat : c = Ceil(q) /\ c = Whole(n)
  BY CeilIsLeast, WholeFits
<1>4. Leq(q, c) /\ ~Leq(Add(q, One), c)
  BY <1>3, CeilIsLeast
<1>5. Multiply(c, y) \in Fractions /\ Leq(x, Multiply(c, y))
  BY <1>1, <1>2, <1>4, MultiplyKeepsOrder, MultiplyFits
<1>6. ~Leq(Add(x, y), Multiply(c, y))
  <2>1. One \in Fractions
    BY WholeFits DEF One
  <2>2. Multiply(Add(q, One), y) = Add(Multiply(q, y), Multiply(One, y))
    BY <1>1, <2>1, MultiplyDistributes
  <2>3. Multiply(One, y) = y
    BY <1>1, <2>1, MultiplyLaws
  <2>4. Add(q, One) \in Fractions
    BY <2>1, AddFits
  <2>5. ~Leq(Multiply(Add(q, One), y), Multiply(c, y))
    BY <1>4, <2>4, MultiplyKeepsOrder
  <2> QED
    BY <1>2, <2>2, <2>3, <2>5
<1>7. Divide(Multiply(c, y), y) = c
  BY QuotientLaws
<1>8. IsInteger(c)
  BY <1>3, WholeFits DEF IsInteger
<1> QED
  BY <1>2, <1>3, <1>5, <1>6, <1>7, <1>8

LEMMA NotZero ==
  ASSUME NEW x \in Fractions, x # Zero
  PROVE  x \in Positives
BY FractionTypes

LEMMA AddsUp ==
  ASSUME NEW x \in Fractions, NEW y \in Fractions
  PROVE  Leq(x, Add(x, y))
<1>1. Zero \in Fractions /\ Leq(Zero, y)
  <2>1. PICK a \in Nat, b \in Nat \ {0} : IsRatio(y, a, b)
    BY OwnRatio
  <2>2. Zero \in Fractions /\ IsRatio(Zero, 0, 1)
    BY ZeroRatio
  <2>3. Leq(Zero, y) <=> 0 * b <= a * 1
    BY <2>1, <2>2, OrderOfRatios
  <2> QED
    BY <2>2, <2>3
<1>2. Leq(Add(Zero, x), Add(y, x)) <=> Leq(Zero, y)
  BY <1>1, OrderLaws
<1>3. Add(Zero, x) = x /\ Add(y, x) = Add(x, y)
  BY AddLaws
<1> QED
  BY <1>1, <1>2, <1>3

-----------------------------------------------------------------------------
(* What is left when a capacity is used up, one number after the other.    *)

LEMMA LeqBothWays ==
  ASSUME NEW x \in Fractions, NEW y \in Fractions, Leq(x, y), Leq(y, x)
  PROVE  x = y
<1>1. PICK a \in Nat, b \in Nat \ {0}, c \in Nat, d \in Nat \ {0} :
        a = x.num /\ b = x.den /\ c = y.num /\ d = y.den
  BY FractionTypes
<1>2. IsRatio(x, a, b) /\ IsRatio(y, c, d)
  BY <1>1, OwnRatio
<1>3. a * d <= c * b /\ c * b <= a * d
  BY <1>1 DEF Leq
<1>4. a * d = c * b
  <2>1. a * d \in Nat /\ c * b \in Nat
    OBVIOUS
  <2> QED
    BY <1>3, <2>1
<1> QED
  BY <1>2, <1>4, SameRatio

LEMMA ZeroIsLeast ==
  ASSUME NEW x \in Fractions
  PROVE  Zero \in Fractions /\ Leq(Zero, x)
<1>1. PICK a \in Nat, b \in Nat \ {0} : a = x.num /\ b = x.den
  BY FractionTypes
<1>2. Leq(Zero, x) <=> 0 * b <= a * 1
  BY <1>1 DEF Leq, Zero, Whole
<1>3. 0 * b = 0
  OBVIOUS
<1> QED
  BY <1>2, <1>3, WholeFits DEF Zero

LEMMA AddCancels ==
  ASSUME NEW x \in Fractions, NEW y \in Fractions, NEW z \in Fractions, Add(x, z) = Add(y, z)
  PROVE  x = y
<1>1. Add(x, z) \in Fractions /\ Leq(Add(x, z), Add(x, z))
  BY AddFits, OrderLaws
<1>2. Leq(x, y) /\ Leq(y, x)
  BY <1>1, OrderLaws
<1> QED
  BY <1>2, LeqBothWays

\* A difference is what is missing.
LEMMA SubtractLaws ==
  ASSUME NEW x \in Fractions, NEW y \in Fractions, ~Leq(x, y)
  PROVE  Subtract(x, y) \in Fractions /\ Add(Subtract(x, y), y) = x
<1>1. PICK a \in Nat, b \in Nat \ {0}, c \in Nat, d \in Nat \ {0} :
        a = x.num /\ b = x.den /\ c = y.num /\ d = y.den
  BY FractionTypes
<1>2. PICK p \in Nat, q \in Nat, r \in Nat \ {0} : p = a * d /\ q = c * b /\ r = b * d
  <2>1. a * d \in Nat /\ c * b \in Nat /\ b * d \in Nat \ {0}
    <3>1. b * d \in Nat /\ b * d # 0
      BY TimesKeepsOrder
    <3> QED
      BY <3>1
  <2> QED
    BY <2>1
<1>3. ~(p <= q)
  BY <1>1, <1>2 DEF Leq
<1>4. PICK n \in Nat : n = p - q
  BY <1>3
<1>5. PICK z \in Fractions : z = Subtract(x, y) /\ IsRatio(z, n, r)
  <2>1. Subtract(x, y) = Fraction(n, r)
    BY <1>1, <1>2, <1>4 DEF Subtract
  <2> QED
    BY <2>1, FractionRatio
<1>6. IsRatio(x, a, b) /\ IsRatio(y, c, d)
  BY <1>1, OwnRatio
<1>7. n * d + c * r \in Nat /\ r * d \in Nat \ {0} /\ IsRatio(Add(z, y), n * d + c * r, r * d)
  BY <1>5, <1>6, SumRatio
<1>8. (n * d + c * r) * b = a * (r * d)
  <2>1. n * d = (a * d) * d - (c * b) * d
    <3>1. n = a * d - c * b
      BY <1>2, <1>4
    <3> QED
      BY <3>1
  <2>2. c * r = (c * b) * d
    <3>1. c * (b * d) = (c * b) * d
      OBVIOUS
    <3> QED
      BY <1>2, <3>1
  <2>3. n * d + c * r = (a * d) * d
    <3>1. (a * d) * d \in Int /\ (c * b) * d \in Int
      OBVIOUS
    <3> QED
      BY <2>1, <2>2, <3>1
  <2>4. ((a * d) * d) * b = a * ((b * d) * d)
    OBVIOUS
  <2> QED
    BY <1>2, <2>3, <2>4
<1>9. Add(z, y) = x
  <2>1. Add(z, y) \in Fractions
    BY AddFits
  <2> QED
    BY <1>6, <1>7, <1>8, <2>1, SameRatio
<1> QED
  BY <1>5, <1>9

Excess(x, c) == IF Leq(x, c) THEN Zero ELSE Subtract(x, c)

\* The excess of a sum is that of one part, and what the capacity left by it does not cover
\* of the other.
LEMMA ExcessAdds ==
  ASSUME NEW x \in Fractions, NEW s \in Fractions, NEW c \in Fractions,
         NEW t, t = Add(x, s),
         NEW r, r = IF Leq(t, c) THEN Zero ELSE Minimum(x, Subtract(t, c))
  PROVE  Excess(t, c) \in Fractions /\ r \in Fractions /\ Add(r, Excess(s, c)) = Excess(t, c)
<1>1. t \in Fractions /\ Zero \in Fractions
  BY AddFits, WholeFits DEF Zero
<1>2. Add(s, x) = t /\ Add(Zero, s) = s /\ Add(Zero, x) = x /\ Add(Zero, Zero) = Zero
  BY <1>1, AddLaws
<1>3. Leq(Zero, x)
  BY ZeroIsLeast
<1>4. Leq(s, t)
  <2>1. Leq(Add(Zero, s), Add(x, s))
    BY <1>1, <1>3, OrderLaws
  <2> QED
    BY <1>2, <2>1
<1>5. CASE Leq(t, c)
  <2>1. Leq(s, c)
    BY <1>1, <1>4, <1>5, OrderLaws
  <2> QED
    BY <1>1, <1>2, <1>5, <2>1 DEF Excess
<1>6. CASE ~Leq(t, c)
  <2>1. PICK d \in Fractions : d = Subtract(t, c) /\ Add(d, c) = t
    BY <1>1, <1>6, SubtractLaws
  <2>2. r = Minimum(x, d) /\ Excess(t, c) = d
    BY <1>6, <2>1 DEF Excess
  <2>3. CASE Leq(s, c)
    <3>1. Leq(Add(s, d), Add(c, d))
      BY <2>3, OrderLaws
    <3>2. Add(s, d) = Add(d, s) /\ Add(c, d) = t
      BY <2>1, AddLaws
    <3>3. Leq(d, x)
      BY <3>1, <3>2, OrderLaws
    <3>4. r = d
      BY <2>2, <3>3, LeqBothWays DEF Minimum
    <3>5. Add(d, Zero) = d
      BY <1>1, AddLaws
    <3> QED
      BY <2>2, <2>3, <3>4, <3>5 DEF Excess
  <2>4. CASE ~Leq(s, c)
    <3>1. PICK e \in Fractions : e = Subtract(s, c) /\ Add(e, c) = s
      BY <2>4, SubtractLaws
    <3>2. Add(Add(x, e), c) = t
      BY <3>1, AddLaws
    <3>3. Add(x, e) \in Fractions
      BY <3>1, AddFits
    <3>4. d = Add(x, e)
      BY <2>1, <3>2, <3>3, AddCancels
    <3>5. Leq(x, d)
      <4>1. Leq(Zero, e)
        BY <3>1, ZeroIsLeast
      <4>2. Leq(Add(Zero, x), Add(e, x)) /\ Add(e, x) = d
        BY <1>1, <3>4, <4>1, OrderLaws, AddLaws
      <4> QED
        BY <1>2, <4>2
    <3>6. r = x
      BY <2>2, <3>5 DEF Minimum
    <3> QED
      BY <2>2, <2>4, <3>1, <3>4, <3>6 DEF Excess
  <2> QED
    BY <2>3, <2>4
<1> QED
  BY <1>5, <1>6

\* What number x leaves of the capacity c uncovered, after the numbers of a lower rank.
Through(f, rank, x) == SumOf(Restrict(f, { y \in DOMAIN f : rank[y] <= rank[x] }))
Uncovered(f, rank, c, x) ==
  IF Leq(Through(f, rank, x), c) THEN Zero ELSE Minimum(f[x], Subtract(Through(f, rank, x), c))

\* Whatever their ranks, together they leave the excess of their sum.
LEMMA UncoveredSum ==
  ASSUME NEW f, IsFiniteSet(DOMAIN f), \A x \in DOMAIN f : f[x] \in Fractions,
         NEW n \in Nat, NEW rank, \A x \in DOMAIN f : rank[x] \in 1..n,
         \A x, y \in DOMAIN f : rank[x] = rank[y] => x = y,
         NEW c \in Fractions,
         NEW g, DOMAIN g = DOMAIN f, \A x \in DOMAIN f : g[x] = Uncovered(f, rank, c, x)
  PROVE  /\ \A x \in DOMAIN f : g[x] \in Fractions
         /\ SumOf(g) = Excess(SumOf(f), c)
<1> DEFINE D == DOMAIN f
           Upto(x) == { y \in D : rank[y] <= rank[x] }
           F(s) == SumOf(Restrict(f, s))
           G(s) == SumOf(Restrict(g, s))
           Closed(s) == \A x \in s : Upto(x) \subseteq s
           Good == { s \in SUBSET D : Closed(s) => G(s) = Excess(F(s), c) }
<1>1. ASSUME NEW x \in D
      PROVE  g[x] \in Fractions /\ Add(g[x], Excess(F(Upto(x) \ {x}), c)) = Excess(F(Upto(x)), c)
  <2>1. x \in Upto(x) /\ Upto(x) \in SUBSET D /\ Upto(x) \ {x} \in SUBSET D
    OBVIOUS
  <2>2. F(Upto(x)) = Through(f, rank, x)
    BY DEF Through
  <2> HIDE DEF Upto
  <2>3. F(Upto(x)) = Add(f[x], F(Upto(x) \ {x}))
    BY <2>1, SumTakes
  <2>4. F(Upto(x) \ {x}) \in Fractions /\ f[x] \in Fractions
    BY <2>1, SumsOfParts
  <2> HIDE DEF F
  <2>5. g[x] = IF Leq(F(Upto(x)), c) THEN Zero ELSE Minimum(f[x], Subtract(F(Upto(x)), c))
    BY <2>2 DEF Uncovered
  <2> QED
    BY <2>3, <2>4, <2>5, ExcessAdds
<1>2. ASSUME NEW s \in SUBSET D, \A t \in SUBSET s : t # s => t \in Good
      PROVE  s \in Good
  <2> SUFFICES ASSUME Closed(s) PROVE G(s) = Excess(F(s), c)
    OBVIOUS
  <2>1. CASE s = {}
    <3>1. F({}) = Zero /\ G({}) = Zero
      BY <1>1, SumsOfParts
    <3>2. Excess(Zero, c) = Zero
      BY ZeroIsLeast DEF Excess
    <3> HIDE DEF F, G
    <3> QED
      BY <2>1, <3>1, <3>2
  <2>2. CASE s # {}
    <3>1. PICK x \in s : \A y \in s : rank[y] <= rank[x]
      <4> DEFINE K == { n - rank[y] : y \in s }
      <4>1. K \in SUBSET Nat /\ K # {}
        BY <2>2
      <4>2. PICK m \in K : \A k \in K : m <= k
        <5> HIDE DEF K
        <5> QED
          BY <4>1, Smallest
      <4>3. PICK x \in s : m = n - rank[x]
        BY <4>2
      <4>4. ASSUME NEW y \in s PROVE rank[y] <= rank[x]
        <5>1. n - rank[x] <= n - rank[y]
          BY <4>2, <4>3
        <5>2. rank[x] \in 1..n /\ rank[y] \in 1..n
          OBVIOUS
        <5> QED
          BY <5>1, <5>2
      <4> QED
        BY <4>4
    <3>2. x \in D /\ s \ {x} \in SUBSET s /\ s \ {x} # s
      OBVIOUS
    <3>3. Upto(x) = s
      <4>1. Upto(x) \subseteq s
        OBVIOUS
      <4>2. s \subseteq Upto(x)
        BY <3>1
      <4> QED
        BY <4>1, <4>2
    <3>4. Closed(s \ {x})
      <4> SUFFICES ASSUME NEW z \in s \ {x}, NEW y \in Upto(z) PROVE y \in s \ {x}
        OBVIOUS
      <4>1. y \in s
        OBVIOUS
      <4>2. ASSUME y = x PROVE FALSE
        <5>1. rank[x] <= rank[z] /\ rank[z] <= rank[x]
          BY <3>1, <4>2
        <5>2. rank[x] \in 1..n /\ rank[z] \in 1..n
          BY <3>2
        <5>3. rank[x] = rank[z]
          BY <5>1, <5>2
        <5> QED
          BY <3>2, <5>3
      <4> QED
        BY <4>1, <4>2
    <3>5. G(s \ {x}) = Excess(F(s \ {x}), c)
      BY <1>2, <3>2, <3>4
    <3>6. G(s) = Add(g[x], G(s \ {x}))
      <4>1. \A y \in DOMAIN g : g[y] \in Fractions
        BY <1>1
      <4>2. IsFiniteSet(DOMAIN g) /\ s \in SUBSET DOMAIN g /\ x \in s
        OBVIOUS
      <4> QED
        BY <4>1, <4>2, SumTakes
    <3>7. Add(g[x], Excess(F(s \ {x}), c)) = Excess(F(s), c)
      <4> HIDE DEF F, Upto
      <4> QED
        BY <1>1, <3>2, <3>3
    <3> HIDE DEF F, G
    <3> QED
      BY <3>5, <3>6, <3>7
  <2> QED
    BY <2>1, <2>2
<1>3. D \in Good
  <2> HIDE DEF Good
  <2>1. IsFiniteSet(D)
    OBVIOUS
  <2> HIDE DEF D
  <2> QED
    BY <1>2, <2>1, FromSmaller
<1>4. G(D) = Excess(F(D), c)
  <2>1. Closed(D)
    OBVIOUS
  <2> QED
    BY <1>3, <2>1
<1>5. F(D) = SumOf(f) /\ G(D) = SumOf(g)
  BY <1>1, SumOfWhole
<1> HIDE DEF F, G
<1> QED
  BY <1>1, <1>4, <1>5

\* Renaming the members of a family does not change their sum.
LEMMA SumOfImage ==
  ASSUME NEW v, IsFiniteSet(DOMAIN v), \A x \in DOMAIN v : v[x] \in Fractions,
         NEW m, \A x, y \in DOMAIN v : m[x] = m[y] => x = y,
         NEW w, DOMAIN w = { m[x] : x \in DOMAIN v }, \A x \in DOMAIN v : w[m[x]] = v[x]
  PROVE  SumOf(w) = SumOf(v)
<1> DEFINE part == [x \in DOMAIN v |-> m[x]]
<1>1. part \in [DOMAIN v -> DOMAIN w]
  OBVIOUS
<1>2. IsFiniteSet(DOMAIN w) /\ \A l \in DOMAIN w : w[l] \in Fractions
  <2>1. IsFiniteSet({ m[x] : x \in DOMAIN v })
    BY ImageIsFinite
  <2> QED
    BY <2>1
<1>3. ASSUME NEW l \in DOMAIN w
      PROVE  w[l] = SumOf(Restrict(v, { x \in DOMAIN v : part[x] = l }))
  <2>1. PICK x \in DOMAIN v : l = m[x]
    OBVIOUS
  <2>2. { y \in DOMAIN v : part[y] = l } = {x}
    BY <2>1
  <2>3. {x} \in SUBSET DOMAIN v /\ x \in {x} /\ {x} \ {x} = {}
    OBVIOUS
  <2>4. SumOf(Restrict(v, {x})) = Add(v[x], SumOf(Restrict(v, {x} \ {x})))
    BY <2>3, SumTakes
  <2>5. SumOf(Restrict(v, {})) = Zero
    BY SumsOfParts
  <2>6. SumOf(Restrict(v, {x})) = v[x]
    <3>1. v[x] \in Fractions
      OBVIOUS
    <3>2. Add(v[x], Zero) = v[x]
      BY <3>1, AddLaws
    <3> QED
      BY <2>3, <2>4, <2>5, <3>2
  <2> HIDE DEF part
  <2> QED
    BY <2>1, <2>2, <2>6
<1> HIDE DEF part
<1> QED
  BY <1>1, <1>2, <1>3, SumByParts

\* The sum of sums.
LEMMA SumOfSums ==
  ASSUME NEW f, IsFiniteSet(DOMAIN f), \A x \in DOMAIN f : f[x] \in Fractions,
         NEW h, DOMAIN h = DOMAIN f, \A x \in DOMAIN f : h[x] \in Fractions,
         NEW w, DOMAIN w = DOMAIN f, \A x \in DOMAIN f : w[x] = Add(f[x], h[x])
  PROVE  SumOf(w) = Add(SumOf(f), SumOf(h))
<1> DEFINE D == DOMAIN f
           Of(g, s) == SumOf(Restrict(g, s))
           Good == { s \in SUBSET D : Of(w, s) = Add(Of(f, s), Of(h, s)) }
<1>0. \A x \in DOMAIN w : w[x] \in Fractions
  BY AddFits
<1>1. {} \in Good
  <2>1. Of(f, {}) = Zero /\ Of(h, {}) = Zero /\ Of(w, {}) = Zero
    BY <1>0, SumsOfParts
  <2>2. Add(Zero, Zero) = Zero
    <3>1. Zero \in Fractions
      BY WholeFits DEF Zero
    <3> QED
      BY <3>1, AddLaws
  <2> QED
    BY <2>1, <2>2
<1>2. ASSUME NEW s \in SUBSET D, s # {}, s \ {CHOOSE x \in s : TRUE} \in Good
      PROVE  s \in Good
  <2>1. PICK x, r : x = (CHOOSE t \in s : TRUE) /\ r = s \ {CHOOSE t \in s : TRUE}
    OBVIOUS
  <2>2. x \in s /\ r \in SUBSET D
    BY <1>2, <2>1, Zenon
  <2>3. Of(f, s) = Add(f[x], Of(f, r))
    BY <1>2, <2>1, SumsOfParts
  <2>4. Of(h, s) = Add(h[x], Of(h, r))
    BY <1>2, <2>1, SumsOfParts
  <2>5. Of(w, s) = Add(w[x], Of(w, r))
    BY <1>0, <1>2, <2>1, SumsOfParts
  <2>6. Of(w, r) = Add(Of(f, r), Of(h, r))
    BY <1>2, <2>1
  <2>7. Of(f, r) \in Fractions /\ Of(h, r) \in Fractions
    BY <2>2, SumsOfParts
  <2>8. PICK a \in Fractions, b \in Fractions, c \in Fractions, d \in Fractions :
          a = f[x] /\ b = h[x] /\ c = Of(f, r) /\ d = Of(h, r)
    BY <2>2, <2>7
  <2>9. Add(Add(a, b), Add(c, d)) = Add(Add(a, c), Add(b, d))
    <3>1. Add(Add(a, b), Add(c, d)) = Add(a, Add(b, Add(c, d)))
      BY AddLaws
    <3>2. Add(b, Add(c, d)) = Add(c, Add(b, d))
      BY AddSwaps
    <3>3. Add(b, d) \in Fractions
      BY AddLaws
    <3>4. Add(a, Add(c, Add(b, d))) = Add(Add(a, c), Add(b, d))
      BY <3>3, AddLaws
    <3> QED
      BY <3>1, <3>2, <3>4
  <2>10. w[x] = Add(a, b)
    BY <2>2, <2>8
  <2> HIDE DEF Of
  <2> QED
    BY <2>3, <2>4, <2>5, <2>6, <2>8, <2>9, <2>10
<1>3. D \in Good
  <2>1. IsFiniteSet(D)
    OBVIOUS
  <2> HIDE DEF Good, D
  <2> QED
    BY <1>1, <1>2, <2>1, TakingAway
<1>4. Of(w, DOMAIN w) = Add(Of(f, DOMAIN f), Of(h, DOMAIN h))
  BY <1>3
<1> QED
  BY <1>0, <1>4, SumOfWhole

\* A sum of ones counts.
LEMMA SumOfOnes ==
  ASSUME NEW f, IsFiniteSet(DOMAIN f), \A x \in DOMAIN f : f[x] = One
  PROVE  SumOf(f) = Whole(Cardinality(DOMAIN f))
<1> DEFINE D == DOMAIN f
           Good == { s \in SUBSET D : SumOf(Restrict(f, s)) = Whole(Cardinality(s)) }
<1>0. \A x \in DOMAIN f : f[x] \in Fractions
  BY WholeFits DEF One
<1>1. {} \in Good
  BY <1>0, SumsOfParts, FS_EmptySet DEF Zero
<1>2. ASSUME NEW s \in SUBSET D, s # {}, s \ {CHOOSE x \in s : TRUE} \in Good
      PROVE  s \in Good
  <2>1. PICK x, r : x = (CHOOSE t \in s : TRUE) /\ r = s \ {CHOOSE t \in s : TRUE}
    OBVIOUS
  <2>2. x \in s /\ r = s \ {x}
    BY <1>2, <2>1, Zenon
  <2>3. SumOf(Restrict(f, s)) = Add(f[x], SumOf(Restrict(f, r)))
    BY <1>0, <1>2, <2>1, SumsOfParts
  <2>4. IsFiniteSet(s) /\ IsFiniteSet(r)
    BY <2>2, FS_Subset
  <2>5. Cardinality(s) \in Nat /\ Cardinality(r) \in Nat /\ Cardinality(s) = 1 + Cardinality(r)
    <3>1. Cardinality(r) = Cardinality(s) - 1
      BY <2>2, <2>4, FS_RemoveElement
    <3>2. Cardinality(s) \in Nat /\ Cardinality(r) \in Nat
      BY <2>4, FS_CardinalityType
    <3> QED
      BY <3>1, <3>2
  <2>6. Add(Whole(1), Whole(Cardinality(r))) = Whole(1 + Cardinality(r))
    BY <2>5, WholesAdd
  <2>7. SumOf(Restrict(f, r)) = Whole(Cardinality(r)) /\ f[x] = Whole(1)
    BY <1>2, <2>1, <2>2 DEF One
  <2> QED
    BY <2>3, <2>5, <2>6, <2>7
<1>3. D \in Good
  <2>1. IsFiniteSet(D)
    OBVIOUS
  <2> HIDE DEF Good, D
  <2> QED
    BY <1>1, <1>2, <2>1, TakingAway
<1> QED
  BY <1>0, <1>3, SumOfWhole

\* What is counted for each block of a division is counted once.
LEMMA SumByBlocks ==
  ASSUME NEW v, IsFiniteSet(DOMAIN v), \A x \in DOMAIN v : v[x] \in Fractions,
         NEW blocks, IsFiniteSet(blocks), \A a, b \in blocks : a # b => a \cap b = {},
         NEW at, \A x \in DOMAIN v : at[x] \in UNION blocks,
         NEW w, DOMAIN w = blocks,
         \A b \in blocks : w[b] = SumOf(Restrict(v, { x \in DOMAIN v : at[x] \in b }))
  PROVE  SumOf(w) = SumOf(v) /\ \A b \in blocks : w[b] \in Fractions
<1> DEFINE part == [x \in DOMAIN v |-> CHOOSE b \in blocks : at[x] \in b]
<1>1. ASSUME NEW x \in DOMAIN v PROVE part[x] \in blocks /\ at[x] \in part[x]
  <2>1. \E b \in blocks : at[x] \in b
    OBVIOUS
  <2>2. PICK b : b = CHOOSE c \in blocks : at[x] \in c
    OBVIOUS
  <2>3. b \in blocks /\ at[x] \in b
    BY <2>1, <2>2, Zenon
  <2> QED
    BY <2>2, <2>3
<1>2. part \in [DOMAIN v -> DOMAIN w]
  BY <1>1
<1>3. ASSUME NEW b \in blocks PROVE w[b] = SumOf(Restrict(v, { x \in DOMAIN v : part[x] = b })) /\ w[b] \in Fractions
  <2>1. \A x \in DOMAIN v : part[x] = b <=> at[x] \in b
    <3> HIDE DEF part
    <3> QED
      BY <1>1
  <2>2. PICK s \in SUBSET DOMAIN v : s = { x \in DOMAIN v : at[x] \in b }
    OBVIOUS
  <2>3. { x \in DOMAIN v : part[x] = b } = s
    <3> HIDE DEF part
    <3> QED
      BY <2>1, <2>2
  <2>4. SumOf(Restrict(v, s)) \in Fractions
    BY SumsOfParts
  <2> QED
    BY <2>2, <2>3, <2>4, Zenon
<1> HIDE DEF part
<1>4. SumOf(w) = SumOf(v)
  <2>1. IsFiniteSet(DOMAIN w) /\ \A b \in DOMAIN w : w[b] \in Fractions
    BY <1>3
  <2>2. \A b \in DOMAIN w : w[b] = SumOf(Restrict(v, { x \in DOMAIN v : part[x] = b }))
    BY <1>3
  <2> QED
    BY <1>2, <2>1, <2>2, SumByParts
<1> QED
  BY <1>3, <1>4
=============================================================================
