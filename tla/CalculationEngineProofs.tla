----------------------- MODULE CalculationEngineProofs -----------------------
(***************************************************************************)
(* Proofs about the calculation engine, for every input: that a result     *)
(* which is ready for approval leaves no material out, that the lines of a *)
(* result account for the demand that remains, and that what is counted    *)
(* follows the topology of the routes.  First what the rules emit, then    *)
(* the stages, then what the result builder makes of it, then the supports *)
(* and the joints, and last what a support group and a segment are given.  *)
(***************************************************************************)
EXTENDS CalculationEngine, ExactDecimalProofs

-----------------------------------------------------------------------------
(* Partitions.                                                             *)

\* h joins the pairs of every set of them, one after the other, in the order of a choice.
JoinsPairs(h, S, Q) ==
  /\ h[{}] = { {s} : s \in S }
  /\ \A s \in SUBSET Q :
       s # {} => h[s] = JoinBlocks(CHOOSE t \in s : TRUE, h[s \ {CHOOSE t \in s : TRUE}])

\* The pairs that lie in S are joined.
LEMMA BlocksAreJoined ==
  ASSUME NEW S, IsFiniteSet(S), NEW pairs, {} \notin pairs,
         NEW Q, Q = { q \in pairs : q \subseteq S }
  PROVE  IsFiniteSet(Q) /\ \E h : Blocks(S, pairs) = h[Q] /\ JoinsPairs(h, S, Q)
<1> DEFINE V == { P \in SUBSET SUBSET S : {} \notin P /\ UNION P = S }
           base == { {s} : s \in S }
           step == [p \in Q \X V |-> JoinBlocks(p[1], p[2])]
           Equation(h) == h = [s \in SUBSET Q |-> IF s = {} THEN base
                                 ELSE LET x == CHOOSE t \in s : TRUE IN JoinBlocks(x, h[s \ {x}])]
<1>1. IsFiniteSet(Q)
  <2>1. IsFiniteSet(SUBSET S)
    BY FS_SUBSET
  <2>2. Q \in SUBSET SUBSET S
    OBVIOUS
  <2> QED
    BY <2>1, <2>2, FS_Subset
<1>2. base \in V
  <2>1. base \in SUBSET SUBSET S /\ {} \notin base
    OBVIOUS
  <2>2. UNION base = S
    OBVIOUS
  <2> QED
    BY <2>1, <2>2
<1>3. ASSUME NEW q \in Q, NEW P \in V PROVE JoinBlocks(q, P) \in V
  <2> DEFINE touched == { b \in P : b \cap q # {} }
  <2>1. q # {} /\ q \subseteq S /\ P \in SUBSET SUBSET S /\ {} \notin P /\ UNION P = S
    OBVIOUS
  <2>2. JoinBlocks(q, P) = (P \ touched) \cup {UNION touched}
    BY Zenon DEF JoinBlocks
  <2>3. UNION touched # {} /\ UNION touched \in SUBSET S
    <3>1. PICK x \in q : TRUE
      BY <2>1
    <3>2. PICK b \in P : x \in b
      BY <2>1, <3>1
    <3>3. b \in touched
      BY <3>1, <3>2
    <3>4. touched \subseteq P
      OBVIOUS
    <3> HIDE DEF touched
    <3>5. x \in UNION touched
      BY <3>2, <3>3
    <3>6. UNION touched \subseteq S
      <4>1. UNION touched \subseteq UNION P
        BY <3>4
      <4>2. UNION P = S
        BY <2>1
      <4> QED
        BY <4>1, <4>2, Zenon
    <3> QED
      BY <3>5, <3>6
  <2>4. UNION ((P \ touched) \cup {UNION touched}) = S
    <3>1. touched \subseteq P
      OBVIOUS
    <3> HIDE DEF touched
    <3>2. UNION ((P \ touched) \cup {UNION touched}) = UNION P
      <4>1. ASSUME NEW x, NEW b \in P, x \in b
            PROVE  \E a \in (P \ touched) \cup {UNION touched} : x \in a
        <5>1. b \in touched => x \in UNION touched
          BY <4>1
        <5> QED
          BY <4>1, <5>1
      <4>2. ASSUME NEW x, NEW a \in (P \ touched) \cup {UNION touched}, x \in a
            PROVE  x \in UNION P
        BY <3>1, <4>2
      <4> QED
        BY <4>1, <4>2
    <3>3. UNION P = S
      BY <2>1
    <3> QED
      BY <3>2, <3>3, Zenon
  <2> HIDE DEF touched
  <2>5. (P \ touched) \cup {UNION touched} \in SUBSET SUBSET S
    BY <2>1, <2>3
  <2>6. {} \notin (P \ touched) \cup {UNION touched}
    BY <2>1, <2>3
  <2> QED
    BY <2>2, <2>4, <2>5, <2>6
<1> HIDE DEF V
<1>4. step \in [Q \X V -> V]
  <2>1. ASSUME NEW p \in Q \X V PROVE JoinBlocks(p[1], p[2]) \in V
    <3>1. p[1] \in Q /\ p[2] \in V
      OBVIOUS
    <3> QED
      BY <1>3, <3>1
  <2> QED
    BY <2>1
<1> HIDE DEF base
<1>5. PICK h \in [SUBSET Q -> V] : FoldsTo(h, Q, base, step)
  <2> HIDE DEF step
  <2> QED
    BY <1>1, <1>2, <1>4, FoldExists
<1>6. Equation(h)
  <2>1. ASSUME NEW s \in SUBSET Q, s # {}
        PROVE  h[s] = JoinBlocks(CHOOSE t \in s : TRUE, h[s \ {CHOOSE t \in s : TRUE}])
    <3>1. PICK x, r : x = (CHOOSE t \in s : TRUE) /\ r = s \ {CHOOSE t \in s : TRUE}
      OBVIOUS
    <3>2. x \in s
      BY <2>1, <3>1, Zenon
    <3>3. x \in Q /\ r \in SUBSET Q
      BY <3>1, <3>2
    <3>4. h[r] \in V
      BY <1>5, <3>3
    <3>5. h[s] = step[<<x, h[r]>>]
      <4> HIDE DEF step
      <4>1. h[s] = IF s = {} THEN base ELSE LET y == CHOOSE t \in s : TRUE IN step[<<y, h[s \ {y}]>>]
        BY <1>5, Zenon DEF FoldsTo
      <4> QED
        BY <2>1, <3>1, <4>1, Zenon
    <3>6. step[<<x, h[r]>>] = JoinBlocks(x, h[r])
      <4>1. <<x, h[r]>> \in Q \X V
        BY <3>3, <3>4
      <4> QED
        BY <4>1
    <3> QED
      BY <3>1, <3>5, <3>6, Zenon
  <2>2. h[{}] = base
    <3> HIDE DEF step
    <3> QED
      BY <1>5 DEF FoldsTo
  <2>3. ASSUME NEW s \in SUBSET Q
        PROVE  h[s] = IF s = {} THEN base ELSE LET x == CHOOSE t \in s : TRUE IN JoinBlocks(x, h[s \ {x}])
    BY <2>1, <2>2, Zenon
  <2> HIDE DEF step
  <2>4. h = [s \in SUBSET Q |-> h[s]]
    BY <1>5
  <2> QED
    BY <2>3, <2>4, Zenon
<1>7. PICK g : g = CHOOSE h1 : Equation(h1)
  OBVIOUS
<1>8. Equation(g)
  <2>1. \E h1 : Equation(h1)
    <3> HIDE DEF Equation
    <3> QED
      BY <1>6, Zenon
  <2> HIDE DEF Equation
  <2> QED
    BY <1>7, <2>1, Zenon
<1>9. Blocks(S, pairs) = g[Q]
  BY <1>7, Zenon DEF Blocks, FoldSet, MapThenFoldSet, base
<1>10. g[{}] = base
  BY <1>8
<1>11. ASSUME NEW s \in SUBSET Q, s # {}
       PROVE  g[s] = JoinBlocks(CHOOSE t \in s : TRUE, g[s \ {CHOOSE t \in s : TRUE}])
  <2>1. g[s] = IF s = {} THEN base ELSE LET y == CHOOSE t \in s : TRUE IN JoinBlocks(y, g[s \ {y}])
    BY <1>8, Zenon
  <2> QED
    BY <1>11, <2>1, Zenon
<1> HIDE DEF Equation
<1>12. JoinsPairs(g, S, Q)
  BY <1>10, <1>11, Zenon DEF JoinsPairs, base
<1> QED
  BY <1>1, <1>9, <1>12, Zenon

\* A set that no pair leaves.
Closed(T, pairs) == \A q \in pairs : q \subseteq T \/ q \cap T = {}

\* The blocks divide S as the pairs connect it: they are not empty, cover S and do not
\* overlap, no pair leaves a block, and what no pair leaves is made of whole blocks.
DividedBy(S, pairs, blocks) ==
  /\ blocks \subseteq SUBSET S /\ {} \notin blocks /\ UNION blocks = S
  /\ \A a, b \in blocks : a # b => a \cap b = {}
  /\ \A b \in blocks : Closed(b, pairs)
  /\ \A T \in SUBSET S : Closed(T, pairs) => \A b \in blocks : b \subseteq T \/ b \cap T = {}

\* One more pair: the blocks that it touches become one.
LEMMA OnePairMore ==
  ASSUME NEW S, NEW pairs, NEW blocks, DividedBy(S, pairs, blocks), NEW q \in SUBSET S, q # {}
  PROVE  DividedBy(S, pairs \cup {q}, JoinBlocks(q, blocks))
<1> DEFINE touched == { b \in blocks : b \cap q # {} }
           joined == UNION touched
           new == (blocks \ touched) \cup {joined}
<1>1. JoinBlocks(q, blocks) = new
  BY Zenon DEF JoinBlocks
<1>2. /\ blocks \subseteq SUBSET S /\ {} \notin blocks /\ UNION blocks = S
      /\ \A a, b \in blocks : a # b => a \cap b = {}
      /\ \A b \in blocks : Closed(b, pairs)
      /\ \A T \in SUBSET S : Closed(T, pairs) => \A b \in blocks : b \subseteq T \/ b \cap T = {}
  BY Zenon DEF DividedBy
<1>3. q \subseteq joined /\ joined \in SUBSET S /\ joined # {}
  <2>1. ASSUME NEW x \in q PROVE x \in joined
    <3>1. PICK b \in blocks : x \in b
      BY <1>2
    <3> QED
      BY <3>1
  <2>2. ASSUME NEW x \in joined PROVE x \in S
    BY <1>2
  <2> HIDE DEF joined
  <2> QED
    BY <2>1, <2>2
<1>4. \A b \in blocks : b \in touched \/ b \cap joined = {}
  BY <1>2
<1>5. UNION new = S
  <2>1. ASSUME NEW x \in S PROVE \E b \in new : x \in b
    <3>1. PICK b \in blocks : x \in b
      BY <1>2
    <3>2. b \in touched => x \in joined
      BY <3>1
    <3> HIDE DEF touched, joined
    <3> QED
      BY <3>1, <3>2
  <2>2. ASSUME NEW b \in new, NEW x \in b PROVE x \in S
    <3> HIDE DEF touched, joined
    <3> QED
      BY <1>2, <1>3, <2>2
  <2> HIDE DEF new
  <2> QED
    BY <2>1, <2>2
<1>6. \A a, b \in new : a # b => a \cap b = {}
  <2> HIDE DEF touched, joined
  <2> QED
    BY <1>2, <1>4
<1>7. \A b \in new : Closed(b, pairs \cup {q})
  <2>1. ASSUME NEW b \in blocks, b \notin touched PROVE Closed(b, pairs \cup {q})
    BY <1>2, <2>1 DEF Closed
  <2>2. Closed(joined, pairs)
    <3> SUFFICES ASSUME NEW p \in pairs PROVE p \subseteq joined \/ p \cap joined = {}
      BY DEF Closed
    <3>1. \A b \in touched : p \subseteq b \/ p \cap b = {}
      BY <1>2 DEF Closed
    <3>2. \A b \in touched : p \subseteq b => p \subseteq joined
      OBVIOUS
    <3>3. (\A b \in touched : p \cap b = {}) => p \cap joined = {}
      OBVIOUS
    <3> HIDE DEF touched, joined
    <3> QED
      BY <3>1, <3>2, <3>3
  <2>3. Closed(joined, pairs \cup {q})
    <3> HIDE DEF joined
    <3> QED
      BY <1>3, <2>2 DEF Closed
  <2> HIDE DEF touched, joined
  <2> QED
    BY <2>1, <2>3
<1>8. ASSUME NEW T \in SUBSET S, Closed(T, pairs \cup {q}), NEW b \in new
      PROVE  b \subseteq T \/ b \cap T = {}
  <2>1. Closed(T, pairs) /\ (q \subseteq T \/ q \cap T = {})
    BY <1>8 DEF Closed
  <2>2. \A a \in blocks : a \subseteq T \/ a \cap T = {}
    BY <1>2, <2>1
  <2>3. joined \subseteq T \/ joined \cap T = {}
    <3>1. CASE q \subseteq T
      <4>1. \A a \in touched : a \subseteq T
        BY <2>2, <3>1
      <4> QED
        BY <4>1
    <3>2. CASE q \cap T = {}
      <4>1. \A a \in touched : a \cap T = {}
        BY <2>2, <3>2
      <4> QED
        BY <4>1
    <3> QED
      BY <2>1, <3>1, <3>2
  <2> HIDE DEF touched, joined
  <2> QED
    BY <2>2, <2>3
<1>9. new \subseteq SUBSET S /\ {} \notin new
  <2> HIDE DEF touched, joined
  <2> QED
    BY <1>2, <1>3
<1> HIDE DEF new
<1> QED
  BY <1>1, <1>5, <1>6, <1>7, <1>8, <1>9 DEF DividedBy

\* There is only one such division.
LEMMA OneDivision ==
  ASSUME NEW S, NEW pairs, NEW A, DividedBy(S, pairs, A), NEW B, DividedBy(S, pairs, B)
  PROVE  A = B
<1>1. ASSUME NEW C, DividedBy(S, pairs, C), NEW D, DividedBy(S, pairs, D), NEW c \in C PROVE c \in D
  <2>1. c \in SUBSET S /\ c # {} /\ UNION D = S /\ D \subseteq SUBSET S /\ Closed(c, pairs)
    BY <1>1, Zenon DEF DividedBy
  <2>2. PICK x \in c : TRUE
    BY <2>1
  <2>3. PICK d \in D : x \in d
    BY <2>1, <2>2
  <2>4. d \subseteq c
    BY <1>1, <2>1, <2>2, <2>3 DEF DividedBy
  <2>5. d \in SUBSET S /\ Closed(d, pairs)
    BY <1>1, <2>3 DEF DividedBy
  <2>6. c \subseteq d
    BY <1>1, <2>2, <2>3, <2>5 DEF DividedBy
  <2>7. c = d
    BY <2>4, <2>6
  <2> QED
    BY <2>3, <2>7
<1> QED
  BY <1>1

\* Blocks divides S as the pairs connect it.
LEMMA BlocksDivide ==
  ASSUME NEW S, IsFiniteSet(S), NEW pairs, {} \notin pairs, \A q \in pairs : q \subseteq S
  PROVE  DividedBy(S, pairs, Blocks(S, pairs)) /\ IsFiniteSet(pairs)
<1>1. pairs = { q \in pairs : q \subseteq S }
  OBVIOUS
<1>2. IsFiniteSet(pairs)
  BY <1>1, BlocksAreJoined
<1>3. PICK h : Blocks(S, pairs) = h[pairs] /\ JoinsPairs(h, S, pairs)
  BY <1>1, BlocksAreJoined
<1> DEFINE Good == { s \in SUBSET pairs : DividedBy(S, s, h[s]) }
<1>4. {} \in Good
  <2>1. PICK base : base = { {s} : s \in S }
    OBVIOUS
  <2>2. base \subseteq SUBSET S /\ {} \notin base
    BY <2>1
  <2>3. UNION base = S
    BY <2>1
  <2>4. \A a \in base : \E s \in S : a = {s}
    BY <2>1
  <2>5. ASSUME NEW a \in base, NEW b \in base, a # b PROVE a \cap b = {}
    <3>1. PICK s \in S, u \in S : a = {s} /\ b = {u}
      BY <2>4
    <3> QED
      BY <2>5, <3>1
  <2>6. \A T : \A b \in base : b \subseteq T \/ b \cap T = {}
    BY <2>4
  <2>7. DividedBy(S, {}, base)
    BY <2>2, <2>3, <2>5, <2>6 DEF DividedBy, Closed
  <2> QED
    BY <1>3, <2>1, <2>7 DEF JoinsPairs
<1>5. ASSUME NEW s \in SUBSET pairs, s # {}, s \ {CHOOSE t \in s : TRUE} \in Good PROVE s \in Good
  <2>1. PICK q, r : q = (CHOOSE t \in s : TRUE) /\ r = s \ {CHOOSE t \in s : TRUE}
    OBVIOUS
  <2>2. q \in s
    BY <1>5, <2>1, Zenon
  <2>3. q \in SUBSET S /\ q # {} /\ r \cup {q} = s
    BY <2>1, <2>2
  <2>4. h[s] = JoinBlocks(q, h[r])
    BY <1>3, <1>5, <2>1, Zenon DEF JoinsPairs
  <2>5. DividedBy(S, r, h[r])
    BY <1>5, <2>1
  <2>6. DividedBy(S, r \cup {q}, JoinBlocks(q, h[r]))
    BY <2>3, <2>5, OnePairMore
  <2> QED
    BY <2>3, <2>4, <2>6
<1>6. pairs \in Good
  <2> HIDE DEF Good
  <2> QED
    BY <1>2, <1>4, <1>5, TakingAway
<1>7. DividedBy(S, pairs, h[pairs])
  BY <1>6
<1> QED
  BY <1>2, <1>3, <1>7

\* What pairs of elements connect: the blocks divide the set, as finely as that allows.
LEMMA BlocksFit ==
  ASSUME NEW S, IsFiniteSet(S), NEW pairs, {} \notin pairs
  PROVE  /\ \A b \in Blocks(S, pairs) : b \in SUBSET S /\ b # {}
         /\ UNION Blocks(S, pairs) = S
<1> DEFINE Q == { q \in pairs : q \subseteq S }
<1>1. Blocks(S, pairs) = Blocks(S, Q)
  <2>1. { q \in Q : q \subseteq S } = Q
    OBVIOUS
  <2> HIDE DEF Q
  <2>2. Blocks(S, Q) = FoldSet(JoinBlocks, { {s} : s \in S }, Q)
    BY <2>1, Zenon DEF Blocks
  <2>3. Blocks(S, pairs) = FoldSet(JoinBlocks, { {s} : s \in S }, Q)
    BY Zenon DEF Blocks, Q
  <2> QED
    BY <2>2, <2>3
<1>2. {} \notin Q /\ \A q \in Q : q \subseteq S
  OBVIOUS
<1> HIDE DEF Q
<1>3. DividedBy(S, Q, Blocks(S, Q))
  BY <1>2, BlocksDivide
<1> QED
  BY <1>1, <1>3 DEF DividedBy

\* T holds one end of the pair q.
Cuts(T, q) == q \cap T # {} /\ ~(q \subseteq T)

ValuesOf(f, I) == { f[i] : i \in I }

\* One of the pairs is cut by a set that no other of them leaves.
CutsApart(S, pair, J) ==
  \E j \in J, T \in SUBSET S : Cuts(T, pair[j]) /\ Closed(T, ValuesOf(pair, J \ {j}))

\* Pairs that close no ring each make one block less: of any of them, one can be cut apart.
LEMMA Forest ==
  ASSUME NEW S, IsFiniteSet(S), NEW I, IsFiniteSet(I), NEW pair,
         \A i \in I : \E a, b \in S : pair[i] = {a, b},
         \A J \in SUBSET I : J # {} => CutsApart(S, pair, J),
         NEW B, DividedBy(S, ValuesOf(pair, I), B)
  PROVE  IsFiniteSet(B) /\ Cardinality(B) + Cardinality(I) = Cardinality(S)
<1> DEFINE Pairs(J) == { pair[i] : i \in J }
           Counts(J, A) == IsFiniteSet(A) /\ Cardinality(A) + Cardinality(J) = Cardinality(S)
           Good == { J \in SUBSET I : \A A : DividedBy(S, Pairs(J), A) => Counts(J, A) }
<1>1. \A J \in SUBSET I : IsFiniteSet(J) /\ Cardinality(J) \in Nat
  BY FS_Subset, FS_CardinalityType
<1>2. \A J \in SUBSET I : {} \notin Pairs(J) /\ \A q \in Pairs(J) : q \subseteq S
  <2> TAKE J \in SUBSET I
  <2>1. ASSUME NEW q \in Pairs(J) PROVE q # {} /\ q \subseteq S
    <3>1. PICK i \in J : q = pair[i]
      OBVIOUS
    <3>2. PICK a \in S, b \in S : pair[i] = {a, b}
      OBVIOUS
    <3> QED
      BY <3>1, <3>2
  <2> QED
    BY <2>1
<1>3. ASSUME NEW J \in SUBSET I, J = {}, NEW A, DividedBy(S, Pairs(J), A) PROVE Counts(J, A)
  <2>1. Pairs(J) = {}
    BY <1>3
  <2>2. PICK f : f = [s \in S |-> {s}]
    OBVIOUS
  <2>3. ASSUME NEW b \in A PROVE \E s \in S : b = {s}
    <3>1. b \subseteq S /\ b # {}
      BY <1>3, Zenon DEF DividedBy
    <3>2. PICK s \in b : TRUE
      BY <3>1
    <3>3. {s} \in SUBSET S /\ Closed({s}, Pairs(J))
      <4> HIDE DEF Pairs
      <4> QED
        BY <2>1, <3>1, <3>2 DEF Closed
    <3>4. b \subseteq {s} \/ b \cap {s} = {}
      BY <1>3, <3>3, Zenon DEF DividedBy
    <3> QED
      BY <3>1, <3>2, <3>4
  <2>4. ASSUME NEW s \in S PROVE {s} \in A
    <3>1. UNION A = S
      BY <1>3, Zenon DEF DividedBy
    <3>2. PICK b \in A : s \in b
      BY <3>1
    <3>3. PICK t \in S : b = {t}
      BY <2>3
    <3> QED
      BY <3>2, <3>3
  <2>5. f \in Bijection(S, A)
    <3>1. f \in [S -> A]
      BY <2>2, <2>4
    <3>2. ASSUME NEW s \in S, NEW t \in S, f[s] = f[t] PROVE s = t
      <4>1. {s} = {t}
        BY <2>2, <3>2
      <4> QED
        BY <4>1
    <3>3. \A b \in A : \E s \in S : f[s] = b
      BY <2>2, <2>3
    <3>4. f \in Injection(S, A)
      BY <3>1, <3>2, Zenon DEF Injection, IsInjective
    <3>5. f \in Surjection(S, A)
      BY <3>1, <3>3, Zenon DEF Surjection
    <3> QED
      BY <3>4, <3>5, Zenon DEF Bijection
  <2>6. IsFiniteSet(A) /\ Cardinality(A) = Cardinality(S)
    BY <2>5, FS_Bijection DEF ExistsBijection
  <2>7. Cardinality(J) = 0 /\ Cardinality(S) \in Nat
    BY <1>3, FS_EmptySet, FS_CardinalityType
  <2> QED
    BY <2>6, <2>7
<1>4. ASSUME NEW J \in SUBSET I, \A K \in SUBSET J : K # J => K \in Good PROVE J \in Good
  <2> SUFFICES ASSUME NEW A, DividedBy(S, Pairs(J), A), J # {} PROVE Counts(J, A)
    BY <1>3
  <2>1. PICK j \in J, T \in SUBSET S : Cuts(T, pair[j]) /\ Closed(T, { pair[k] : k \in J \ {j} })
    BY Zenon DEF CutsApart, ValuesOf
  <2>2. PICK q : q = pair[j]
    OBVIOUS
  <2>3. PICK r \in SUBSET I : r = J \ {j}
    BY <1>4
  <2>4. PICK C : C = Blocks(S, Pairs(r))
    OBVIOUS
  <2>5. DividedBy(S, Pairs(r), C)
    <3>1. {} \notin Pairs(r) /\ \A p \in Pairs(r) : p \subseteq S
      BY <1>2
    <3> HIDE DEF Pairs
    <3> QED
      BY <2>4, <3>1, BlocksDivide
  <2>6. IsFiniteSet(C) /\ Cardinality(C) + Cardinality(r) = Cardinality(S)
    <3>1. r \in Good
      BY <1>4, <2>1, <2>3
    <3> QED
      BY <2>5, <3>1
  <2>7. Pairs(J) = Pairs(r) \cup {q}
    BY <2>1, <2>2, <2>3
  <2>8. PICK a \in S, b \in S : q = {a, b} /\ a \in T /\ b \notin T
    <3>1. PICK c \in S, d \in S : q = {c, d}
      BY <2>1, <2>2
    <3>2. Cuts(T, {c, d})
      BY <2>1, <2>2, <3>1, Zenon
    <3>3. (c \in T /\ d \notin T) \/ (d \in T /\ c \notin T)
      BY <3>2 DEF Cuts
    <3>4. {c, d} = {d, c}
      OBVIOUS
    <3> QED
      BY <3>1, <3>3, <3>4, Zenon
  <2>9. A = JoinBlocks(q, C)
    <3>1. q \in SUBSET S /\ q # {}
      BY <2>8
    <3>2. DividedBy(S, Pairs(r) \cup {q}, JoinBlocks(q, C))
      <4> HIDE DEF Pairs
      <4> QED
        BY <2>5, <3>1, OnePairMore
    <3>3. DividedBy(S, Pairs(r) \cup {q}, A)
      BY <2>7
    <3> HIDE DEF Pairs
    <3> QED
      BY <3>2, <3>3, OneDivision
  <2>10. /\ UNION C = S /\ {} \notin C
         /\ \A x, y \in C : x # y => x \cap y = {}
         /\ \A x \in C : x \subseteq T \/ x \cap T = {}
    <3>1. Closed(T, Pairs(r))
      BY <2>1, <2>3
    <3> HIDE DEF Pairs
    <3> QED
      BY <2>5, <3>1, Zenon DEF DividedBy
  <2>11. PICK x \in C, y \in C : a \in x /\ b \in y
    BY <2>10
  <2>12. x # y /\ x \cup y \notin C
    <3>1. x \subseteq T /\ y \cap T = {}
      BY <2>8, <2>10, <2>11
    <3>2. x # y /\ x # x \cup y
      BY <2>8, <2>11, <3>1
    <3>3. x \cup y \in C => x \cap (x \cup y) = {}
      BY <2>10, <2>11, <3>2
    <3> QED
      BY <2>11, <3>2, <3>3
  <2>13. { c \in C : c \cap q # {} } = {x, y}
    BY <2>8, <2>10, <2>11
  <2>14. A = (C \ {x, y}) \cup {x \cup y}
    BY <2>9, <2>13 DEF JoinBlocks
  <2>15. IsFiniteSet(A) /\ Cardinality(A) = Cardinality(C) - 1
    <3>1. PICK D : D = C \ {x}
      OBVIOUS
    <3>2. IsFiniteSet(D) /\ Cardinality(D) = Cardinality(C) - 1
      BY <2>6, <2>11, <3>1, FS_RemoveElement
    <3>3. PICK E : E = D \ {y}
      OBVIOUS
    <3>4. IsFiniteSet(E) /\ Cardinality(E) = Cardinality(D) - 1
      <4>1. y \in D
        BY <2>11, <2>12, <3>1
      <4> QED
        BY <3>2, <3>3, <4>1, FS_RemoveElement
    <3>5. A = E \cup {x \cup y} /\ x \cup y \notin E
      BY <2>12, <2>14, <3>1, <3>3
    <3>6. IsFiniteSet(A) /\ Cardinality(A) = Cardinality(E) + 1
      BY <3>4, <3>5, FS_AddElement
    <3>7. Cardinality(C) \in Nat /\ Cardinality(D) \in Nat /\ Cardinality(E) \in Nat
      BY <2>6, <3>2, <3>4, FS_CardinalityType
    <3> QED
      BY <3>2, <3>4, <3>6, <3>7
  <2>16. Cardinality(r) = Cardinality(J) - 1
    BY <1>1, <2>1, <2>3, FS_RemoveElement
  <2>17. Cardinality(J) \in Nat /\ Cardinality(C) \in Nat /\ Cardinality(S) \in Nat
    BY <1>1, <2>6, FS_CardinalityType
  <2> QED
    BY <2>6, <2>15, <2>16, <2>17
<1>5. I \in Good
  <2> HIDE DEF Good
  <2> QED
    BY <1>4, FromSmaller
<1>6. DividedBy(S, Pairs(I), B)
  BY Zenon DEF ValuesOf
<1> QED
  BY <1>5, <1>6

-----------------------------------------------------------------------------
(* What a rule returns.                                                    *)

\* Nothing is refused and nothing is warned of that forbids an approval.
Clean(out) == out.failures = {} /\ \A w \in out.warnings : w[1] \notin Blocking

\* Something is demanded.
Has(out, from) == \E e \in out.events : e.from = from /\ e.quantity # Zero

LEMMA OutParts ==
  ASSUME NEW emitted, NEW warned, NEW thrown
  PROVE  /\ Out(emitted, warned, thrown).events = emitted
         /\ Out(emitted, warned, thrown).warnings = warned
         /\ Out(emitted, warned, thrown).failures = thrown
  BY DEF Out

LEMMA NotClean ==
  /\ \A code : ~Clean(Throws(code))
  /\ \A in, W : (\E w \in W : w[1] \in Blocking) => ~Clean(Unresolved(in, W))
<1>1. ASSUME NEW code PROVE ~Clean(Throws(code))
  BY OutParts DEF Throws, Clean
<1>2. ASSUME NEW in, NEW W, NEW w \in W, w[1] \in Blocking PROVE ~Clean(Unresolved(in, W))
  <2>1. Unresolved(in, W).warnings = W
    BY OutParts DEF Unresolved
  <2> QED
    BY <1>2, <2>1 DEF Clean
<1> QED
  BY <1>1, <1>2

LEMMA CodeBlocks ==
  ASSUME NEW in, NEW code \in Blocking, NEW subject
  PROVE  ~Clean(Unresolved(in, {Warning(code, subject)}))
<1>1. Warning(code, subject)[1] = code
  BY DEF Warning
<1>2. \E w \in {Warning(code, subject)} : w[1] \in Blocking
  BY <1>1
<1> QED
  BY <1>2, NotClean

LEMMA AllClean ==
  ASSUME NEW outs, Clean(All(outs)), NEW out \in outs
  PROVE  Clean(out) /\ \A from : Has(out, from) => Has(All(outs), from)
<1>1. /\ All(outs).events = UNION { o.events : o \in outs }
      /\ All(outs).warnings = UNION { o.warnings : o \in outs }
      /\ All(outs).failures = UNION { o.failures : o \in outs }
  BY OutParts DEF All
<1>2. out.events \subseteq All(outs).events
  BY <1>1
<1>3. out.warnings \subseteq All(outs).warnings
  BY <1>1
<1>4. out.failures \subseteq All(outs).failures
  BY <1>1
<1> HIDE DEF All
<1> QED
  BY <1>2, <1>3, <1>4 DEF Clean, Has

LEMMA BothClean ==
  ASSUME NEW a, NEW b, Clean(Both(a, b))
  PROVE  /\ Clean(a) /\ Clean(b)
         /\ \A from : Has(a, from) \/ Has(b, from) => Has(Both(a, b), from)
<1>1. /\ Both(a, b).events = a.events \cup b.events
      /\ Both(a, b).warnings = a.warnings \cup b.warnings
      /\ Both(a, b).failures = a.failures \cup b.failures
  BY OutParts DEF Both
<1> QED
  BY <1>1 DEF Clean, Has

LEMMA EmitsHas ==
  ASSUME NEW event, event.quantity # Zero
  PROVE  Has(Emits({event}), event.from)
<1>1. Emits({event}).events = {event}
  BY OutParts DEF Emits
<1> QED
  BY <1>1 DEF Has

LEMMA EventFits ==
  ASSUME NEW in, NEW from, NEW p, NEW category, NEW quantity, NEW status
  PROVE  /\ Event(in, from, p, category, quantity, status).from = from
         /\ Event(in, from, p, category, quantity, status).category = category
         /\ Event(in, from, p, category, quantity, status).quantity = quantity
  BY DEF Event

-----------------------------------------------------------------------------
(* The rules: a rule that is not refused and warns of nothing that forbids *)
(* an approval emits the demand it is asked for.                           *)

LEMMA CompatibleIsEmitted ==
  ASSUME NEW in, CompatibilityAccepted(in), NEW context, NEW p, NEW subject, NEW event,
         Clean(IfCompatible(in, context, p, subject, event))
  PROVE  IfCompatible(in, context, p, subject, event) = Emits({event})
<1> DEFINE evidence == Evidence(in, context, p, subject)
           available == Available(in, p)
           warned == IF context = "anchor" THEN "ANCHOR_PRODUCT_INCOMPATIBLE"
                     ELSE "PRODUCT_SELECTION_INCOMPATIBLE"
           out == IfCompatible(in, context, p, subject, event)
<1>1. out = CASE evidence = BOOLEAN -> Throws("SEMANTIC_INPUT_INVALID")
              [] evidence # BOOLEAN /\ (~available \/ FALSE \in evidence) ->
                   Unresolved(in, {Warning(warned, subject)})
              [] evidence = {} /\ available ->
                   Unresolved(in, {Warning("MISSING_COMPATIBILITY_RULE", subject)})
              [] evidence = {TRUE} /\ available -> Emits({event})
  BY Zenon DEF IfCompatible
<1>2. evidence \subseteq BOOLEAN
  <2>1. \A c \in in.compatibility : c.allowed \in BOOLEAN
    BY Zenon DEF CompatibilityAccepted, Collection
  <2> QED
    BY <2>1 DEF Evidence
<1>3. warned \in Blocking /\ "MISSING_COMPATIBILITY_RULE" \in Blocking
  BY DEF Blocking
<1>4. Clean(out)
  OBVIOUS
<1>5. available \in BOOLEAN
  BY DEF Available
<1>6. \/ evidence = BOOLEAN
      \/ evidence # BOOLEAN /\ (~available \/ FALSE \in evidence)
      \/ evidence = {} /\ available
      \/ evidence = {TRUE} /\ available
  <2> HIDE DEF evidence, available
  <2> QED
    BY <1>2
<1> HIDE DEF evidence, available, warned, out
<1>7. CASE evidence = BOOLEAN
  <2>1. out = Throws("SEMANTIC_INPUT_INVALID")
    BY <1>1, <1>7
  <2> QED
    BY <1>4, <2>1, NotClean
<1>8. CASE evidence # BOOLEAN /\ (~available \/ FALSE \in evidence)
  <2>1. out = Unresolved(in, {Warning(warned, subject)})
    BY <1>1, <1>8
  <2> QED
    BY <1>3, <1>4, <2>1, CodeBlocks
<1>9. CASE evidence = {} /\ available
  <2>1. out = Unresolved(in, {Warning("MISSING_COMPATIBILITY_RULE", subject)})
    BY <1>1, <1>9
  <2> QED
    BY <1>3, <1>4, <2>1, CodeBlocks
<1>10. CASE evidence = {TRUE} /\ available
  <2>1. out = Emits({event})
    BY <1>1, <1>10
  <2> QED
    BY <2>1 DEF out
<1> QED
  BY <1>6, <1>7, <1>8, <1>9, <1>10

LEMMA CountIsEmitted ==
  ASSUME NEW in, CompatibilityAccepted(in), NEW p, NEW category, NEW context, NEW subject,
         NEW quantity, quantity # Zero, NEW status, NEW rule, rule = None \/ Available(in, p),
         Clean(CountDemand(in, p, category, context, subject, quantity, status, rule))
  PROVE  Has(CountDemand(in, p, category, context, subject, quantity, status, rule),
             <<category, subject, p, rule>>)
<1>1. PICK event : event = Event(in, <<category, subject, p, rule>>, p, category, quantity, status)
  OBVIOUS
<1>2. event.from = <<category, subject, p, rule>> /\ event.quantity # Zero
  BY <1>1, EventFits
<1>3. PICK out : out = CountDemand(in, p, category, context, subject, quantity, status, rule)
  OBVIOUS
<1>4. out = IF p \in DOMAIN in.products
            THEN IF in.products[p].unit # "pcs" THEN Throws("SEMANTIC_INPUT_INVALID")
                 ELSE IF rule = None THEN IfCompatible(in, context, p, subject, event)
                 ELSE IF Available(in, p) THEN Emits({event}) ELSE Unresolved(in, {})
            ELSE Throws("INTERNAL_INVARIANT_FAILED")
  BY <1>1, <1>3, Zenon DEF CountDemand, WithKnown
<1>5. out = IF rule = None THEN IfCompatible(in, context, p, subject, event)
            ELSE IF Available(in, p) THEN Emits({event}) ELSE Unresolved(in, {})
  BY <1>3, <1>4, NotClean, Zenon
<1>6. CASE rule = None
  <2>1. out = IfCompatible(in, context, p, subject, event)
    BY <1>5, <1>6, Zenon
  <2>2. Clean(IfCompatible(in, context, p, subject, event))
    BY <1>3, <2>1, Zenon
  <2>3. IfCompatible(in, context, p, subject, event) = Emits({event})
    BY <2>2, CompatibleIsEmitted
  <2> QED
    BY <1>2, <1>3, <2>1, <2>3, EmitsHas
<1>7. CASE rule # None
  <2>1. out = Emits({event})
    BY <1>5, <1>7, Zenon
  <2> QED
    BY <1>2, <1>3, <2>1, EmitsHas
<1> QED
  BY <1>6, <1>7

-----------------------------------------------------------------------------
(* What the schema has checked of an input that it accepts.                *)

LEMMA IndicesOf ==
  ASSUME NEW s, IsSequence(s)
  PROVE  Len(s) \in Nat /\ DOMAIN s = 1..Len(s) /\ IsFiniteSet(DOMAIN s)
<1> DEFINE T == { s[i] : i \in DOMAIN s }
<1>1. s \in Seq(T)
  BY DEF IsSequence
<1> HIDE DEF T
<1>2. Len(s) \in Nat /\ DOMAIN s = 1..Len(s)
  BY <1>1
<1>3. 1 \in Int /\ Len(s) \in Int
  BY <1>2
<1>4. IsFiniteSet(1..Len(s))
  BY <1>3, FS_Interval, Zenon
<1> QED
  BY <1>2, <1>4

LEMMA RouteFacts ==
  ASSUME NEW in, InputAccepted(in)
  PROVE  /\ IsFiniteSet(Routes(in)) /\ Routes(in) \subseteq Nat
         /\ \A r \in Routes(in) :
              /\ RouteAccepted(in, in.routes[r]) /\ SupportsAccepted(in, in.routes[r].supports)
              /\ IsFiniteSet(DOMAIN in.routes[r].geometry)
              /\ in.routes[r].product \in Products(in)
<1>1. /\ IsSequence(in.routes)
      /\ \A r \in Routes(in) : RouteAccepted(in, in.routes[r]) /\ SupportsAccepted(in, in.routes[r].supports)
  BY DEF InputAccepted, RoutesAccepted
<1>2. Len(in.routes) \in Nat /\ DOMAIN in.routes = 1..Len(in.routes) /\ IsFiniteSet(DOMAIN in.routes)
  BY <1>1, IndicesOf
<1>3. \A r \in Routes(in) : IsSequence(in.routes[r].geometry) /\ in.routes[r].product \in Products(in)
  BY <1>1, Zenon DEF RouteAccepted, HasRole
<1> QED
  BY <1>1, <1>2, <1>3, IndicesOf DEF Routes

LEMMA ItemFacts ==
  ASSUME NEW in, InputAccepted(in)
  PROVE  /\ IsFiniteSet(Items(in))
         /\ \A g \in Items(in) :
              /\ g[1] \in Routes(in)
              /\ Item(in, g).length \in Fractions
              /\ Straight(Item(in, g)) => Item(in, g).length \in Positives
              /\ ~Straight(Item(in, g)) =>
                   /\ Item(in, g).product = None \/ Item(in, g).product \in Products(in)
                   /\ Item(in, g).connectionRule = None
                      \/ IsRule(in, Item(in, g).connectionRule, "fittingConnection")
                   /\ Item(in, g).supportRule = None
                      \/ IsRule(in, Item(in, g).supportRule, "fittingAdditionalSupport")
<1>1. IsFiniteSet(Items(in))
  <2> DEFINE Part(r) == { <<r, i>> : i \in DOMAIN in.routes[r].geometry }
             Parts == { Part(r) : r \in Routes(in) }
  <2>1. ASSUME NEW r \in Routes(in) PROVE IsFiniteSet(Part(r))
    <3>1. IsFiniteSet(DOMAIN in.routes[r].geometry)
      BY RouteFacts
    <3> DEFINE f == [i \in DOMAIN in.routes[r].geometry |-> <<r, i>>]
    <3>2. f \in Surjection(DOMAIN in.routes[r].geometry, Part(r))
      BY DEF Surjection
    <3> QED
      BY <3>1, <3>2, FS_Surjection
  <2>2. IsFiniteSet(Parts)
    <3>1. IsFiniteSet(Routes(in))
      BY RouteFacts
    <3> DEFINE f == [r \in Routes(in) |-> Part(r)]
    <3>2. f \in Surjection(Routes(in), Parts)
      BY DEF Surjection
    <3> QED
      BY <3>1, <3>2, FS_Surjection
  <2>3. \A T \in Parts : IsFiniteSet(T)
    BY <2>1
  <2>4. Items(in) = UNION Parts
    BY DEF Items
  <2> HIDE DEF Parts
  <2> QED
    BY <2>2, <2>3, <2>4, FS_UNION
<1>2. ASSUME NEW g \in Items(in)
      PROVE  /\ g[1] \in Routes(in)
             /\ Item(in, g).length \in Fractions
             /\ Straight(Item(in, g)) => Item(in, g).length \in Positives
             /\ ~Straight(Item(in, g)) =>
                  /\ Item(in, g).product = None \/ Item(in, g).product \in Products(in)
                  /\ Item(in, g).connectionRule = None
                     \/ IsRule(in, Item(in, g).connectionRule, "fittingConnection")
                  /\ Item(in, g).supportRule = None
                     \/ IsRule(in, Item(in, g).supportRule, "fittingAdditionalSupport")
  <2>0. PICK r \in Routes(in) : \E i \in DOMAIN in.routes[r].geometry : g = <<r, i>>
    BY DEF Items
  <2>1. PICK i \in DOMAIN in.routes[r].geometry : g = <<r, i>>
    BY <2>0
  <2>2. PICK item : item = in.routes[r].geometry[i]
    OBVIOUS
  <2>3. Item(in, g) = item /\ g[1] = r
    BY <2>1, <2>2 DEF Item
  <2>4. RouteAccepted(in, in.routes[r])
    BY RouteFacts
  <2>5. IF Straight(item)
        THEN item.length \in Positives
        ELSE /\ item.length \in Fractions
             /\ item.product # None => HasRole(in, item.product, "fitting")
             /\ item.connectionRule # None => IsRule(in, item.connectionRule, "fittingConnection")
             /\ item.supportRule # None => IsRule(in, item.supportRule, "fittingAdditionalSupport")
    BY <2>1, <2>2, <2>4, Zenon DEF RouteAccepted, Optional
  <2>6. Positives \subseteq Fractions
    BY DEF Positives
  <2> QED
    BY <2>3, <2>5, <2>6 DEF HasRole
<1> QED
  BY <1>1, <1>2

-----------------------------------------------------------------------------
(* Straight sections and the joints inside straight runs.                  *)

LEMMA SectionEventFits ==
  ASSUME NEW in, NEW route, NEW item, item.length \in Positives,
         NEW option, option.length \in {3000, 6000}
  PROVE  /\ SectionEvent(in, route, item, option).from =
              <<"linearSection", <<"segment", item.id>>, route.product, None>>
         /\ SectionEvent(in, route, item, option).quantity # Zero
         /\ \E n \in Nat \ {0} : SectionEvent(in, route, item, option).count = Whole(n)
<1> DEFINE unit == in.products[route.product].unit
           length == Fraction(option.length, 1000)
           count == Ceil(Divide(item.length, length))
           quantity == IF unit = "m" THEN Multiply(count, length) ELSE count
           base == Event(in, <<"linearSection", <<"segment", item.id>>, route.product, None>>,
                         route.product, "linearSection", quantity, "calculated")
           e == SectionEvent(in, route, item, option)
<1>1. length \in Positives
  <2>1. PICK n \in Nat, d \in Nat \ {0} : n = option.length /\ d = 1000 /\ n # 0
    OBVIOUS
  <2>2. Fraction(n, d) \in Positives
    BY <2>1, FractionFits
  <2> QED
    BY <2>1, <2>2
<1> HIDE DEF length
<1>2. Divide(item.length, length) \in Positives
  BY <1>1, DivideFits, FractionTypes
<1>3. PICK n \in Nat \ {0} : count = Whole(n)
  <2>1. Divide(item.length, length) \in Fractions
    BY <1>2, FractionTypes
  <2> QED
    BY <1>2, <2>1, CeilFits
<1>4. count \in Positives
  BY <1>3, WholeFits
<1>5. quantity # Zero
  <2> HIDE DEF count
  <2>1. Multiply(count, length) \in Positives
    BY <1>1, <1>4, MultiplyFits, FractionTypes
  <2> QED
    BY <1>4, <2>1, FractionTypes
<1>6. e = [base EXCEPT !.option = option.id, !.length = length, !.count = count]
  BY DEF SectionEvent, length
<1>7. /\ e.from = <<"linearSection", <<"segment", item.id>>, route.product, None>>
      /\ e.quantity = quantity
      /\ e.count = count
  <2> HIDE DEF count, quantity, e
  <2> QED
    BY <1>6 DEF Event
<1> HIDE DEF count, quantity
<1> QED
  BY <1>3, <1>5, <1>7

LEMMA SectionEventIs ==
  ASSUME NEW in, NEW route, NEW item, NEW option, NEW e, e = SectionEvent(in, route, item, option)
  PROVE  /\ e.from = <<"linearSection", <<"segment", item.id>>, route.product, None>>
         /\ e.product = route.product
         /\ e.length = Fraction(option.length, 1000)
         /\ e.count = Ceil(Divide(item.length, Fraction(option.length, 1000)))
<1> DEFINE unit == in.products[route.product].unit
           length == Fraction(option.length, 1000)
           count == Ceil(Divide(item.length, length))
           quantity == IF unit = "m" THEN Multiply(count, length) ELSE count
           from == <<"linearSection", <<"segment", item.id>>, route.product, None>>
           b == Event(in, from, route.product, "linearSection", quantity, "calculated")
<1>1. e = [b EXCEPT !.option = option.id, !.length = length, !.count = count]
  BY Zenon DEF SectionEvent
<1> HIDE DEF quantity, count, length, from
<1>2. /\ {"from", "product", "option", "length", "count"} \subseteq DOMAIN b
      /\ b.from = from /\ b.product = route.product
  BY DEF Event
<1> HIDE DEF b
<1>3. e.from = from /\ e.product = route.product /\ e.length = length /\ e.count = count
  BY <1>1, <1>2
<1> QED
  BY <1>3 DEF from, count, length

LEMMA OptionLengths ==
  ASSUME NEW in, InputAccepted(in), NEW p \in Products(in)
  PROVE  \A o \in in.products[p].options : o.length \in {3000, 6000}
<1>1. ProductAccepted(in, p)
  BY Zenon DEF InputAccepted, ProductsAccepted, Collection
<1> QED
  BY <1>1, SMT DEF ProductAccepted, Collection, Distinct

LEMMA SectionIsEmitted ==
  ASSUME NEW in, InputAccepted(in), NEW g \in Segments(in), Clean(SectionDemand(in, g))
  PROVE  \E e : /\ SectionDemand(in, g).events = {e}
                /\ e.from = <<"linearSection", <<"segment", Item(in, g).id>>, in.routes[g[1]].product, None>>
                /\ e.quantity # Zero
                /\ \E n \in Nat \ {0} : e.count = Whole(n)
                /\ e.product = in.routes[g[1]].product
                /\ Leq(Item(in, g).length, Multiply(e.count, e.length))
<1> DEFINE route == in.routes[g[1]]
           p == route.product
           item == Item(in, g)
           subject == <<"segment", item.id>>
           chosen == IF item.option = None THEN route.option ELSE item.option
           options == { o \in in.products[p].options : o.id = chosen /\ o.active /\ o.orderable }
           option == CHOOSE o \in options : TRUE
           rule == in.rules[option.rule]
           event == SectionEvent(in, route, item, option)
           compatible == IfCompatible(in, "straightSection", p, subject, event)
           refused == Unresolved(in, {Warning("UNRESOLVED_SECTION_SUPPLY_OPTION", subject)})
           out == SectionDemand(in, g)
<1>1. out = IF options = {} THEN refused
            ELSE IF rule.type = "supplyOption" /\ rule.product = p /\ rule.option = option.id
            THEN compatible
            ELSE Throws("SEMANTIC_INPUT_INVALID")
  BY Zenon DEF SectionDemand
<1>2. g \in Items(in) /\ item.length \in Positives /\ p \in Products(in)
  BY ItemFacts, RouteFacts DEF Segments
<1>3. options # {} => option.length \in {3000, 6000}
  <2>1. \A o \in in.products[p].options : o.length \in {3000, 6000}
    BY <1>2, OptionLengths
  <2>2. options # {} => option \in options
    <3> HIDE DEF options
    <3> QED
      BY Zenon
  <2>3. options \subseteq in.products[p].options
    OBVIOUS
  <2> HIDE DEF option, options
  <2> QED
    BY <2>1, <2>2, <2>3
<1>4. ~Clean(refused)
  <2>1. "UNRESOLVED_SECTION_SUPPLY_OPTION" \in Blocking
    BY DEF Blocking
  <2> QED
    BY <2>1, CodeBlocks
<1>5. CompatibilityAccepted(in)
  BY DEF InputAccepted
<1>6. Clean(out)
  OBVIOUS
<1>7. Clean(compatible) => compatible = Emits({event})
  <2> HIDE DEF event, subject
  <2> QED
    BY <1>5, CompatibleIsEmitted
<1> HIDE DEF option, options, event, refused, out, rule, compatible
<1>8. options # {} /\ out = Emits({event})
  BY <1>1, <1>4, <1>6, <1>7, NotClean, Zenon
<1>9. out.events = {event}
  BY <1>8, OutParts DEF Emits
<1>10. /\ event.from = <<"linearSection", subject, p, None>>
       /\ event.quantity # Zero
       /\ \E n \in Nat \ {0} : event.count = Whole(n)
  <2> HIDE DEF item, route
  <2>1. option.length \in {3000, 6000}
    BY <1>3, <1>8
  <2> QED
    BY <1>2, <2>1, SectionEventFits DEF event
<1>11. event.product = p /\ Leq(item.length, Multiply(event.count, event.length))
  <2>1. PICK o, n : o = option /\ n = option.length
    OBVIOUS
  <2>2. n \in {3000, 6000}
    BY <1>3, <1>8, <2>1
  <2>3. Fraction(n, 1000) \in Positives
    <3>1. n \in Nat \ {0} /\ 1000 \in Nat \ {0}
      BY <2>2
    <3> QED
      BY <3>1, FractionFits
  <2>4. PICK y \in Positives : y = Fraction(n, 1000)
    BY <2>3
  <2>5. PICK x \in Fractions : x = item.length
    BY <1>2, FractionTypes
  <2>6. PICK e : e = SectionEvent(in, route, item, o)
    OBVIOUS
  <2>7. e = event
    BY <2>1, <2>6 DEF event
  <2> HIDE DEF item, route
  <2>8. e.product = route.product /\ e.length = Fraction(o.length, 1000)
        /\ e.count = Ceil(Divide(item.length, Fraction(o.length, 1000)))
    BY <2>6, SectionEventIs
  <2>9. e.length = y /\ e.count = Ceil(Divide(x, y))
    BY <2>1, <2>4, <2>5, <2>8
  <2>10. Leq(x, Multiply(Ceil(Divide(x, y)), y))
    BY RoundUp
  <2> QED
    BY <2>5, <2>7, <2>8, <2>9, <2>10
<1> QED
  BY <1>9, <1>10, <1>11, Zenon DEF out

LEMMA RuleFacts ==
  ASSUME NEW in, InputAccepted(in)
  PROVE  /\ IsFiniteSet(DOMAIN in.rules)
         /\ \A r \in DOMAIN in.rules :
              LET rule == in.rules[r]
              IN /\ rule.type \in {"internalJoint", "endpointMaterial", "wstbPerSupport"} =>
                      rule.quantity \in Nat \ {0}
                 /\ rule.type = "fittingAdditionalSupport" => rule.quantity \in Nat
                 /\ rule.type \in {"fittingConnection", "physicalConnection"} =>
                      /\ IsFiniteSet(rule.components)
                      /\ \A c \in rule.components : c.quantity \in Nat \ {0} /\ c.sides \in Nat \ {0}
<1>1. IsFiniteSet(DOMAIN in.rules) /\ \A r \in DOMAIN in.rules : RuleAccepted(in.rules[r])
  BY Zenon DEF InputAccepted, RulesAccepted, Collection
<1>2. ASSUME NEW rule, RuleAccepted(rule)
      PROVE  /\ rule.type \in {"internalJoint", "endpointMaterial", "wstbPerSupport"} =>
                  rule.quantity \in Nat \ {0}
             /\ rule.type = "fittingAdditionalSupport" => rule.quantity \in Nat
             /\ rule.type \in {"fittingConnection", "physicalConnection"} =>
                  /\ IsFiniteSet(rule.components)
                  /\ \A c \in rule.components : c.quantity \in Nat \ {0} /\ c.sides \in Nat \ {0}
  BY <1>2 DEF RuleAccepted, Collection
<1> QED
  BY <1>1, <1>2

\* The section events say of every section how many pieces it takes.
SectionsCounted(emitted) == \A e \in emitted : \E n \in Nat \ {0} : e.count = Whole(n)

LEMMA RunFits ==
  ASSUME NEW in, InputAccepted(in), NEW emitted, SectionsCounted(emitted),
         NEW run \in StraightRuns(in, SegmentsOf(in, emitted))
  PROVE  /\ run # {} /\ run \subseteq SegmentsOf(in, emitted)
         /\ \E n \in Nat \ {0} : RunSections(in, emitted, run) = Whole(n)
<1> DEFINE S == SegmentsOf(in, emitted)
           count == [g \in run |-> SectionOf(in, emitted, g).count]
<1>1. IsFiniteSet(S)
  <2>1. S \in SUBSET Items(in)
    BY DEF SegmentsOf, Segments
  <2> QED
    BY <2>1, ItemFacts, FS_Subset
<1>2. run \in SUBSET S /\ run # {}
  <2>1. {} \notin Adjacent(in, S)
    <3>1. {} \notin { {g, h} : g, h \in S }
      OBVIOUS
    <3>2. Adjacent(in, S) \subseteq { {g, h} : g, h \in S }
      <4> HIDE DEF S
      <4> QED
        BY SMT DEF Adjacent
    <3> QED
      BY <3>1, <3>2
  <2>2. run \in Blocks(S, Adjacent(in, S))
    BY DEF StraightRuns
  <2> QED
    BY <1>1, <2>1, <2>2, BlocksFit
<1>3. ASSUME NEW g \in run PROVE \E n \in Nat \ {0} : count[g] = Whole(n)
  <2>1. <<"segment", Item(in, g).id>> \in { e.from[2] : e \in emitted }
    BY <1>2 DEF SegmentsOf
  <2>2. \E e \in emitted : e.from[2] = <<"segment", Item(in, g).id>>
    BY <2>1
  <2>3. SectionOf(in, emitted, g) \in emitted
    BY <2>2, Zenon DEF SectionOf
  <2>4. count[g] = SectionOf(in, emitted, g).count
    OBVIOUS
  <2> QED
    BY <2>3, <2>4 DEF SectionsCounted
<1>4. RunSections(in, emitted, run) = SumOf(count)
  BY Zenon DEF RunSections, SumOver
<1>5. DOMAIN count = run /\ IsFiniteSet(run)
  BY <1>1, <1>2, FS_Subset
<1> HIDE DEF count
<1>6. \A g \in DOMAIN count : count[g] \in Fractions /\ count[g] \in Positives /\ \E n \in Nat : count[g] = Whole(n)
  BY <1>3, <1>5, WholeFits
<1>7. SumOf(count) \in Positives /\ \E n \in Nat : SumOf(count) = Whole(n)
  BY <1>2, <1>5, <1>6, SumFits
<1>8. PICK n \in Nat : SumOf(count) = Whole(n)
  BY <1>7
<1>9. n # 0
  BY <1>7, <1>8, FractionTypes DEF Zero
<1> QED
  BY <1>2, <1>4, <1>8, <1>9

LEMMA JointIsEmitted ==
  ASSUME NEW in, InputAccepted(in), NEW emitted, SectionsCounted(emitted),
         NEW run \in StraightRuns(in, SegmentsOf(in, emitted)),
         RunSections(in, emitted, run) # One,
         Clean(JointDemand(in, emitted, run)),
         NEW r \in DOMAIN in.rules,
         in.rules[r].type = "internalJoint",
         in.rules[r].straight = in.routes[(CHOOSE g \in run : TRUE)[1]].product,
         \A g \in run : in.rules[r].option \in {None, SectionOf(in, emitted, g).option},
         Available(in, in.rules[r].product)
  PROVE  Has(JointDemand(in, emitted, run),
             <<"connector", <<"straightRun", { Item(in, g).id : g \in run }>>, in.rules[r].product, r>>)
<1> DEFINE product == in.routes[(CHOOSE g \in run : TRUE)[1]].product
           options == { SectionOf(in, emitted, g).option : g \in run }
           count == RunSections(in, emitted, run)
           subject == <<"straightRun", { Item(in, g).id : g \in run }>>
           matching == { q \in DOMAIN in.rules :
                           /\ in.rules[q].type = "internalJoint"
                           /\ in.rules[q].straight = product
                           /\ in.rules[q].option = None \/ options = {in.rules[q].option} }
           rule == CHOOSE q \in matching : TRUE
           Demand(q) == CountDemand(in, in.rules[q].product, "connector", "connection", subject,
                                    Multiply(Subtract(count, One), Whole(in.rules[q].quantity)),
                                    in.rules[q].confidence, q)
           refused == Unresolved(in, {Warning("UNRESOLVED_JOINT_PRODUCT", subject)})
           out == JointDemand(in, emitted, run)
<1>1. out = IF Leq(count, One) THEN Emits({}) ELSE IF Cardinality(matching) # 1 THEN refused ELSE Demand(rule)
  BY Zenon DEF JointDemand
<1>2. r \in matching
  <2>1. run # {}
    BY RunFits
  <2>2. in.rules[r].option = None \/ options = {in.rules[r].option}
    BY <2>1
  <2> HIDE DEF options
  <2> QED
    BY <2>2
<1>3. PICK n \in Nat \ {0} : count = Whole(n)
  BY RunFits
<1>4. n # 1
  BY <1>3 DEF One
<1>5. ~Leq(count, One)
  BY <1>3, <1>4, WholesAdd DEF One
<1>6. Multiply(Subtract(count, One), Whole(in.rules[r].quantity)) # Zero
  <2>1. n - 1 \in Nat /\ n - 1 # 0 /\ 1 \in Nat /\ 1 <= n
    BY <1>4
  <2>2. Subtract(count, One) = Whole(n - 1)
    BY <1>3, <2>1, WholesAdd DEF One
  <2>3. in.rules[r].quantity \in Nat \ {0}
    BY RuleFacts
  <2>4. Whole(n - 1) \in Positives /\ Whole(in.rules[r].quantity) \in Positives
    BY <2>1, <2>3, WholeFits
  <2>5. Multiply(Whole(n - 1), Whole(in.rules[r].quantity)) \in Positives
    BY <2>4, MultiplyFits, FractionTypes
  <2> QED
    BY <2>2, <2>5, FractionTypes
<1>7. ~Clean(refused)
  <2>1. "UNRESOLVED_JOINT_PRODUCT" \in Blocking
    BY DEF Blocking
  <2> QED
    BY <2>1, CodeBlocks
<1>8. Clean(out)
  OBVIOUS
<1>9. IsFiniteSet(matching)
  <2>1. matching \in SUBSET DOMAIN in.rules
    OBVIOUS
  <2> HIDE DEF matching
  <2> QED
    BY <2>1, RuleFacts, FS_Subset
<1> HIDE DEF matching, out, refused, count, Demand
<1>10. Cardinality(matching) = 1 /\ out = Demand(rule)
  BY <1>1, <1>5, <1>7, <1>8, Zenon
<1>11. matching = {r}
  BY <1>2, <1>9, <1>10, FS_Singleton
<1>12. rule = r
  BY <1>11
<1>13. out = Demand(r)
  BY <1>10, <1>12, Zenon
<1>14. CompatibilityAccepted(in)
  BY DEF InputAccepted
<1>15. Has(Demand(r), <<"connector", subject, in.rules[r].product, r>>)
  <2> HIDE DEF subject
  <2> QED
    BY <1>6, <1>8, <1>13, <1>14, CountIsEmitted DEF Demand
<1> QED
  BY <1>13, <1>15 DEF out

-----------------------------------------------------------------------------
(* Fittings, connections, endpoints, accessories and manual items.         *)

LEMMA RuleIsFollowed ==
  ASSUME NEW in, InputAccepted(in), NEW r \in DOMAIN in.rules,
         in.rules[r].type \in {"fittingConnection", "physicalConnection"},
         NEW subject, NEW corrections, Clean(RuleDemand(in, r, subject, corrections)),
         NEW p \in { c.product : c \in in.rules[r].components }, Available(in, p),
         \A c \in corrections : c.product # p
  PROVE  Has(RuleDemand(in, r, subject, corrections), <<"connector", subject, p, r>>)
<1> DEFINE rule == in.rules[r]
           own == { c \in rule.components : c.product = p }
           quantities == [c \in own |-> Whole(c.quantity * c.sides)]
           original == SumOver(LAMBDA c : Whole(c.quantity * c.sides),
                               { c \in rule.components : c.product = p })
           context == IF subject[1] = "fitting" THEN "fitting" ELSE "connection"
           demand == CountDemand(in, p, "connector", context, subject, original, rule.confidence, r)
           out == RuleComponentDemand(in, r, p, subject, corrections)
<1>1. original = SumOf(quantities)
  BY Zenon DEF SumOver
<1>2. original # Zero
  <2>1. own # {} /\ own \in SUBSET rule.components
    OBVIOUS
  <2>2. IsFiniteSet(own)
    <3> HIDE DEF own
    <3>1. IsFiniteSet(rule.components)
      BY RuleFacts
    <3> QED
      BY <2>1, <3>1, FS_Subset
  <2>3. ASSUME NEW c \in own PROVE Whole(c.quantity * c.sides) \in Positives
    <3>1. c.quantity \in Nat \ {0} /\ c.sides \in Nat \ {0}
      BY RuleFacts
    <3>2. c.quantity * c.sides \in Nat /\ c.quantity * c.sides # 0
      BY <3>1, TimesKeepsOrder
    <3> QED
      BY <3>2, WholeFits
  <2>4. DOMAIN quantities = own /\ \A c \in own : quantities[c] \in Positives /\ quantities[c] \in Fractions
    BY <2>3, FractionTypes
  <2> HIDE DEF quantities, own
  <2>5. SumOf(quantities) \in Positives
    BY <2>1, <2>2, <2>4, SumFits
  <2> QED
    BY <1>1, <2>5, FractionTypes
<1>3. out = demand
  BY Zenon DEF RuleComponentDemand
<1> HIDE DEF original, context
<1>4. \A from : Has(out, from) => Has(RuleDemand(in, r, subject, corrections), from)
  <2>1. PICK outs : outs = { RuleComponentDemand(in, r, q, subject, corrections)
                               : q \in { c.product : c \in in.rules[r].components } }
    OBVIOUS
  <2>2. RuleDemand(in, r, subject, corrections) = All(outs)
    BY <2>1, Zenon DEF RuleDemand
  <2>3. out \in outs
    BY <2>1
  <2> HIDE DEF out
  <2> QED
    BY <2>2, <2>3, AllClean
<1>5. Clean(demand)
  <2>1. PICK outs : outs = { RuleComponentDemand(in, r, q, subject, corrections)
                               : q \in { c.product : c \in in.rules[r].components } }
    OBVIOUS
  <2>2. RuleDemand(in, r, subject, corrections) = All(outs)
    BY <2>1, Zenon DEF RuleDemand
  <2>3. out \in outs
    BY <2>1
  <2> HIDE DEF out, demand
  <2> QED
    BY <1>3, <2>2, <2>3, AllClean
<1>6. CompatibilityAccepted(in)
  BY DEF InputAccepted
<1>7. Has(demand, <<"connector", subject, p, r>>)
  BY <1>2, <1>5, <1>6, CountIsEmitted
<1> HIDE DEF out, demand
<1> QED
  BY <1>3, <1>4, <1>7

LEMMA FittingIsEmitted ==
  ASSUME NEW in, InputAccepted(in), NEW g \in Fittings(in), Clean(FittingDemand(in, g))
  PROVE  /\ Item(in, g).product # None =>
              Has(FittingDemand(in, g), <<"fitting", <<"fitting", Item(in, g).id>>, Item(in, g).product, None>>)
         /\ Item(in, g).connectionRule \in DOMAIN in.rules
         /\ \A p \in { c.product : c \in in.rules[Item(in, g).connectionRule].components } :
              Available(in, p) =>
                Has(FittingDemand(in, g),
                    <<"connector", <<"fitting", Item(in, g).id>>, p, Item(in, g).connectionRule>>)
<1> DEFINE item == Item(in, g)
           subject == <<"fitting", item.id>>
           r == item.connectionRule
           body == CountDemand(in, item.product, "fitting", "fitting", subject, One, "catalogConfirmed", None)
           first == IF item.product = None THEN Emits({}) ELSE body
           refused == Unresolved(in, {Warning("UNRESOLVED_FITTING_CONNECTION", subject)})
           joined == RuleDemand(in, r, subject, {})
           second == IF r = None THEN refused
                     ELSE IF in.rules[r].type = "fittingConnection" /\ in.rules[r].owner = item.id
                     THEN joined ELSE Throws("SEMANTIC_INPUT_INVALID")
           out == FittingDemand(in, g)
<1>1. out = Both(first, second)
  BY Zenon DEF FittingDemand
<1>2. r = None \/ IsRule(in, r, "fittingConnection")
  BY ItemFacts DEF Fittings, Segments
<1>3. ~Clean(refused)
  <2>1. "UNRESOLVED_FITTING_CONNECTION" \in Blocking
    BY DEF Blocking
  <2> QED
    BY <2>1, CodeBlocks
<1>4. One # Zero /\ CompatibilityAccepted(in)
  BY DEF One, Zero, Whole, InputAccepted
<1> HIDE DEF item, body, refused, joined, subject, r, out
<1>5. /\ Clean(first) /\ Clean(second)
      /\ \A from : Has(first, from) \/ Has(second, from) => Has(out, from)
  <2>1. Clean(out)
    BY DEF out
  <2> HIDE DEF first, second
  <2> QED
    BY <1>1, <2>1, BothClean
<1>6. r # None /\ second = joined /\ in.rules[r].type = "fittingConnection"
  BY <1>3, <1>5, NotClean
<1>7. r \in DOMAIN in.rules
  BY <1>2, <1>6 DEF IsRule
<1>8. item.product # None => Has(out, <<"fitting", subject, item.product, None>>)
  <2>1. item.product # None => Clean(body)
    BY <1>5
  <2>2. item.product # None => Has(body, <<"fitting", subject, item.product, None>>)
    BY <1>4, <2>1, CountIsEmitted DEF body
  <2> QED
    BY <1>5, <2>2
<1>9. ASSUME NEW p \in { c.product : c \in in.rules[r].components }, Available(in, p)
      PROVE  Has(out, <<"connector", subject, p, r>>)
  <2>1. Clean(RuleDemand(in, r, subject, {}))
    BY <1>5, <1>6 DEF joined
  <2>2. in.rules[r].type \in {"fittingConnection", "physicalConnection"} /\ \A c \in {} : c.product # p
    BY <1>6
  <2>3. Has(RuleDemand(in, r, subject, {}), <<"connector", subject, p, r>>)
    BY <1>7, <1>9, <2>1, <2>2, RuleIsFollowed
  <2> QED
    BY <1>5, <1>6, <2>3 DEF joined
<1> QED
  BY <1>7, <1>8, <1>9 DEF item, subject, r, out

LEMMA ConnectionIsEmitted ==
  ASSUME NEW in, InputAccepted(in), NEW c \in in.connections, c.type # "logicalContinuation",
         Clean(ConnectionDemand(in, c))
  PROVE  /\ c.rule \in DOMAIN in.rules
         /\ \A p \in { k.product : k \in in.rules[c.rule].components } \ { k.product : k \in c.corrections } :
              Available(in, p) =>
                Has(ConnectionDemand(in, c), <<"connector", <<"connection", c.id>>, p, c.rule>>)
<1> DEFINE subject == <<"connection", c.id>>
           r == c.rule
           refused == Unresolved(in, {Warning("UNRESOLVED_FITTING_CONNECTION", subject)})
           joined == RuleDemand(in, r, subject, c.corrections)
           out == ConnectionDemand(in, c)
<1>1. out = IF c.type = "logicalContinuation" THEN Emits({})
            ELSE IF r = None THEN refused
            ELSE IF in.rules[r].type = "physicalConnection" /\ in.rules[r].owner = c.id
            THEN joined ELSE Throws("SEMANTIC_INPUT_INVALID")
  BY Zenon DEF ConnectionDemand
<1>2. r # None => IsRule(in, r, "physicalConnection")
  <2>1. ConnectionAccepted(in, c)
    BY Zenon DEF InputAccepted, ConnectionsAccepted, Collection
  <2> QED
    BY <2>1, Zenon DEF ConnectionAccepted, Optional
<1>3. ~Clean(refused)
  <2>1. "UNRESOLVED_FITTING_CONNECTION" \in Blocking
    BY DEF Blocking
  <2> QED
    BY <2>1, CodeBlocks
<1>4. Clean(out)
  OBVIOUS
<1> HIDE DEF refused, joined, subject, r, out
<1>5. r # None /\ out = joined /\ in.rules[r].type = "physicalConnection"
  BY <1>1, <1>3, <1>4, NotClean
<1>6. r \in DOMAIN in.rules
  BY <1>2, <1>5 DEF IsRule
<1>7. ASSUME NEW p \in { k.product : k \in in.rules[r].components } \ { k.product : k \in c.corrections },
             Available(in, p)
      PROVE  Has(out, <<"connector", subject, p, r>>)
  <2>1. Clean(RuleDemand(in, r, subject, c.corrections))
    BY <1>4, <1>5 DEF joined
  <2>2. /\ in.rules[r].type \in {"fittingConnection", "physicalConnection"}
        /\ p \in { k.product : k \in in.rules[r].components }
        /\ \A k \in c.corrections : k.product # p
    BY <1>5, <1>7
  <2>3. Has(RuleDemand(in, r, subject, c.corrections), <<"connector", subject, p, r>>)
    BY <1>6, <1>7, <2>1, <2>2, RuleIsFollowed
  <2> QED
    BY <1>5, <2>3 DEF joined
<1> QED
  BY <1>6, <1>7 DEF subject, r, out

LEMMA EndpointIsEmitted ==
  ASSUME NEW in, InputAccepted(in), NEW end \in Ends(in), OwnsMaterial(end),
         Clean(EndpointDemand(in, end))
  PROVE  /\ end.rule \in DOMAIN in.rules
         /\ Available(in, in.rules[end.rule].product) =>
              Has(EndpointDemand(in, end),
                  <<"endpointMaterial", <<"endpoint", end.id>>, in.rules[end.rule].product, end.rule>>)
<1> DEFINE subject == <<"endpoint", end.id>>
           rule == in.rules[end.rule]
           refused == Unresolved(in, {Warning("UNRESOLVED_ENDPOINT_MATERIAL", subject)})
           demand == CountDemand(in, rule.product, "endpointMaterial", "endpoint", subject,
                                 Whole(rule.quantity), rule.confidence, end.rule)
           out == EndpointDemand(in, end)
<1>1. out = IF ~OwnsMaterial(end) THEN Emits({})
            ELSE IF end.rule = None THEN refused
            ELSE IF rule.type = "endpointMaterial" /\ rule.owner = end.id
            THEN demand ELSE Throws("SEMANTIC_INPUT_INVALID")
  BY Zenon DEF EndpointDemand
<1>2. end.rule # None => IsRule(in, end.rule, "endpointMaterial")
  BY Zenon DEF InputAccepted, EndsAccepted, Optional
<1>3. ~Clean(refused)
  <2>1. "UNRESOLVED_ENDPOINT_MATERIAL" \in Blocking
    BY DEF Blocking
  <2> QED
    BY <2>1, CodeBlocks
<1>4. Clean(out)
  OBVIOUS
<1> HIDE DEF refused, demand, out
<1>5. end.rule # None /\ out = demand /\ rule.type = "endpointMaterial"
  BY <1>1, <1>3, <1>4, NotClean
<1>6. end.rule \in DOMAIN in.rules
  BY <1>2, <1>5 DEF IsRule
<1>7. Whole(rule.quantity) # Zero
  <2>1. rule.quantity \in Nat \ {0}
    BY <1>5, <1>6, RuleFacts
  <2> QED
    BY <2>1, WholeFits, FractionTypes
<1>8. CompatibilityAccepted(in)
  BY DEF InputAccepted
<1>9. Available(in, rule.product) =>
        Has(demand, <<"endpointMaterial", subject, rule.product, end.rule>>)
  <2> HIDE DEF subject, rule
  <2> QED
    BY <1>4, <1>5, <1>7, <1>8, CountIsEmitted DEF demand
<1> QED
  BY <1>5, <1>6, <1>9 DEF out

LEMMA AccessoryIsEmitted ==
  ASSUME NEW in, InputAccepted(in), NEW p, Clean(AccessoryDemand(in, p))
  PROVE  Has(AccessoryDemand(in, p), <<"accessory", in.project, p, None>>)
<1>1. One # Zero /\ CompatibilityAccepted(in)
  BY DEF One, Zero, Whole, InputAccepted
<1>2. PICK subject : subject = in.project
  OBVIOUS
<1>3. AccessoryDemand(in, p) =
        CountDemand(in, p, "accessory", "accessory", subject, One, "catalogConfirmed", None)
  BY <1>2, Zenon DEF AccessoryDemand
<1>4. Has(CountDemand(in, p, "accessory", "accessory", subject, One, "catalogConfirmed", None),
          <<"accessory", subject, p, None>>)
  BY <1>1, <1>3, CountIsEmitted
<1> QED
  BY <1>2, <1>3, <1>4

LEMMA ManualIsEmitted ==
  ASSUME NEW in, InputAccepted(in), NEW m \in in.manualItems,
         m.override = None \/ m.adjusted # Zero, Clean(ManualDemand(in, m))
  PROVE  Has(ManualDemand(in, m), <<"manual", <<"manualInput", m.id>>, m.product, None>>)
<1> DEFINE subject == <<"manualInput", m.id>>
           policies == Policies(in, m.product, m.id, m.reserve, m.packaging)
           quantity == IF m.override = None THEN m.quantity ELSE m.adjusted
           event == [ from |-> <<"manual", subject, m.product, None>>, product |-> m.product,
                      manual |-> m.id, category |-> "manual", quantity |-> quantity, unit |-> m.unit,
                      option |-> None, length |-> Zero, count |-> Zero,
                      reserve |-> policies.reserve, packaging |-> policies.packaging,
                      boundary |-> <<m.id, policies.boundary>>, status |-> "manual",
                      eligible |-> FALSE, traced |-> quantity ]
           demand == IF m.product = None THEN Emits({event})
                     ELSE IfCompatible(in, "manualCatalog", m.product, subject, event)
           warned == { Overridden("MANUAL_PACKAGE_OVERRIDE", subject, w[3])
                         : w \in { x \in {policies.packaging} : x[1] = "incrementOverride" } }
                     \cup { Overridden("MANUAL_QUANTITY_OVERRIDE", subject, w[3])
                         : w \in { x \in {policies.reserve} : x[1] # "projectDefault" } }
                     \cup { Overridden("MANUAL_QUANTITY_OVERRIDE", subject, w)
                         : w \in {m.override} \ {None} }
           others == IF demand.events = {} THEN Emits({}) ELSE Warns(warned)
           out == ManualDemand(in, m)
<1>0. out = IF m.product # None /\ (~m.named \/ in.products[m.product].unit # m.unit)
            THEN Throws("SEMANTIC_INPUT_INVALID")
            ELSE IF Cardinality(MatchingPolicies(in, m.product, m.id)) > 1 /\ demand.failures = {}
                    /\ demand.events # {}
            THEN Throws("AMBIGUOUS_LINE_POLICY")
            ELSE Both(demand, others)
  BY Zenon DEF ManualDemand
<1>1. \/ out = Throws("SEMANTIC_INPUT_INVALID")
      \/ out = Throws("AMBIGUOUS_LINE_POLICY")
      \/ \E rest : out = Both(demand, rest)
  <2> HIDE DEF demand, others, out
  <2> QED
    BY <1>0, Zenon
<1>2. quantity # Zero
  <2>1. ManualItemAccepted(in, m)
    BY Zenon DEF InputAccepted, ManualItemsAccepted, Collection
  <2>2. m.quantity \in Positives
    BY <2>1, Zenon DEF ManualItemAccepted
  <2> QED
    BY <2>2, FractionTypes
<1>3. event.from = <<"manual", subject, m.product, None>> /\ event.quantity = quantity
  OBVIOUS
<1>4. CompatibilityAccepted(in)
  BY DEF InputAccepted
<1> HIDE DEF event, out, subject, quantity
<1>5. Clean(demand) => Has(demand, event.from)
  <2>1. Has(Emits({event}), event.from)
    BY <1>2, <1>3, EmitsHas
  <2>2. Clean(IfCompatible(in, "manualCatalog", m.product, subject, event)) =>
          IfCompatible(in, "manualCatalog", m.product, subject, event) = Emits({event})
    BY <1>4, CompatibleIsEmitted
  <2> QED
    BY <2>1, <2>2
<1> HIDE DEF demand
<1>6. Clean(out)
  BY DEF out
<1>7. PICK rest : out = Both(demand, rest)
  BY <1>1, <1>6, NotClean
<1>8. Has(out, event.from)
  BY <1>5, <1>6, <1>7, BothClean
<1> QED
  BY <1>3, <1>8 DEF out, subject

-----------------------------------------------------------------------------
(* Support groups.                                                         *)

LEMMA GroupFits ==
  ASSUME NEW in, InputAccepted(in), NEW group \in SupportGroups(in)
  PROVE  /\ group # {} /\ group \subseteq Routes(in) /\ IsFiniteSet(group)
         /\ Leader(group) \in Routes(in)
         /\ SupportsAccepted(in, Configuration(in, group))
<1> DEFINE Pairs(c) == { {c.participants[1].route, r} : r \in RoutesOf(c) }
           joining == { c \in in.connections : Shared(c) /\ Compatible(in, c) }
           pairs == UNION { Pairs(c) : c \in joining }
<1>1. {} \notin pairs
  OBVIOUS
<1>2. SupportGroups(in) = Blocks(Routes(in), pairs)
  BY Zenon DEF SupportGroups
<1>3. IsFiniteSet(Routes(in)) /\ Routes(in) \subseteq Nat
  BY RouteFacts
<1> HIDE DEF pairs
<1>4. group \in SUBSET Routes(in) /\ group # {}
  BY <1>1, <1>2, <1>3, BlocksFit
<1>5. IsFiniteSet(group)
  BY <1>3, <1>4, FS_Subset
<1>6. Leader(group) \in group
  <2>1. group \in SUBSET Nat
    BY <1>3, <1>4
  <2>2. \E r \in group : \A q \in group : r <= q
    BY <1>4, <2>1, Smallest
  <2> QED
    BY <2>2, Zenon DEF Leader
<1>7. SupportsAccepted(in, in.routes[Leader(group)].supports)
  BY <1>4, <1>6, RouteFacts
<1> QED
  BY <1>4, <1>5, <1>6, <1>7 DEF Configuration

LEMMA ConfigurationFacts ==
  ASSUME NEW in, NEW s, SupportsAccepted(in, s)
  PROVE  /\ s.spacing \in Positives
         /\ s.levels \in Nat /\ s.anchorOverride \in Nat /\ s.extra \in Nat
         /\ s.wstbMode \in {"one", "two"} \/ (s.wstbMode = "custom" /\ s.wstbQuantity \in Nat \ {0})
         /\ \A v \in s.manualValues : v.quantity \in Positives
         /\ s.template # None => s.template \in DOMAIN in.templates
<1>1. SupportConfigurationAccepted(s)
  BY Zenon DEF SupportsAccepted
<1>2. s.template # None => s.template \in DOMAIN in.templates
  BY Zenon DEF SupportsAccepted, Optional
<1>3. {s.levels, s.anchorOverride, s.extra} \subseteq Nat
  BY <1>1, Zenon DEF SupportConfigurationAccepted
<1>4. \A v \in s.manualValues : v.quantity \in Positives
  BY <1>1, Zenon DEF SupportConfigurationAccepted, Collection
<1>5. s.spacing \in Positives
  BY <1>1, Zenon DEF SupportConfigurationAccepted
<1>6. s.wstbMode \in {"one", "two"} \/ (s.wstbMode = "custom" /\ s.wstbQuantity \in Nat \ {0})
  BY <1>1, Zenon DEF SupportConfigurationAccepted
<1> QED
  BY <1>2, <1>3, <1>4, <1>5, <1>6

LEMMA SupportCountFits ==
  ASSUME NEW in, InputAccepted(in), NEW group \in SupportGroups(in)
  PROVE  SupportCount(in, group) \in Positives
<1> DEFINE items == GroupItems(in, group)
           resolved == { g \in GroupFittings(in, group) : Item(in, g).supportRule # None }
           first == { c \in in.connections : c.participants[1].route \in group }
           second == { c \in in.connections : c.participants[2].route \in group }
           lengths == [g \in items |-> Item(in, g).length]
           extras == [g \in resolved |-> Whole(in.rules[Item(in, g).supportRule].quantity)]
           manual == [r \in group |-> Whole(in.routes[r].supports.extra)]
           before == [c \in first |-> Whole(c.before)]
           after == [c \in second |-> Whole(c.after)]
           base == Add(Ceil(Divide(SumOf(lengths), Configuration(in, group).spacing)), One)
<1>1. SupportCount(in, group) =
        Add(Add(base, SumOf(extras)), Add(SumOf(manual), Add(SumOf(before), SumOf(after))))
  BY Zenon DEF SupportCount, ConnectionExtras, SumOver
<1>2. items \in SUBSET Items(in) /\ resolved \in SUBSET Items(in)
  BY DEF GroupItems, GroupFittings, Fittings
<1>3. IsFiniteSet(items) /\ IsFiniteSet(resolved)
  <2> HIDE DEF items, resolved
  <2> QED
    BY <1>2, ItemFacts, FS_Subset
<1>4. \A c \in in.connections : c.before \in Nat /\ c.after \in Nat
  <2>1. \A c \in in.connections : ConnectionAccepted(in, c)
    BY Zenon DEF InputAccepted, ConnectionsAccepted, Collection
  <2>2. \A c \in in.connections : {c.before, c.after} \subseteq Nat
    BY <2>1, Zenon DEF ConnectionAccepted
  <2> QED
    BY <2>2
<1>5. IsFiniteSet(first) /\ IsFiniteSet(second)
  <2>1. IsFiniteSet(in.connections)
    BY Zenon DEF InputAccepted, ConnectionsAccepted, Collection
  <2>2. first \in SUBSET in.connections /\ second \in SUBSET in.connections
    OBVIOUS
  <2> HIDE DEF first, second
  <2> QED
    BY <2>1, <2>2, FS_Subset
<1>6. SumOf(lengths) \in Fractions
  <2>1. DOMAIN lengths = items /\ \A g \in items : lengths[g] \in Fractions
    BY <1>2, ItemFacts
  <2> HIDE DEF lengths, items
  <2> QED
    BY <1>3, <2>1, SumFits
<1>7. SumOf(extras) \in Fractions
  <2>1. ASSUME NEW g \in resolved PROVE extras[g] \in Fractions
    <3>1. g \in Fittings(in) /\ g \in Items(in)
      BY <1>2 DEF GroupFittings
    <3>2. IsRule(in, Item(in, g).supportRule, "fittingAdditionalSupport")
      BY <3>1, ItemFacts DEF Fittings, Segments
    <3>3. in.rules[Item(in, g).supportRule].quantity \in Nat
      BY <3>2, RuleFacts DEF IsRule
    <3>4. Whole(in.rules[Item(in, g).supportRule].quantity) \in Fractions
      BY <3>3, WholeFits
    <3> QED
      BY <3>4
  <2>2. DOMAIN extras = resolved
    OBVIOUS
  <2> HIDE DEF extras, resolved
  <2> QED
    BY <1>3, <2>1, <2>2, SumFits
<1>8. SumOf(manual) \in Fractions
  <2>1. ASSUME NEW r \in group PROVE manual[r] \in Fractions
    <3>1. SupportsAccepted(in, in.routes[r].supports)
      BY GroupFits, RouteFacts
    <3>2. in.routes[r].supports.extra \in Nat
      BY <3>1, ConfigurationFacts
    <3>3. Whole(in.routes[r].supports.extra) \in Fractions
      BY <3>2, WholeFits
    <3> QED
      BY <3>3
  <2>2. DOMAIN manual = group /\ IsFiniteSet(group)
    BY GroupFits
  <2> HIDE DEF manual
  <2> QED
    BY <2>1, <2>2, SumFits
<1>9. SumOf(before) \in Fractions /\ SumOf(after) \in Fractions
  <2>1. ASSUME NEW c \in first PROVE before[c] \in Fractions
    <3>1. Whole(c.before) \in Fractions
      BY <1>4, WholeFits
    <3> QED
      BY <3>1
  <2>2. ASSUME NEW c \in second PROVE after[c] \in Fractions
    <3>1. Whole(c.after) \in Fractions
      BY <1>4, WholeFits
    <3> QED
      BY <3>1
  <2>3. DOMAIN before = first /\ DOMAIN after = second
    OBVIOUS
  <2> HIDE DEF before, after, first, second
  <2> QED
    BY <1>5, <2>1, <2>2, <2>3, SumFits
<1>10. base \in Positives /\ base \in Fractions
  <2>1. PICK l, d : l = SumOf(lengths) /\ d = Configuration(in, group).spacing
    OBVIOUS
  <2>2. l \in Fractions /\ d \in Positives
    BY <1>6, <2>1, GroupFits, ConfigurationFacts
  <2>3. Divide(l, d) \in Fractions
    BY <2>2, DivideFits
  <2>4. PICK n \in Nat : Ceil(Divide(l, d)) = Whole(n)
    BY <2>3, CeilFits
  <2>5. base = Add(Whole(n), One)
    BY <2>1, <2>4, Zenon
  <2>6. Whole(n) \in Fractions /\ One \in Positives /\ One \in Fractions
    BY WholeFits DEF One
  <2>7. Add(Whole(n), One) \in Positives
    BY <2>6, AddFits
  <2> QED
    BY <2>5, <2>7, FractionTypes
<1> HIDE DEF base, lengths, extras, manual, before, after
<1>11. Add(base, SumOf(extras)) \in Positives /\ Add(base, SumOf(extras)) \in Fractions
  BY <1>7, <1>10, AddFits
<1>12. Add(SumOf(before), SumOf(after)) \in Fractions
  BY <1>9, AddFits
<1>13. Add(SumOf(manual), Add(SumOf(before), SumOf(after))) \in Fractions
  BY <1>8, <1>12, AddFits
<1> QED
  BY <1>1, <1>11, <1>13, AddFits

LEMMA GroupDemandIsEmitted ==
  ASSUME NEW in, InputAccepted(in), NEW group, NEW p, NEW context, NEW category, NEW quantity,
         NEW status, NEW source,
         Clean(GroupDemand(in, group, p, context, category, quantity, status, source))
  PROVE  LET event == Event(in, <<category, GroupSubject(group), p, source>>, p, category, quantity, status)
         IN /\ GroupDemand(in, group, p, context, category, quantity, status, source) = Emits({event})
            /\ quantity # Zero =>
                 Has(GroupDemand(in, group, p, context, category, quantity, status, source),
                     <<category, GroupSubject(group), p, source>>)
<1>1. PICK event : event = Event(in, <<category, GroupSubject(group), p, source>>, p, category, quantity, status)
  OBVIOUS
<1>2. event.from = <<category, GroupSubject(group), p, source>> /\ event.quantity = quantity
  BY <1>1, EventFits
<1>3. PICK out : out = GroupDemand(in, group, p, context, category, quantity, status, source)
  OBVIOUS
<1>4. PICK subject : subject = GroupSubject(group)
  OBVIOUS
<1>5. out = IfCompatible(in, context, p, subject, event)
  BY <1>1, <1>3, <1>4, Zenon DEF GroupDemand
<1>6. CompatibilityAccepted(in)
  BY DEF InputAccepted
<1>7. IfCompatible(in, context, p, subject, event) = Emits({event})
  <2>1. Clean(IfCompatible(in, context, p, subject, event))
    BY <1>3, <1>5
  <2> QED
    BY <1>6, <2>1, CompatibleIsEmitted
<1>8. quantity # Zero => Has(Emits({event}), <<category, GroupSubject(group), p, source>>)
  BY <1>2, EmitsHas
<1> QED
  BY <1>1, <1>3, <1>5, <1>7, <1>8, Zenon

LEMMA TemplateFacts ==
  ASSUME NEW in, InputAccepted(in), NEW t \in DOMAIN in.templates, NEW c \in in.templates[t].components
  PROVE  c.quantity \in Positives /\ c.mode \in {"fixed", "perSupport", "perLevel", "manual"} /\ c.id # None
<1>1. TemplateFieldsAccepted(in.templates[t])
  BY Zenon DEF InputAccepted, TemplatesAccepted
<1> QED
  BY <1>1, Zenon DEF TemplateFieldsAccepted

LEMMA ComponentIsEmitted ==
  ASSUME NEW in, InputAccepted(in), NEW group \in SupportGroups(in),
         NEW supports \in Positives, NEW t \in DOMAIN in.templates,
         NEW c \in in.templates[t].components, ~Dedicated(Configuration(in, group), c),
         Clean(ComponentDemand(in, group, in.templates[t], c, supports))
  PROVE  Has(ComponentDemand(in, group, in.templates[t], c, supports),
             <<ComponentCategory(c), GroupSubject(group), c.product, c.id>>)
<1> DEFINE template == in.templates[t]
           s == Configuration(in, group)
           subject == <<"templateComponent", c.id>>
           p == c.product
           category == ComponentCategory(c)
           quantities == ComponentQuantities(in, group, c, supports)
           quantity == CHOOSE q \in quantities : TRUE
           status == IF template.review THEN "engineeringReview" ELSE "calculated"
           from == <<category, GroupSubject(group), p, c.id>>
           event == Event(in, from, p, category, quantity, status)
           demand == GroupDemand(in, group, p, category, category, quantity, status, c.id)
           manual == IF c.mode = "manual"
                     THEN {Overridden("MANUAL_QUANTITY_OVERRIDE", subject, c.id)} ELSE {}
           refused == Warns({Warning("TEMPLATE_COMPONENT_MANUAL_VALUE_REQUIRED", subject)})
           marked == [event EXCEPT !.eligible = c.suppress]
           emitted == Out({ [e EXCEPT !.eligible = c.suppress] : e \in demand.events },
                          demand.warnings \cup manual, demand.failures)
           out == ComponentDemand(in, group, template, c, supports)
<1>1. out = IF p \in DOMAIN in.products
            THEN IF c.unit # in.products[p].unit THEN Throws("SEMANTIC_INPUT_INVALID")
                 ELSE IF quantities = {} THEN refused ELSE emitted
            ELSE Throws("INTERNAL_INVARIANT_FAILED")
  BY Zenon DEF ComponentDemand, WithKnown
<1>2. ~Clean(refused)
  <2>1. refused.warnings = {Warning("TEMPLATE_COMPONENT_MANUAL_VALUE_REQUIRED", subject)}
    BY OutParts DEF Warns
  <2>2. Warning("TEMPLATE_COMPONENT_MANUAL_VALUE_REQUIRED", subject)[1] \in Blocking
    BY DEF Warning, Blocking
  <2> HIDE DEF refused
  <2> QED
    BY <2>1, <2>2 DEF Clean
<1>3. \A q \in quantities : q \in Positives
  <2>1. s.levels \in Nat /\ \A v \in s.manualValues : v.quantity \in Positives
    BY GroupFits, ConfigurationFacts
  <2>2. c.quantity \in Positives /\ c.mode \in {"fixed", "perSupport", "perLevel", "manual"}
    BY TemplateFacts
  <2>3. Multiply(c.quantity, supports) \in Positives
    BY <2>2, MultiplyFits, FractionTypes
  <2>4. s.levels # 0 => Multiply(c.quantity, Whole(s.levels)) \in Positives
    BY <2>1, <2>2, WholeFits, MultiplyFits, FractionTypes
  <2>5. \A q \in ManualQuantities(s, c) : q \in Positives
    BY <2>1 DEF ManualQuantities
  <2>6. quantities = CASE c.mode = "fixed" -> {c.quantity}
                       [] c.mode = "perSupport" -> {Multiply(c.quantity, supports)}
                       [] c.mode = "perLevel" ->
                            IF s.levels = 0 THEN {} ELSE {Multiply(c.quantity, Whole(s.levels))}
                       [] c.mode = "manual" -> ManualQuantities(s, c)
    BY Zenon DEF ComponentQuantities
  <2> HIDE DEF quantities, s
  <2> QED
    BY <2>2, <2>3, <2>4, <2>5, <2>6
<1>4. Clean(out)
  OBVIOUS
<1> HIDE DEF out, refused, emitted, quantities
<1>5. quantities # {} /\ out = emitted
  BY <1>1, <1>2, <1>4, NotClean
<1>6. quantity # Zero
  <2>1. quantity \in quantities
    BY <1>5, Zenon
  <2> QED
    BY <1>3, <2>1, FractionTypes
<1> HIDE DEF demand, event, quantity, category, status, from, p
<1>7. /\ emitted.events = { [e EXCEPT !.eligible = c.suppress] : e \in demand.events }
      /\ emitted.warnings = demand.warnings \cup manual
      /\ emitted.failures = demand.failures
  BY OutParts DEF emitted
<1>8. Clean(demand)
  BY <1>4, <1>5, <1>7 DEF Clean
<1>9. demand.events = {event}
  <2>1. demand = Emits({event})
    BY <1>8, GroupDemandIsEmitted DEF demand, event, from
  <2> QED
    BY <2>1, OutParts DEF Emits
<1>10. marked \in out.events
  BY <1>5, <1>7, <1>9
<1>11. marked.from = from /\ marked.quantity = quantity
  BY DEF event, Event
<1> QED
  BY <1>6, <1>10, <1>11 DEF Has, out, from, category, p

LEMMA AnchorIsEmitted ==
  ASSUME NEW in, InputAccepted(in), NEW group \in SupportGroups(in),
         NEW supports \in Positives, NEW t \in DOMAIN in.templates,
         Configuration(in, group).anchor # None,
         Clean(AnchorDemand(in, group, in.templates[t], supports))
  PROVE  Has(AnchorDemand(in, group, in.templates[t], supports),
             <<"anchor", GroupSubject(group), Configuration(in, group).anchor, None>>)
<1> DEFINE template == in.templates[t]
           s == Configuration(in, group)
           p == s.anchor
           rows == { c \in template.components : c.role = "anchor" /\ c.product = p }
           row == CHOOSE c \in rows : TRUE
           perAxis == IF s.anchorOverride = 0 THEN row.quantity ELSE Whole(s.anchorOverride)
           review == in.products[p].review \/ template.review
           Missing(code) == Unresolved(in, {Warning(code, GroupSubject(group))})
           warned == Warns((IF s.anchorOverride = 0 THEN {} ELSE
                              {Overridden("MANUAL_ANCHOR_OVERRIDE", GroupSubject(group), p)})
                           \cup (IF review THEN
                              {Warning("ANCHOR_ENGINEERING_CHECK_REQUIRED", <<"product", p>>)}
                              ELSE {}))
           quantity == Multiply(supports, perAxis)
           status == IF review THEN "engineeringReview" ELSE "calculated"
           demand == GroupDemand(in, group, p, "anchor", "anchor", quantity, status, None)
           noRow == rows = {} \/ row.mode # "perSupport" \/ row.unit # "pcs"
           known == IF p \in DOMAIN in.products
                    THEN IF noRow THEN Missing("ASSEMBLY_TEMPLATE_MISSING") ELSE Both(warned, demand)
                    ELSE Throws("INTERNAL_INVARIANT_FAILED")
           out == AnchorDemand(in, group, template, supports)
<1>1. out = CASE s.substrate = None -> Missing("MISSING_SUBSTRATE_OR_BASE")
              [] s.substrate = "unknown" -> Missing("UNKNOWN_SUBSTRATE")
              [] s.substrate \notin {None, "unknown"} /\ p = None -> Missing("MISSING_ANCHOR_SELECTION")
              [] s.substrate \notin {None, "unknown"} /\ p # None -> known
  BY Zenon DEF AnchorDemand, WithKnown
<1>2. \A code \in Blocking : ~Clean(Missing(code))
  BY CodeBlocks
<1>3. {"MISSING_SUBSTRATE_OR_BASE", "UNKNOWN_SUBSTRATE", "ASSEMBLY_TEMPLATE_MISSING"} \subseteq Blocking
  BY DEF Blocking
<1>4. Clean(out) /\ p # None
  OBVIOUS
<1> HIDE DEF Missing, known, out, p, s, warned, demand, noRow
<1>5. out = known
  BY <1>1, <1>2, <1>3, <1>4 DEF None
<1>6. ~noRow /\ known = Both(warned, demand)
  BY <1>2, <1>3, <1>4, <1>5, NotClean DEF known
<1>7. quantity # Zero
  <2>1. s.anchorOverride \in Nat
    BY GroupFits, ConfigurationFacts DEF s
  <2>2. row \in template.components
    <3>1. rows # {}
      BY <1>6 DEF noRow
    <3>2. row \in rows
      BY <3>1, Zenon
    <3> QED
      BY <3>2
  <2>3. row.quantity \in Positives
    BY <2>2, TemplateFacts
  <2>4. perAxis \in Positives
    <3> HIDE DEF row
    <3> QED
      BY <2>1, <2>3, WholeFits
  <2> HIDE DEF perAxis
  <2> QED
    BY <2>4, MultiplyFits, FractionTypes
<1> HIDE DEF quantity, status
<1>8. Clean(demand) /\ \A from : Has(demand, from) => Has(out, from)
  BY <1>4, <1>5, <1>6, BothClean
<1>9. Has(demand, <<"anchor", GroupSubject(group), p, None>>)
  BY <1>7, <1>8, GroupDemandIsEmitted DEF demand
<1> QED
  BY <1>8, <1>9 DEF out, p, s

LEMMA WstbIsEmitted ==
  ASSUME NEW in, InputAccepted(in), NEW group \in SupportGroups(in),
         NEW supports \in Positives, NEW template,
         Configuration(in, group).wstb # None,
         Clean(WstbDemand(in, group, template, supports))
  PROVE  Has(WstbDemand(in, group, template, supports),
             <<"wstb", GroupSubject(group), Configuration(in, group).wstb, Configuration(in, group).wstbRule>>)
<1> DEFINE s == Configuration(in, group)
           p == s.wstb
           perSupport == CASE s.wstbMode = "one" -> 1 [] s.wstbMode = "two" -> 2
                           [] s.wstbMode = "custom" -> s.wstbQuantity
           conflicts == { c \in template.components :
                            /\ c.role = "wstb"
                            /\ \/ c.product # p \/ c.mode # "perSupport"
                               \/ c.quantity # Whole(perSupport) }
           warned == Warns({Warning("WSTB_PROJECT_RULE_UNCONFIRMED", GroupSubject(group))}
                       \cup { Overridden("MANUAL_QUANTITY_OVERRIDE", GroupSubject(group), m)
                                : m \in {s.wstbMode} \cap {"custom"} }
                       \cup { Warning("WSTB_TEMPLATE_RULE_CONFLICT", <<"templateComponent", c.id>>)
                                : c \in conflicts })
           demand == GroupDemand(in, group, p, "wstb", "wstb", Multiply(supports, Whole(perSupport)),
                                 "projectRule", s.wstbRule)
           out == WstbDemand(in, group, template, supports)
<1>1. out = IF p = None THEN Emits({})
            ELSE IF p \in DOMAIN in.products
            THEN IF s.wstbMode # "custom" /\ in.rules[s.wstbRule].quantity # perSupport
                 THEN Throws("SEMANTIC_INPUT_INVALID")
                 ELSE Both(warned, demand)
            ELSE Throws("INTERNAL_INVARIANT_FAILED")
  BY Zenon DEF WstbDemand, WithKnown
<1>2. perSupport \in Nat \ {0}
  <2>1. s.wstbMode \in {"one", "two"} \/ (s.wstbMode = "custom" /\ s.wstbQuantity \in Nat \ {0})
    BY GroupFits, ConfigurationFacts
  <2> HIDE DEF s
  <2> QED
    BY <2>1
<1>3. Multiply(supports, Whole(perSupport)) # Zero
  <2> HIDE DEF perSupport
  <2> QED
    BY <1>2, WholeFits, MultiplyFits, FractionTypes
<1>4. Clean(out) /\ p # None
  OBVIOUS
<1> HIDE DEF warned, demand, out, p, perSupport
<1>5. out = Both(warned, demand)
  BY <1>1, <1>4, NotClean, Zenon
<1>6. Clean(demand) /\ \A from : Has(demand, from) => Has(out, from)
  BY <1>4, <1>5, BothClean
<1>7. Has(demand, <<"wstb", GroupSubject(group), p, s.wstbRule>>)
  BY <1>3, <1>6, GroupDemandIsEmitted DEF demand
<1> QED
  BY <1>6, <1>7 DEF out, p

LEMMA SupportIsEmitted ==
  ASSUME NEW in, InputAccepted(in), NEW group \in SupportGroups(in),
         Clean(SupportDemand(in, group)), NEW from \in FromGroup(in, group)
  PROVE  Has(SupportDemand(in, group), from)
<1> DEFINE s == Configuration(in, group)
           subject == GroupSubject(group)
           supports == SupportCount(in, group)
           template == in.templates[s.template]
           body == GroupDemand(in, group, s.product, "support", "support", supports, "calculated", None)
           support == IF s.product = None THEN Emits({})
                      ELSE IF s.product \in DOMAIN in.products THEN body
                      ELSE Throws("INTERNAL_INVARIANT_FAILED")
           refused == Unresolved(in, {Warning("ASSEMBLY_TEMPLATE_MISSING", subject)})
           rows == { ComponentDemand(in, group, template, c, supports) : c \in template.components }
           anchor == AnchorDemand(in, group, template, supports)
           wstb == WstbDemand(in, group, template, supports)
           assembly == IF s.template = None THEN refused ELSE All(rows \cup {anchor, wstb})
           outs == {SupportCountOut(in, group), support, assembly}
           out == SupportDemand(in, group)
<1>1. out = All(outs)
  BY Zenon DEF SupportDemand, WithKnown
<1>2. supports \in Positives /\ supports # Zero
  BY SupportCountFits, FractionTypes
<1>3. ~Clean(refused)
  <2>1. "ASSEMBLY_TEMPLATE_MISSING" \in Blocking
    BY DEF Blocking
  <2> QED
    BY <2>1, CodeBlocks
<1>4. s.template # None => s.template \in DOMAIN in.templates
  BY GroupFits, ConfigurationFacts
<1>5. /\ Clean(support) /\ Clean(assembly)
      /\ \A f : Has(support, f) \/ Has(assembly, f) => Has(out, f)
  <2>1. Clean(out)
    OBVIOUS
  <2>2. support \in outs /\ assembly \in outs
    OBVIOUS
  <2> HIDE DEF out, outs, support, assembly
  <2> QED
    BY <1>1, <2>1, <2>2, AllClean
<1> HIDE DEF refused, rows, anchor, wstb, body
<1>6. s.template # None /\ assembly = All(rows \cup {anchor, wstb})
  BY <1>3, <1>5
<1>7. /\ Clean(anchor) /\ Clean(wstb) /\ \A row \in rows : Clean(row)
      /\ \A f : Has(anchor, f) \/ Has(wstb, f) \/ (\E row \in rows : Has(row, f)) => Has(out, f)
  <2>1. anchor \in rows \cup {anchor, wstb} /\ wstb \in rows \cup {anchor, wstb}
    OBVIOUS
  <2>2. \A row \in rows : row \in rows \cup {anchor, wstb}
    OBVIOUS
  <2> HIDE DEF assembly, out, support
  <2> QED
    BY <1>5, <1>6, <2>1, <2>2, AllClean
<1>8. CASE s.product # None /\ from = <<"support", subject, s.product, None>>
  <2>1. support = body
    BY <1>5, <1>8, NotClean
  <2>2. Has(body, from)
    BY <1>2, <1>5, <1>8, <2>1, GroupDemandIsEmitted DEF body
  <2> QED
    BY <1>5, <2>1, <2>2
<1>9. CASE s.anchor # None /\ from = <<"anchor", subject, s.anchor, None>>
  <2>1. Has(anchor, from)
    BY <1>2, <1>4, <1>6, <1>7, <1>9, AnchorIsEmitted DEF anchor
  <2> QED
    BY <1>7, <2>1
<1>10. CASE s.wstb # None /\ from = <<"wstb", subject, s.wstb, s.wstbRule>>
  <2>1. Has(wstb, from)
    BY <1>2, <1>7, <1>10, WstbIsEmitted DEF wstb
  <2> QED
    BY <1>7, <2>1
<1>11. ASSUME NEW c \in template.components, ~Dedicated(s, c),
              from = <<ComponentCategory(c), subject, c.product, c.id>>
       PROVE  Has(out, from)
  <2>1. PICK row : row = ComponentDemand(in, group, template, c, supports)
    OBVIOUS
  <2>2. row \in rows
    BY <2>1 DEF rows
  <2>3. Clean(row)
    BY <1>7, <2>2
  <2>4. Has(row, from)
    BY <1>2, <1>4, <1>6, <1>11, <2>1, <2>3, ComponentIsEmitted
  <2> QED
    BY <1>7, <2>2, <2>4
<1>12. \/ s.product # None /\ from = <<"support", subject, s.product, None>>
       \/ s.anchor # None /\ from = <<"anchor", subject, s.anchor, None>>
       \/ s.wstb # None /\ from = <<"wstb", subject, s.wstb, s.wstbRule>>
       \/ \E c \in template.components :
            ~Dedicated(s, c) /\ from = <<ComponentCategory(c), subject, c.product, c.id>>
  <2> DEFINE selected == { <<"support", s.product>>, <<"anchor", s.anchor>> }
  <2>1. FromGroup(in, group) =
          { <<x[1], subject, x[2], None>> : x \in { y \in selected : y[2] # None } }
          \cup { <<"wstb", subject, p, s.wstbRule>> : p \in {s.wstb} \ {None} }
          \cup { <<ComponentCategory(c), subject, c.product, c.id>> :
                   c \in { d \in template.components : ~Dedicated(s, d) } }
    BY Zenon DEF FromGroup
  <2> HIDE DEF s, subject, template
  <2> QED
    BY <2>1
<1> QED
  BY <1>8, <1>9, <1>10, <1>11, <1>12

-----------------------------------------------------------------------------
(* The stages.                                                             *)

JointDemands(in, emitted) ==
  All({ JointDemand(in, emitted, run) : run \in StraightRuns(in, SegmentsOf(in, emitted)) })
FittingDemands(in) ==
  All({ FittingDemand(in, g) : g \in Fittings(in) } \cup { ConnectionDemand(in, c) : c \in in.connections })
SupportDemands(in, G) == All({ SupportDemand(in, group) : group \in G })
EndpointDemands(in) ==
  All({ EndpointDemand(in, end) : end \in Ends(in) } \cup { AccessoryDemand(in, p) : p \in in.accessories })
ManualDemands(in) == All({ ManualDemand(in, m) : m \in in.manualItems })

Stages == {"parse", "sections", "groups", "joints", "fittings", "supports", "endpoints", "manualItems",
           "suppress", "build", "done"}

\* The run is past these stages: a result that is ready is past all of them.
Past(stages) == result.ready \/ stage \notin stages \cup {"done"}

\* A stage was not refused, and what it demands and warns of is kept.
Kept(out) == out.failures = {} /\ out.events \subseteq events /\ out.warnings \subseteq warnings

Verdict == result.ready => stage = "done" /\ \A w \in warnings : w[1] \notin Blocking
ParsePast == Past({"parse"}) => InputAccepted(input)
SectionsPast ==
  Past({"parse", "sections"}) => Kept(SectionDemands(input)) /\ sections = SectionDemands(input).events
GroupsPast == Past({"parse", "sections", "groups"}) => groups = SupportGroups(input)
JointsPast == Past({"parse", "sections", "groups", "joints"}) => Kept(JointDemands(input, sections))
FittingsPast == Past({"parse", "sections", "groups", "joints", "fittings"}) => Kept(FittingDemands(input))
SupportsPast ==
  Past({"parse", "sections", "groups", "joints", "fittings", "supports"}) => Kept(SupportDemands(input, groups))
EndpointsPast ==
  Past({"parse", "sections", "groups", "joints", "fittings", "supports", "endpoints"}) =>
    Kept(EndpointDemands(input))
ManualItemsPast ==
  Past({"parse", "sections", "groups", "joints", "fittings", "supports", "endpoints", "manualItems"}) =>
    Kept(ManualDemands(input))

\* What every stage has done is still there at the end.
EngineInv ==
  /\ stage \in Stages
  /\ Verdict
  /\ ParsePast /\ SectionsPast /\ GroupsPast /\ JointsPast /\ FittingsPast
  /\ SupportsPast /\ EndpointsPast /\ ManualItemsPast

\* A stage that is refused leaves no result that is ready.
LEMMA RefusedIsNotReady ==
  ASSUME EngineInv, stage # "done", NEW failures, Refuse(failures)
  PROVE  EngineInv'
<1>1. ~result.ready
  BY DEF EngineInv, Verdict
<1>2. stage' = "done" /\ ~result'.ready
  BY <1>1 DEF Refuse
<1> QED
  BY <1>2 DEF EngineInv, Stages, Verdict, Past, ParsePast, SectionsPast, GroupsPast, JointsPast, FittingsPast,
              SupportsPast, EndpointsPast, ManualItemsPast

\* A stage is refused, or adds to what the stages before it did.
LEMMA EmitStep ==
  ASSUME EngineInv, NEW out, NEW next \in Stages \ {"done"}, stage # "done", Emit(out, next)
  PROVE  \/ EngineInv'
         \/ /\ stage' = next /\ Kept(out)'
            /\ UNCHANGED <<input, failure, sections, groups, unsuppressed, result>>
            /\ ~result.ready /\ ~result'.ready
            /\ warnings \subseteq warnings' /\ events \subseteq events'
<1>1. CASE out.failures # {}
  <2>1. Refuse(out.failures)
    BY <1>1 DEF Emit
  <2> QED
    BY <2>1, RefusedIsNotReady
<1>2. CASE out.failures = {}
  <2>1. /\ warnings' = warnings \cup out.warnings
        /\ events' = events \cup out.events
        /\ stage' = next
        /\ UNCHANGED <<input, failure, sections, groups, unsuppressed, result>>
    BY <1>2 DEF Emit
  <2>2. ~result.ready
    BY DEF EngineInv, Verdict
  <2> QED
    BY <1>2, <2>1, <2>2 DEF Kept
<1> QED
  BY <1>1, <1>2

LEMMA StagesKeep ==
  EngineInv /\ [Calculate]_engineVars => EngineInv'
<1> SUFFICES ASSUME EngineInv, [Calculate]_engineVars PROVE EngineInv'
  OBVIOUS
<1> USE DEF Past, ParsePast, SectionsPast, GroupsPast, JointsPast, FittingsPast,
            SupportsPast, EndpointsPast, ManualItemsPast
<1>1. CASE Parse
  <2>1. CASE InputAccepted(input)
    <3>1. PICK out : Emit(out, "sections")
      BY <1>1, <2>1 DEF Parse
    <3>2. stage = "parse" /\ "sections" \in Stages \ {"done"}
      BY <1>1 DEF Parse, Stages
    <3> QED
      BY <2>1, <3>1, <3>2, EmitStep DEF EngineInv, Verdict
  <2>2. CASE ~InputAccepted(input)
    BY <1>1, <2>2, RefusedIsNotReady DEF Parse
  <2> QED
    BY <2>1, <2>2
<1>2. CASE EmitSections
  <2>1. stage = "sections" /\ ~result.ready
    BY <1>2 DEF EmitSections, EngineInv, Verdict
  <2>2. CASE SectionDemands(input).failures # {}
    BY <1>2, <2>1, <2>2, RefusedIsNotReady DEF EmitSections
  <2>3. CASE SectionDemands(input).failures = {}
    <3>1. /\ sections' = SectionDemands(input).events
          /\ events' = SectionDemands(input).events
          /\ warnings' = warnings \cup SectionDemands(input).warnings
          /\ stage' = "groups"
          /\ UNCHANGED <<input, failure, groups, unsuppressed, result>>
      BY <1>2, <2>3 DEF EmitSections
    <3> QED
      BY <2>1, <2>3, <3>1 DEF EngineInv, Verdict, Stages, Kept
  <2> QED
    BY <2>2, <2>3
<1>3. CASE GroupSupports
  <2>1. stage = "groups" /\ ~result.ready
    BY <1>3 DEF GroupSupports, EngineInv, Verdict
  <2>2. CASE Mismatches(input) # {} /\ input.options.mismatch = "fail"
    BY <1>3, <2>1, <2>2, RefusedIsNotReady DEF GroupSupports
  <2>3. CASE ~(Mismatches(input) # {} /\ input.options.mismatch = "fail")
    <3>1. /\ groups' = SupportGroups(input)
          /\ warnings \subseteq warnings'
          /\ stage' = "joints"
          /\ UNCHANGED <<input, failure, sections, events, unsuppressed, result>>
      BY <1>3, <2>3 DEF GroupSupports
    <3> QED
      BY <2>1, <3>1 DEF EngineInv, Verdict, Stages, Kept
  <2> QED
    BY <2>2, <2>3
<1>4. CASE EmitJoints
  <2>1. stage = "joints" /\ "fittings" \in Stages \ {"done"} /\ Emit(JointDemands(input, sections), "fittings")
    BY <1>4 DEF EmitJoints, JointDemands, Stages
  <2> QED
    BY <2>1, EmitStep DEF EngineInv, Verdict, Kept
<1>5. CASE EmitFittings
  <2>1. stage = "fittings" /\ "supports" \in Stages \ {"done"} /\ Emit(FittingDemands(input), "supports")
    BY <1>5 DEF EmitFittings, FittingDemands, Stages
  <2> QED
    BY <2>1, EmitStep DEF EngineInv, Verdict, Kept
<1>6. CASE EmitSupports
  <2>1. stage = "supports" /\ "endpoints" \in Stages \ {"done"} /\ Emit(SupportDemands(input, groups), "endpoints")
    BY <1>6 DEF EmitSupports, SupportDemands, Stages
  <2> QED
    BY <2>1, EmitStep DEF EngineInv, Verdict, Kept
<1>7. CASE EmitEndpoints
  <2>1. stage = "endpoints" /\ "manualItems" \in Stages \ {"done"} /\ Emit(EndpointDemands(input), "manualItems")
    BY <1>7 DEF EmitEndpoints, EndpointDemands, Stages
  <2> QED
    BY <2>1, EmitStep DEF EngineInv, Verdict, Kept
<1>8. CASE EmitManualItems
  <2>1. PICK checks : Emit(Both(ManualDemands(input), Warns(checks)), "suppress")
    BY <1>8, Zenon DEF EmitManualItems, ManualDemands
  <2>2. stage = "manualItems" /\ "suppress" \in Stages \ {"done"}
    BY <1>8 DEF EmitManualItems, Stages
  <2>3. Kept(Both(ManualDemands(input), Warns(checks)))' => Kept(ManualDemands(input))'
    BY OutParts DEF Kept, Both
  <2> QED
    BY <2>1, <2>2, <2>3, EmitStep DEF EngineInv, Verdict, Kept
<1>9. CASE Suppress
  BY <1>9 DEF Suppress, EngineInv, Verdict, Stages, Kept
<1>10. CASE Build
  <2>1. stage = "build" /\ ~result.ready
    BY <1>10 DEF Build, EngineInv, Verdict
  <2>2. \/ \E failures : Refuse(failures)
        \/ \E lines : /\ warnings \subseteq warnings'
                      /\ result' = Summary(lines, { w[1] : w \in warnings' })
                      /\ stage' = "done"
                      /\ UNCHANGED <<input, failure, sections, groups, events, unsuppressed>>
    BY <1>10, Zenon DEF Build
  <2>3. CASE \E failures : Refuse(failures)
    BY <2>1, <2>3, RefusedIsNotReady
  <2>4. ASSUME NEW lines, warnings \subseteq warnings', result' = Summary(lines, { w[1] : w \in warnings' }),
               stage' = "done", UNCHANGED <<input, failure, sections, groups, events, unsuppressed>>
        PROVE  EngineInv'
    <3>1. result'.ready => \A w \in warnings' : w[1] \notin Blocking
      BY <2>4 DEF Summary
    <3> QED
      BY <2>1, <2>4, <3>1 DEF EngineInv, Verdict, Stages, Kept
  <2> QED
    BY <2>2, <2>3, <2>4
<1>11. CASE UNCHANGED engineVars
  BY <1>11 DEF EngineInv, Verdict, Kept, engineVars
<1> QED
  BY <1>1, <1>2, <1>3, <1>4, <1>5, <1>6, <1>7, <1>8, <1>9, <1>10, <1>11 DEF Calculate

\* What a stage was asked for is among the demands of a result that is ready.
LEMMA KeptIsDemanded ==
  ASSUME \A w \in warnings : w[1] \notin Blocking, NEW outs, Kept(All(outs)), NEW out \in outs
  PROVE  /\ Clean(out)
         /\ \A from : Has(out, from) => from \in { e.from : e \in { d \in events : d.quantity # Zero } }
<1>1. Clean(All(outs))
  BY DEF Kept, Clean
<1>2. Clean(out) /\ \A from : Has(out, from) => Has(All(outs), from)
  BY <1>1, AllClean
<1>3. ASSUME NEW from, Has(All(outs), from)
      PROVE  from \in { e.from : e \in { d \in events : d.quantity # Zero } }
  <2>1. PICK e \in All(outs).events : e.from = from /\ e.quantity # Zero
    BY <1>3 DEF Has
  <2>2. e \in { d \in events : d.quantity # Zero }
    BY <2>1 DEF Kept
  <2> QED
    BY <2>1, <2>2
<1> QED
  BY <1>2, <1>3

\* What a result has to account for, part by part.
LEMMA NeededParts ==
  Needed(input) =
    { <<"linearSection", <<"segment", Item(input, g).id>>, input.routes[g[1]].product, None>> : g \in Segments(input) }
    \cup (UNION { FromRun(input, run) : run \in StraightRuns(input, SegmentsOf(input, sections)) })
    \cup { <<"fitting", <<"fitting", Item(input, g).id>>, Item(input, g).product, None>> :
             g \in { h \in Fittings(input) : Item(input, h).product # None } }
    \cup (UNION { FromRule(input, Item(input, g).connectionRule, <<"fitting", Item(input, g).id>>, {}) :
                   g \in Fittings(input) })
    \cup (UNION { FromRule(input, c.rule, <<"connection", c.id>>, { x.product : x \in c.corrections }) :
                   c \in { d \in input.connections : d.type # "logicalContinuation" } })
    \cup { <<"endpointMaterial", <<"endpoint", end.id>>, input.rules[end.rule].product, end.rule>> :
             end \in { e \in Ends(input) : OwnsMaterial(e) } }
    \cup { <<"accessory", input.project, p, None>> : p \in input.accessories }
    \cup (UNION { FromGroup(input, group) : group \in groups })
    \cup { <<"manual", <<"manualInput", m.id>>, m.product, None>> :
             m \in { n \in input.manualItems : n.override = None \/ n.adjusted # Zero } }
BY Zenon DEF Needed

LEMMA NothingIsLeftOut ==
  EngineInv => ReadyLeavesNothingOut
<1> DEFINE Demanded == { e.from : e \in { d \in events : d.quantity # Zero } }
<1> SUFFICES ASSUME EngineInv, result.ready, NEW from \in Needed(input),
                    from[4] \in DOMAIN input.rules => Available(input, from[3])
             PROVE  from \in Demanded
  BY DEF ReadyLeavesNothingOut
<1>1. /\ InputAccepted(input)
      /\ \A w \in warnings : w[1] \notin Blocking
      /\ Kept(SectionDemands(input)) /\ sections = SectionDemands(input).events
      /\ groups = SupportGroups(input)
      /\ Kept(JointDemands(input, sections)) /\ Kept(FittingDemands(input))
      /\ Kept(SupportDemands(input, groups)) /\ Kept(EndpointDemands(input)) /\ Kept(ManualDemands(input))
  BY DEF EngineInv, Verdict, ParsePast, SectionsPast, GroupsPast, JointsPast, FittingsPast,
         SupportsPast, EndpointsPast, ManualItemsPast, Past
<1> HIDE DEF Demanded
<1>2. ASSUME NEW outs, Kept(All(outs)), NEW out \in outs
      PROVE  Clean(out) /\ \A f : Has(out, f) => f \in Demanded
  BY <1>1, <1>2, KeptIsDemanded DEF Demanded
<1>3. ASSUME NEW g \in Segments(input)
      PROVE  \E e : /\ SectionDemand(input, g).events = {e}
                    /\ e.from = <<"linearSection", <<"segment", Item(input, g).id>>, input.routes[g[1]].product, None>>
                    /\ e.quantity # Zero
                    /\ \E n \in Nat \ {0} : e.count = Whole(n)
                    /\ e.from \in Demanded
  <2>1. PICK outs : outs = { SectionDemand(input, h) : h \in Segments(input) }
                      \cup { Throws("SEMANTIC_INPUT_INVALID")
                               : r \in { q \in Routes(input) : input.products[input.routes[q].product].unit = "kg" } }
    OBVIOUS
  <2>2. Kept(All(outs)) /\ SectionDemand(input, g) \in outs
    <3>1. SectionDemands(input) = All(outs)
      BY <2>1, Zenon DEF SectionDemands
    <3> QED
      BY <1>1, <2>1, <3>1
  <2>3. Clean(SectionDemand(input, g)) /\ \A f : Has(SectionDemand(input, g), f) => f \in Demanded
    BY <1>2, <2>2
  <2>4. PICK e : /\ SectionDemand(input, g).events = {e}
                 /\ e.from = <<"linearSection", <<"segment", Item(input, g).id>>, input.routes[g[1]].product, None>>
                 /\ e.quantity # Zero
                 /\ \E n \in Nat \ {0} : e.count = Whole(n)
    BY <1>1, <2>3, SectionIsEmitted
  <2>5. Has(SectionDemand(input, g), e.from)
    BY <2>4 DEF Has
  <2> QED
    BY <2>3, <2>4, <2>5
<1>4. SectionsCounted(sections)
  <2>1. ASSUME NEW e \in sections PROVE \E n \in Nat \ {0} : e.count = Whole(n)
    <3>1. PICK outs : outs = { SectionDemand(input, h) : h \in Segments(input) }
                        \cup { Throws("SEMANTIC_INPUT_INVALID")
                                 : r \in { q \in Routes(input) : input.products[input.routes[q].product].unit = "kg" } }
      OBVIOUS
    <3>2. sections = UNION { o.events : o \in outs }
      <4>1. SectionDemands(input) = All(outs)
        BY <3>1, Zenon DEF SectionDemands
      <4> QED
        BY <1>1, <4>1, OutParts DEF All
    <3>3. Throws("SEMANTIC_INPUT_INVALID").events = {}
      BY OutParts DEF Throws
    <3>4. PICK out \in outs : e \in out.events
      BY <3>2
    <3>5. PICK g \in Segments(input) : out = SectionDemand(input, g)
      BY <3>1, <3>3, <3>4
    <3> QED
      BY <1>3, <3>4, <3>5
  <2> QED
    BY <2>1 DEF SectionsCounted
<1>5. CASE \E g \in Segments(input) :
             from = <<"linearSection", <<"segment", Item(input, g).id>>, input.routes[g[1]].product, None>>
  BY <1>3, <1>5
<1>6. ASSUME NEW run \in StraightRuns(input, SegmentsOf(input, sections)), from \in FromRun(input, run)
      PROVE  from \in Demanded
  <2> DEFINE subject == <<"straightRun", { Item(input, g).id : g \in run }>>
  <2>1. PICK r \in DOMAIN input.rules :
          /\ from = <<"connector", subject, input.rules[r].product, r>>
          /\ input.rules[r].type = "internalJoint"
          /\ input.rules[r].straight = input.routes[(CHOOSE g \in run : TRUE)[1]].product
          /\ \A g \in run : input.rules[r].option \in {None, SectionOf(input, sections, g).option}
          /\ RunSections(input, sections, run) # One
    <3> HIDE DEF subject
    <3> QED
      BY <1>6 DEF FromRun, subject
  <2>2. PICK out : out = JointDemand(input, sections, run)
    OBVIOUS
  <2>3. Clean(out) /\ \A f : Has(out, f) => f \in Demanded
    <3>1. PICK outs : outs = { JointDemand(input, sections, q) : q \in StraightRuns(input, SegmentsOf(input, sections)) }
      OBVIOUS
    <3>2. JointDemands(input, sections) = All(outs) /\ out \in outs
      BY <2>2, <3>1 DEF JointDemands
    <3> QED
      BY <1>1, <1>2, <3>2
  <2>4. Available(input, input.rules[r].product)
    BY <2>1
  <2>5. Has(out, <<"connector", subject, input.rules[r].product, r>>)
    BY <1>1, <1>4, <2>1, <2>2, <2>3, <2>4, JointIsEmitted
  <2> QED
    BY <2>1, <2>3, <2>5
<1>7. ASSUME NEW out \in { FittingDemand(input, g) : g \in Fittings(input) }
                         \cup { ConnectionDemand(input, c) : c \in input.connections }
      PROVE  Clean(out) /\ \A f : Has(out, f) => f \in Demanded
  BY <1>1, <1>2 DEF FittingDemands
<1>8. CASE \E g \in Fittings(input) :
             /\ Item(input, g).product # None
             /\ from = <<"fitting", <<"fitting", Item(input, g).id>>, Item(input, g).product, None>>
  <2>1. PICK g \in Fittings(input) :
          /\ Item(input, g).product # None
          /\ from = <<"fitting", <<"fitting", Item(input, g).id>>, Item(input, g).product, None>>
    BY <1>8
  <2>2. Clean(FittingDemand(input, g)) /\ \A f : Has(FittingDemand(input, g), f) => f \in Demanded
    BY <1>7
  <2> QED
    BY <1>1, <2>1, <2>2, FittingIsEmitted
<1>9. ASSUME NEW g \in Fittings(input),
             from \in FromRule(input, Item(input, g).connectionRule, <<"fitting", Item(input, g).id>>, {})
      PROVE  from \in Demanded
  <2>1. Clean(FittingDemand(input, g)) /\ \A f : Has(FittingDemand(input, g), f) => f \in Demanded
    BY <1>7
  <2>2. PICK r : r = Item(input, g).connectionRule
    OBVIOUS
  <2>3. PICK p \in { c.product : c \in input.rules[r].components } :
          from = <<"connector", <<"fitting", Item(input, g).id>>, p, r>>
    BY <1>9, <2>2 DEF FromRule
  <2>4. r \in DOMAIN input.rules
    BY <1>1, <2>1, <2>2, FittingIsEmitted
  <2>5. Available(input, p)
    BY <2>3, <2>4
  <2> QED
    BY <1>1, <2>1, <2>2, <2>3, <2>5, FittingIsEmitted
<1>10. ASSUME NEW c \in input.connections, c.type # "logicalContinuation",
              from \in FromRule(input, c.rule, <<"connection", c.id>>, { x.product : x \in c.corrections })
       PROVE  from \in Demanded
  <2>1. Clean(ConnectionDemand(input, c)) /\ \A f : Has(ConnectionDemand(input, c), f) => f \in Demanded
    BY <1>7
  <2>2. PICK p \in { k.product : k \in input.rules[c.rule].components } \ { x.product : x \in c.corrections } :
          from = <<"connector", <<"connection", c.id>>, p, c.rule>>
    BY <1>10 DEF FromRule
  <2>3. c.rule \in DOMAIN input.rules
    BY <1>1, <1>10, <2>1, ConnectionIsEmitted
  <2>4. Available(input, p)
    BY <2>2, <2>3
  <2> QED
    BY <1>1, <1>10, <2>1, <2>2, <2>4, ConnectionIsEmitted
<1>11. ASSUME NEW out \in { EndpointDemand(input, end) : end \in Ends(input) }
                          \cup { AccessoryDemand(input, p) : p \in input.accessories }
       PROVE  Clean(out) /\ \A f : Has(out, f) => f \in Demanded
  BY <1>1, <1>2 DEF EndpointDemands
<1>12. ASSUME NEW end \in Ends(input), OwnsMaterial(end),
              from = <<"endpointMaterial", <<"endpoint", end.id>>, input.rules[end.rule].product, end.rule>>
       PROVE  from \in Demanded
  <2>1. Clean(EndpointDemand(input, end)) /\ \A f : Has(EndpointDemand(input, end), f) => f \in Demanded
    BY <1>11
  <2>2. end.rule \in DOMAIN input.rules
    BY <1>1, <1>12, <2>1, EndpointIsEmitted
  <2>3. Available(input, input.rules[end.rule].product)
    BY <1>12, <2>2
  <2> QED
    BY <1>1, <1>12, <2>1, <2>3, EndpointIsEmitted
<1>13. ASSUME NEW p \in input.accessories, from = <<"accessory", input.project, p, None>>
       PROVE  from \in Demanded
  <2>1. Clean(AccessoryDemand(input, p)) /\ \A f : Has(AccessoryDemand(input, p), f) => f \in Demanded
    BY <1>11
  <2> QED
    BY <1>1, <1>13, <2>1, AccessoryIsEmitted
<1>14. ASSUME NEW group \in groups, from \in FromGroup(input, group)
       PROVE  from \in Demanded
  <2>1. Clean(SupportDemand(input, group)) /\ \A f : Has(SupportDemand(input, group), f) => f \in Demanded
    BY <1>1, <1>2 DEF SupportDemands
  <2>2. group \in SupportGroups(input)
    BY <1>1
  <2>3. Has(SupportDemand(input, group), from)
    BY <1>1, <1>14, <2>1, <2>2, SupportIsEmitted
  <2> QED
    BY <2>1, <2>3
<1>15. ASSUME NEW m \in input.manualItems, m.override = None \/ m.adjusted # Zero,
              from = <<"manual", <<"manualInput", m.id>>, m.product, None>>
       PROVE  from \in Demanded
  <2>1. Clean(ManualDemand(input, m)) /\ \A f : Has(ManualDemand(input, m), f) => f \in Demanded
    BY <1>1, <1>2 DEF ManualDemands
  <2> QED
    BY <1>1, <1>15, <2>1, ManualIsEmitted
<1>16. \/ \E g \in Segments(input) :
            from = <<"linearSection", <<"segment", Item(input, g).id>>, input.routes[g[1]].product, None>>
       \/ \E run \in StraightRuns(input, SegmentsOf(input, sections)) : from \in FromRun(input, run)
       \/ \E g \in Fittings(input) :
            /\ Item(input, g).product # None
            /\ from = <<"fitting", <<"fitting", Item(input, g).id>>, Item(input, g).product, None>>
       \/ \E g \in Fittings(input) :
            from \in FromRule(input, Item(input, g).connectionRule, <<"fitting", Item(input, g).id>>, {})
       \/ \E c \in input.connections :
            /\ c.type # "logicalContinuation"
            /\ from \in FromRule(input, c.rule, <<"connection", c.id>>, { x.product : x \in c.corrections })
       \/ \E end \in Ends(input) :
            /\ OwnsMaterial(end)
            /\ from = <<"endpointMaterial", <<"endpoint", end.id>>, input.rules[end.rule].product, end.rule>>
       \/ \E p \in input.accessories : from = <<"accessory", input.project, p, None>>
       \/ \E group \in groups : from \in FromGroup(input, group)
       \/ \E m \in input.manualItems :
            /\ m.override = None \/ m.adjusted # Zero
            /\ from = <<"manual", <<"manualInput", m.id>>, m.product, None>>
  <2> DEFINE straight == { <<"linearSection", <<"segment", Item(input, g).id>>, input.routes[g[1]].product, None>> :
                             g \in Segments(input) }
             joints == UNION { FromRun(input, run) : run \in StraightRuns(input, SegmentsOf(input, sections)) }
             bodies == { <<"fitting", <<"fitting", Item(input, g).id>>, Item(input, g).product, None>> :
                           g \in { h \in Fittings(input) : Item(input, h).product # None } }
             ports == UNION { FromRule(input, Item(input, g).connectionRule, <<"fitting", Item(input, g).id>>, {}) :
                                g \in Fittings(input) }
             connected == UNION { FromRule(input, c.rule, <<"connection", c.id>>, { x.product : x \in c.corrections }) :
                                    c \in { d \in input.connections : d.type # "logicalContinuation" } }
             ended == { <<"endpointMaterial", <<"endpoint", end.id>>, input.rules[end.rule].product, end.rule>> :
                          end \in { e \in Ends(input) : OwnsMaterial(e) } }
             accessories == { <<"accessory", input.project, p, None>> : p \in input.accessories }
             supports == UNION { FromGroup(input, group) : group \in groups }
             manual == { <<"manual", <<"manualInput", m.id>>, m.product, None>> :
                           m \in { n \in input.manualItems : n.override = None \/ n.adjusted # Zero } }
  <2>1. Needed(input) = straight \cup joints \cup bodies \cup ports \cup connected \cup ended
                          \cup accessories \cup supports \cup manual
    BY NeededParts
  <2>2. \/ from \in straight \/ from \in joints \/ from \in bodies \/ from \in ports \/ from \in connected
        \/ from \in ended \/ from \in accessories \/ from \in supports \/ from \in manual
    <3> HIDE DEF straight, joints, bodies, ports, connected, ended, accessories, supports, manual
    <3> QED
      BY <2>1
  <2>3. from \in straight \/ from \in bodies \/ from \in ended \/ from \in accessories \/ from \in manual =>
          \/ \E g \in Segments(input) :
               from = <<"linearSection", <<"segment", Item(input, g).id>>, input.routes[g[1]].product, None>>
          \/ \E g \in Fittings(input) :
               /\ Item(input, g).product # None
               /\ from = <<"fitting", <<"fitting", Item(input, g).id>>, Item(input, g).product, None>>
          \/ \E end \in Ends(input) :
               /\ OwnsMaterial(end)
               /\ from = <<"endpointMaterial", <<"endpoint", end.id>>, input.rules[end.rule].product, end.rule>>
          \/ \E p \in input.accessories : from = <<"accessory", input.project, p, None>>
          \/ \E m \in input.manualItems :
               /\ m.override = None \/ m.adjusted # Zero
               /\ from = <<"manual", <<"manualInput", m.id>>, m.product, None>>
    OBVIOUS
  <2>4. from \in joints => \E run \in StraightRuns(input, SegmentsOf(input, sections)) : from \in FromRun(input, run)
    OBVIOUS
  <2>5. from \in ports => \E g \in Fittings(input) :
          from \in FromRule(input, Item(input, g).connectionRule, <<"fitting", Item(input, g).id>>, {})
    OBVIOUS
  <2>6. from \in connected => \E c \in input.connections :
          /\ c.type # "logicalContinuation"
          /\ from \in FromRule(input, c.rule, <<"connection", c.id>>, { x.product : x \in c.corrections })
    OBVIOUS
  <2>7. from \in supports => \E group \in groups : from \in FromGroup(input, group)
    OBVIOUS
  <2> HIDE DEF straight, joints, bodies, ports, connected, ended, accessories, supports, manual
  <2> QED
    BY <2>2, <2>3, <2>4, <2>5, <2>6, <2>7, Zenon
<1> QED
  BY <1>5, <1>6, <1>8, <1>9, <1>10, <1>12, <1>13, <1>14, <1>15, <1>16

LEMMA EngineInvariance ==
  EngineSpec => []EngineInv
<1>1. EngineInit => EngineInv
  <2>1. EngineInit => stage = "parse" /\ ~result.ready
    BY DEF EngineInit, NothingComputed, NoResult
  <2> QED
    BY <2>1 DEF EngineInv, Stages, Verdict, Past, ParsePast, SectionsPast, GroupsPast, JointsPast,
                FittingsPast, SupportsPast, EndpointsPast, ManualItemsPast
<1>2. EngineInv /\ [Calculate]_engineVars => EngineInv'
  BY StagesKeep
<1> QED
  BY <1>1, <1>2, PTL DEF EngineSpec

\* A result that is ready for approval has a demand for everything its input asks for,
\* whatever the input (result-builder.ts and the rules of calculateV2).
THEOREM ReadyIsComplete ==
  EngineSpec => []ReadyLeavesNothingOut
BY EngineInvariance, NothingIsLeftOut, PTL

-----------------------------------------------------------------------------
(* The quantities of a line.                                               *)

\* The reserve and the packaging of a demand are of the input and its policies.
Ruled(in, d) ==
  /\ d.product = None \/ d.product \in Products(in)
  /\ ReserveAccepted(d.reserve) /\ PackagingAccepted(d.packaging)

\* A demand in sections counts them.
Measured(d) ==
  /\ d.quantity \in Fractions /\ d.count \in Fractions
  /\ \/ d.length = Zero
     \/ d.length \in Positives /\ d.quantity = IF d.unit = "m" THEN Multiply(d.count, d.length) ELSE d.count

LEMMA ReserveFits ==
  ASSUME NEW in, InputAccepted(in), NEW d, Ruled(in, d)
  PROVE  /\ ReservePercent(in, d) \in 0..100
         /\ Fraction(100 + ReservePercent(in, d), 100) \in Fractions
<1>1. in.reserve \in 0..100
  BY DEF InputAccepted
<1>2. ReservePercent(in, d) \in 0..100
  BY <1>1 DEF Ruled, ReserveAccepted, ReservePercent
<1> QED
  BY <1>2, FractionRatio

LEMMA IncrementFits ==
  ASSUME NEW in, InputAccepted(in), NEW d, Ruled(in, d)
  PROVE  Increment(in, d) \in Fractions
<1>1. CASE Packaged(in, d) /\ d.packaging[1] = "incrementOverride"
  BY <1>1 DEF Increment, Ruled, PackagingAccepted, Positives
<1>2. CASE ~(Packaged(in, d) /\ d.packaging[1] = "incrementOverride") /\ d.product = None
  BY <1>2, WholeFits DEF Increment, One
<1>3. CASE ~(Packaged(in, d) /\ d.packaging[1] = "incrementOverride") /\ d.product # None
  <2>1. d.product \in Products(in)
    BY <1>3 DEF Ruled
  <2>2. ProductAccepted(in, d.product)
    <3>1. ProductsAccepted(in)
      BY DEF InputAccepted
    <3>2. \A p \in Products(in) : ProductAccepted(in, p)
      BY <3>1, Zenon DEF ProductsAccepted, Collection
    <3> QED
      BY <2>1, <3>2
  <2>3. in.products[d.product].package \in Fractions
    BY <2>2, Zenon DEF ProductAccepted
  <2> QED
    BY <1>3, <2>3 DEF Increment
<1> QED
  BY <1>1, <1>2, <1>3

\* What is reserved covers the quantity and its reserve, in whole sections and pieces.
LEMMA ReservedCovers ==
  ASSUME NEW in, InputAccepted(in), NEW d, Ruled(in, d), Measured(d)
  PROVE  LET wanted == WithReserve(in, d, d.quantity)
         IN /\ wanted \in Fractions /\ Reserved(in, d) \in Fractions /\ Deliverable(d) \in Fractions
            /\ Leq(wanted, Reserved(in, d))
            /\ Reserved(in, d) = wanted \/ ~Leq(Add(wanted, Deliverable(d)), Reserved(in, d))
<1>1. PICK r \in Fractions : r = Fraction(100 + ReservePercent(in, d), 100)
  BY ReserveFits
<1>2. PICK q \in Fractions, c \in Fractions : q = d.quantity /\ c = d.count
  BY DEF Measured
<1>3. PICK w \in Fractions : w = Multiply(q, r)
  BY MultiplyFits
<1>4. \A x : WithReserve(in, d, x) = Multiply(x, r)
  BY <1>1 DEF WithReserve
<1>5. Zero \in Fractions /\ One \in Fractions
  BY WholeFits DEF Zero, One
<1>6. Leq(w, Ceil(w)) /\ ~Leq(Add(w, One), Ceil(w)) /\ Ceil(w) \in Fractions
  BY CeilIsLeast, WholeFits
<1>7. CASE d.length # Zero /\ d.unit = "m"
  <2>1. PICK n \in Positives : n = d.length /\ q = Multiply(c, n)
    BY <1>2, <1>7 DEF Measured
  <2>2. n \in Fractions
    BY DEF Positives
  <2>3. w = Multiply(Multiply(c, r), n)
    <3>1. Multiply(Multiply(c, n), r) = Multiply(c, Multiply(n, r)) /\ Multiply(n, r) = Multiply(r, n)
      BY <2>2, MultiplyLaws
    <3>2. Multiply(Multiply(c, r), n) = Multiply(c, Multiply(r, n))
      BY <2>2, MultiplyLaws
    <3> QED
      BY <1>3, <2>1, <3>1, <3>2
  <2>4. Divide(w, n) = Multiply(c, r)
    <3>1. Multiply(c, r) \in Fractions
      BY MultiplyFits
    <3> QED
      BY <2>3, <3>1, QuotientLaws
  <2>5. Reserved(in, d) = Multiply(Ceil(Divide(w, n)), n)
    BY <1>2, <1>4, <1>7, <2>1, <2>4 DEF Reserved
  <2>6. Deliverable(d) = n
    BY <1>7, <2>1 DEF Deliverable
  <2> QED
    BY <1>2, <1>3, <1>4, <2>2, <2>5, <2>6, RoundUp
<1>8. CASE d.length # Zero /\ d.unit # "m"
  <2>1. c = q
    BY <1>2, <1>8 DEF Measured
  <2>2. Reserved(in, d) = Ceil(w) /\ Deliverable(d) = One
    BY <1>2, <1>3, <1>4, <1>8, <2>1 DEF Reserved, Deliverable
  <2> QED
    BY <1>2, <1>3, <1>4, <1>5, <1>6, <2>2
<1>9. CASE d.length = Zero /\ d.unit = "pcs"
  <2>2. Reserved(in, d) = Ceil(w) /\ Deliverable(d) = One
    BY <1>2, <1>3, <1>4, <1>9 DEF Reserved, Deliverable
  <2> QED
    BY <1>2, <1>3, <1>4, <1>5, <1>6, <2>2
<1>10. CASE d.length = Zero /\ d.unit # "pcs"
  <2>1. Reserved(in, d) = w /\ Deliverable(d) = Zero
    BY <1>2, <1>3, <1>4, <1>10 DEF Reserved, Deliverable
  <2>2. Leq(w, w)
    BY OrderLaws
  <2> QED
    BY <1>2, <1>3, <1>4, <1>5, <2>1, <2>2
<1> QED
  BY <1>7, <1>8, <1>9, <1>10

\* What is ordered of a line that is not refused.
OrderedIsEnough(in, d) ==
  LET wanted == WithReserve(in, d, d.quantity)
      step == IF Packaged(in, d) THEN Increment(in, d) ELSE Zero
  IN /\ Leq(wanted, Ordered(in, d))
     /\ step # Zero => IsInteger(Divide(Ordered(in, d), step))
     /\ Ordered(in, d) = wanted \/ ~Leq(Add(wanted, Add(step, Deliverable(d))), Ordered(in, d))

LEMMA OrderedCovers ==
  ASSUME NEW in, InputAccepted(in), NEW d, Ruled(in, d), Measured(d), FinalizeFailures(in, d) = {}
  PROVE  OrderedIsEnough(in, d)
<1>1. PICK w \in Fractions, r \in Fractions, v \in Fractions :
        /\ w = WithReserve(in, d, d.quantity) /\ r = Reserved(in, d) /\ v = Deliverable(d)
        /\ Leq(w, r) /\ (r = w \/ ~Leq(Add(w, v), r))
  BY ReservedCovers
<1>2. CASE Packaged(in, d)
  <2>1. PICK i \in Positives : i = Increment(in, d)
    <3>1. Increment(in, d) # Zero
      BY DEF FinalizeFailures
    <3> QED
      BY <3>1, IncrementFits, NotZero
  <2>2. i \in Fractions /\ i # Zero
    <3>1. Zero.num = 0
      BY WholeFits DEF Zero
    <3> QED
      BY <3>1 DEF Positives
  <2>3. PICK o \in Fractions : o = Multiply(Ceil(Divide(r, i)), i)
    BY RoundUp
  <2>4. Leq(r, o) /\ ~Leq(Add(r, i), o) /\ IsInteger(Divide(o, i))
    BY <2>3, RoundUp
  <2>5. Ordered(in, d) = o
    BY <1>1, <1>2, <2>1, <2>3 DEF Ordered
  <2>6. Leq(w, o)
    BY <1>1, <2>4, OrderLaws
  <2>7. PICK s \in Fractions : s = Add(w, v) /\ Leq(r, s)
    <3>1. Add(w, v) \in Fractions
      BY AddFits
    <3>2. Leq(w, Add(w, v))
      BY AddsUp
    <3> QED
      BY <1>1, <3>1, <3>2, OrderLaws
  <2>8. PICK t \in Fractions, u \in Fractions : t = Add(r, i) /\ u = Add(s, i) /\ Leq(t, u)
    BY <2>2, <2>7, AddFits, OrderLaws
  <2>9. ~Leq(u, o)
    BY <2>4, <2>8, OrderLaws
  <2>10. u = Add(w, Add(i, v))
    <3>1. Add(Add(w, v), i) = Add(w, Add(v, i)) /\ Add(v, i) = Add(i, v)
      BY <2>2, AddLaws
    <3> QED
      BY <2>7, <2>8, <3>1
  <2> QED
    BY <1>1, <1>2, <2>1, <2>4, <2>5, <2>6, <2>9, <2>10 DEF OrderedIsEnough
<1>3. CASE ~Packaged(in, d)
  <2>1. Ordered(in, d) = r
    BY <1>1, <1>3 DEF Ordered
  <2>2. Add(Zero, v) = v
    BY AddLaws
  <2> QED
    BY <1>1, <1>3, <2>1, <2>2 DEF OrderedIsEnough
<1> QED
  BY <1>2, <1>3

\* A demand event or an aggregated demand, as the rules make them.
Fields == { "from", "product", "manual", "category", "quantity", "unit", "option", "length", "count",
            "reserve", "packaging", "boundary", "status", "eligible", "traced" }
StockLengths == { Zero, Fraction(3000, 1000), Fraction(6000, 1000) }
Sound(in, e) ==
  /\ DOMAIN e = Fields
  /\ Ruled(in, e) /\ Measured(e) /\ e.traced = e.quantity
  /\ e.length \in StockLengths /\ (e.length # Zero => ~e.eligible)

LEMMA LengthsFit ==
  /\ StockLengths \subseteq Fractions
  /\ \A n \in StockLengths : n # Zero =>
       /\ n \in Positives
       /\ IsRatio(n, 3000, 1000) \/ IsRatio(n, 6000, 1000)
<1>1. /\ Fraction(3000, 1000) \in Fractions /\ IsRatio(Fraction(3000, 1000), 3000, 1000)
      /\ Fraction(6000, 1000) \in Fractions /\ IsRatio(Fraction(6000, 1000), 6000, 1000)
  BY FractionRatio
<1>2. Zero \in Fractions
  BY WholeFits DEF Zero
<1> QED
  BY <1>1, <1>2, NotZero DEF StockLengths

\* A quantity of whole lengths is more than twice as many pieces.
LEMMA LengthsAreLong ==
  ASSUME NEW n \in Nat \ {0}, NEW v \in StockLengths, v # Zero, NEW r \in 0..100
  PROVE  ~Leq(Multiply(Whole(n), v), Ceil(Multiply(Whole(n), Fraction(100 + r, 100))))
<1>1. Whole(n) \in Fractions /\ IsRatio(Whole(n), n, 1)
  BY WholeRatio
<1>2. PICK m \in Nat : m = 2 * n /\ Whole(m) \in Fractions /\ IsRatio(Whole(m), m, 1)
  <2>1. 2 * n \in Nat
    OBVIOUS
  <2> QED
    BY <2>1, WholeRatio
<1>3. PICK x \in Fractions : x = Fraction(100 + r, 100) /\ IsRatio(x, 100 + r, 100)
  BY FractionRatio
<1>4. PICK y \in Fractions : y = Multiply(Whole(n), x) /\ IsRatio(y, n * (100 + r), 1 * 100)
  <2>1. PICK h \in Nat : h = 100 + r
    OBVIOUS
  <2>2. IsRatio(x, h, 100)
    BY <1>3, <2>1
  <2>3. Multiply(Whole(n), x) \in Fractions /\ IsRatio(Multiply(Whole(n), x), n * h, 1 * 100)
    BY <1>1, <1>3, <2>2, MultiplyFits, ProductRatio
  <2> QED
    BY <2>1, <2>3
<1>5. Leq(y, Whole(m))
  <2>1. n * (100 + r) \in Nat
    OBVIOUS
  <2>2. Leq(y, Whole(m)) <=> (n * (100 + r)) * 1 <= m * (1 * 100)
    BY <1>2, <1>4, <2>1, OrderOfRatios
  <2>3. n * (100 + r) <= n * 200
    BY TimesKeepsOrder
  <2> QED
    BY <1>2, <2>1, <2>2, <2>3
<1>6. Leq(Ceil(y), Whole(m)) /\ Ceil(y) \in Fractions
  BY <1>5, CeilIsLeast, WholeFits
<1>7. PICK k \in Nat : k \in {3000, 6000} /\ v \in Fractions /\ IsRatio(v, k, 1000)
  BY LengthsFit
<1>8. PICK z \in Fractions : z = Multiply(Whole(n), v) /\ IsRatio(z, n * k, 1 * 1000)
  BY <1>1, <1>7, MultiplyFits, ProductRatio
<1>9. ~Leq(z, Whole(m))
  <2>1. n * k \in Nat
    OBVIOUS
  <2>2. Leq(z, Whole(m)) <=> (n * k) * 1 <= m * (1 * 1000)
    BY <1>2, <1>8, <2>1, OrderOfRatios
  <2>3. CASE k = 3000
    BY <1>2, <2>2, <2>3
  <2>4. CASE k = 6000
    BY <1>2, <2>2, <2>4
  <2> QED
    BY <1>7, <2>3, <2>4
<1>10. ~Leq(z, Ceil(y))
  BY <1>2, <1>6, <1>9, OrderLaws
<1> QED
  BY <1>3, <1>4, <1>8, <1>10

-----------------------------------------------------------------------------
(* Adjustments.                                                            *)

LEMMA AdjustmentFacts ==
  ASSUME NEW in, InputAccepted(in), NEW demands, IsFiniteSet(demands),
         AdjustmentFailures(in, demands) = {}, NEW d \in demands,
         NEW a \in in.adjustments, a.product = d.product
  PROVE  /\ a.adjusted \in Positives /\ a.unit = d.unit
         /\ d.length = Zero \/ IsInteger(Divide(a.adjusted, d.length))
<1>1. a.adjusted \in Positives
  <2>1. AdjustmentsAccepted(in)
    BY DEF InputAccepted
  <2>2. \A b \in in.adjustments : b.adjusted \in Positives
    BY <2>1, Zenon DEF AdjustmentsAccepted, Collection
  <2> QED
    BY <2>2
<1>2. PICK own : own = Of(demands, a.product)
  OBVIOUS
<1>3. own \subseteq demands /\ d \in own
  BY <1>2 DEF Of
<1> DEFINE Failure(b) ==
             IF Cardinality(Of(demands, b.product)) # 1 THEN {"AMBIGUOUS_LINE_POLICY"}
             ELSE LET e == CHOOSE e \in Of(demands, b.product) : TRUE
                  IN IF b.unit = e.unit /\ b.original = e.quantity
                        /\ (e.length = Zero \/ IsInteger(Divide(b.adjusted, e.length)))
                     THEN {} ELSE {"SEMANTIC_INPUT_INVALID"}
<1>4. Failure(a) = {}
  <2>1. PICK others : AdjustmentFailures(in, demands) = (UNION { Failure(b) : b \in in.adjustments }) \cup others
    BY Zenon DEF AdjustmentFailures
  <2> HIDE DEF Failure
  <2> QED
    BY <2>1
<1>5. PICK x : own = {x}
  <2>1. Cardinality(own) = 1
    BY <1>2, <1>4
  <2> QED
    BY <1>3, <2>1, FS_Subset, FS_Singleton
<1>6. (CHOOSE e \in own : TRUE) = d
  BY <1>3, <1>5
<1>7. a.unit = d.unit /\ (d.length = Zero \/ IsInteger(Divide(a.adjusted, d.length)))
  BY <1>2, <1>4, <1>5, <1>6
<1> QED
  BY <1>1, <1>7

LEMMA AdjustedFields ==
  ASSUME NEW in, NEW d, DOMAIN d = Fields
  PROVE  LET x == Adjusted(in, d)
         IN /\ x.product = d.product /\ x.manual = d.manual /\ x.unit = d.unit /\ x.length = d.length
            /\ x.reserve = d.reserve /\ x.packaging = d.packaging /\ x.from = d.from
            /\ (\A a \in in.adjustments : a.product # d.product) => x = d
            /\ \A b \in in.adjustments : b.product = d.product =>
                 \E a \in in.adjustments :
                   /\ a.product = d.product
                   /\ x.quantity = a.adjusted /\ x.traced = a.adjusted
                   /\ x.count = IF d.length = Zero THEN d.count ELSE Divide(a.adjusted, d.length)
<1>1. PICK own : own = { a \in in.adjustments : a.product = d.product }
  OBVIOUS
<1>2. PICK a : a = CHOOSE k \in own : TRUE
  OBVIOUS
<1>3. Adjusted(in, d) =
        IF own = {} THEN d
        ELSE [d EXCEPT !.quantity = a.adjusted, !.traced = a.adjusted, !.status = "manual",
                       !.count = IF d.length = Zero THEN @ ELSE Divide(a.adjusted, d.length)]
  BY <1>1, <1>2, Zenon DEF Adjusted
<1>4. CASE own = {}
  BY <1>1, <1>3, <1>4
<1>5. CASE own # {}
  <2>1. a \in own
    BY <1>2, <1>5
  <2> QED
    BY <1>1, <1>3, <1>5, <2>1 DEF Fields
<1> QED
  BY <1>4, <1>5

\* A demand that somebody has adjusted is sound, or its line is refused.
LEMMA AdjustedFits ==
  ASSUME NEW in, InputAccepted(in), NEW demands, IsFiniteSet(demands),
         AdjustmentFailures(in, demands) = {}, NEW d \in demands, Sound(in, d),
         FinalizeFailures(in, Adjusted(in, d)) = {}
  PROVE  LET x == Adjusted(in, d)
         IN Ruled(in, x) /\ Measured(x) /\ x.traced = x.quantity
<1>1. PICK x : x = Adjusted(in, d)
  OBVIOUS
<1>2. DOMAIN d = Fields
  BY DEF Sound
<1>3. /\ x.product = d.product /\ x.unit = d.unit /\ x.length = d.length
      /\ x.reserve = d.reserve /\ x.packaging = d.packaging
  BY <1>1, <1>2, AdjustedFields
<1>4. Ruled(in, x)
  BY <1>3 DEF Sound, Ruled
<1>5. CASE \A a \in in.adjustments : a.product # d.product
  <2>1. x = d
    BY <1>1, <1>2, <1>5, AdjustedFields
  <2> QED
    BY <1>1, <1>4, <2>1 DEF Sound
<1>6. CASE \E a \in in.adjustments : a.product = d.product
  <2>1. PICK a \in in.adjustments :
          /\ a.product = d.product
          /\ x.quantity = a.adjusted /\ x.traced = a.adjusted
          /\ x.count = IF d.length = Zero THEN d.count ELSE Divide(a.adjusted, d.length)
    BY <1>1, <1>2, <1>6, AdjustedFields
  <2>2. PICK q \in Positives : q = a.adjusted
    BY <2>1, AdjustmentFacts
  <2>3. q \in Fractions
    BY DEF Positives
  <2>4. CASE d.length = Zero
    <3>1. d.count \in Fractions
      BY DEF Sound, Measured
    <3> QED
      BY <1>1, <1>3, <1>4, <2>1, <2>2, <2>3, <2>4, <3>1 DEF Measured
  <2>5. CASE d.length # Zero
    <3>1. PICK n \in StockLengths : n = d.length /\ n # Zero
      BY <2>5 DEF Sound
    <3>2. n \in Positives
      BY <3>1, LengthsFit
    <3>3. PICK c \in Fractions : c = Divide(q, n) /\ Multiply(c, n) = q
      BY <2>3, <3>2, QuotientLaws
    <3>4. x.quantity = q /\ x.count = c /\ x.length = n
      BY <1>3, <2>1, <2>2, <2>5, <3>1, <3>3
    <3>5. CASE d.unit = "m"
      BY <1>1, <1>3, <1>4, <2>1, <2>2, <2>3, <3>2, <3>3, <3>4, <3>5 DEF Measured
    <3>6. CASE d.unit # "m"
      <4>1. IsInteger(c)
        BY <2>1, <2>2, <2>5, <3>1, <3>3, AdjustmentFacts
      <4>2. PICK k \in Nat : c = Whole(k)
        BY <4>1, FractionTypes DEF IsInteger, Whole
      <4>3. k # 0
        <5>1. ASSUME k = 0 PROVE FALSE
          <6>1. c = Zero
            BY <4>2, <5>1 DEF Zero
          <6>2. n \in Fractions
            BY <3>2 DEF Positives
          <6>3. q = Zero
            BY <3>3, <6>1, <6>2, MultiplyDistributes
          <6>4. Zero.num = 0
            BY WholeFits DEF Zero
          <6> QED
            BY <6>3, <6>4 DEF Positives
        <5> QED
          BY <5>1
      <4>4. PICK r \in 0..100 : r = ReservePercent(in, x)
        BY <1>4, ReserveFits
      <4>5. Reserved(in, x) = Ceil(Multiply(Whole(k), Fraction(100 + r, 100)))
        BY <1>3, <3>1, <3>4, <3>6, <4>2, <4>4 DEF Reserved, WithReserve
      <4>6. ~Leq(x.quantity, Reserved(in, x))
        BY <3>1, <3>3, <3>4, <4>2, <4>3, <4>5, LengthsAreLong
      <4> QED
        BY <1>1, <4>6 DEF FinalizeFailures
    <3> QED
      BY <3>5, <3>6
  <2> QED
    BY <2>4, <2>5
<1> QED
  BY <1>5, <1>6

-----------------------------------------------------------------------------
(* Aggregation.                                                            *)

LEMMA SumScales ==
  ASSUME NEW f, IsFiniteSet(DOMAIN f), \A x \in DOMAIN f : f[x] \in Fractions,
         NEW z \in Fractions,
         NEW g, DOMAIN g = DOMAIN f, \A x \in DOMAIN f : g[x] = Multiply(f[x], z)
  PROVE  SumOf(g) = Multiply(SumOf(f), z)
<1> DEFINE D == DOMAIN f
           Good == { s \in SUBSET D : SumOf(Restrict(g, s)) = Multiply(SumOf(Restrict(f, s)), z) }
<1>1. \A x \in DOMAIN g : g[x] \in Fractions
  BY MultiplyFits
<1>2. {} \in Good
  <2>1. SumOf(Restrict(f, {})) = Zero /\ SumOf(Restrict(g, {})) = Zero
    BY <1>1, SumsOfParts
  <2>2. Zero \in Fractions
    BY ZeroRatio
  <2>3. Multiply(Zero, z) = Zero
    BY <2>2, MultiplyDistributes
  <2> QED
    BY <2>1, <2>3
<1>3. ASSUME NEW s \in SUBSET D, s # {}, s \ {CHOOSE x \in s : TRUE} \in Good
      PROVE  s \in Good
  <2>1. PICK x, r : x = (CHOOSE t \in s : TRUE) /\ r = s \ {CHOOSE t \in s : TRUE}
    OBVIOUS
  <2>2. x \in s
    BY <1>3, <2>1, Zenon
  <2>3. SumOf(Restrict(f, s)) = Add(f[x], SumOf(Restrict(f, r)))
    BY <1>3, <2>1, SumsOfParts
  <2>4. SumOf(Restrict(g, s)) = Add(g[x], SumOf(Restrict(g, r)))
    BY <1>1, <1>3, <2>1, SumsOfParts
  <2>5. SumOf(Restrict(g, r)) = Multiply(SumOf(Restrict(f, r)), z)
    BY <1>3, <2>1
  <2>6. PICK a \in Fractions, b \in Fractions : a = f[x] /\ b = SumOf(Restrict(f, r))
    <3>1. r \in SUBSET D
      BY <2>1
    <3> QED
      BY <2>2, <3>1, SumsOfParts
  <2>7. Multiply(Add(a, b), z) = Add(Multiply(a, z), Multiply(b, z))
    BY MultiplyDistributes
  <2>8. g[x] = Multiply(a, z)
    BY <2>2, <2>6
  <2> QED
    BY <2>3, <2>4, <2>5, <2>6, <2>7, <2>8
<1>4. D \in Good
  <2>1. IsFiniteSet(D)
    OBVIOUS
  <2> HIDE DEF Good, D
  <2> QED
    BY <1>2, <1>3, <2>1, TakingAway
<1>5. SumOf(Restrict(f, DOMAIN f)) = SumOf(f) /\ SumOf(Restrict(g, DOMAIN g)) = SumOf(g)
  BY <1>1, SumOfWhole
<1> QED
  BY <1>4, <1>5

\* The demanded events that one line adds up.
Class(S, k) == { e \in S : e.quantity # Zero /\ Key(e) = k }

LEMMA DemandsAreClasses ==
  ASSUME NEW S
  PROVE  Demands(S) = { Aggregate(Class(S, Key(e))) : e \in { d \in S : d.quantity # Zero } }
<1> DEFINE demanded == { e \in S : e.quantity # Zero }
<1>1. Demands(S) = { Aggregate({ e \in demanded : Key(e) = k }) : k \in { Key(e) : e \in demanded } }
  BY Zenon DEF Demands
<1>2. \A k : { e \in demanded : Key(e) = k } = Class(S, k)
  BY DEF Class
<1> QED
  BY <1>1, <1>2

LEMMA SameKeys ==
  ASSUME NEW d, NEW e, Key(d) = Key(e)
  PROVE  /\ d.product = e.product /\ d.manual = e.manual /\ d.unit = e.unit
         /\ d.reserve = e.reserve /\ d.packaging = e.packaging
BY DEF Key

\* Demand that is added up is sound, and counted once.
LEMMA AggregateFits ==
  ASSUME NEW in, InputAccepted(in), NEW S, IsFiniteSet(S), \A e \in S : Sound(in, e),
         AggregateFailures(S) = {}, NEW x \in S, x.quantity # Zero
  PROVE  LET d == Aggregate(Class(S, Key(x)))
         IN /\ Sound(in, d)
            /\ d.from = <<"line", Key(x)>> /\ d.product = x.product /\ d.manual = x.manual
            /\ d.quantity = SumOf([e \in Class(S, Key(x)) |-> e.quantity])
<1>1. PICK C : C = Class(S, Key(x))
  OBVIOUS
<1>2. x \in C /\ C \subseteq S /\ \A e \in C : Key(e) = Key(x)
  BY <1>1 DEF Class
<1>3. PICK h : h = CHOOSE e \in C : TRUE
  OBVIOUS
<1>4. h \in C
  BY <1>2, <1>3, Zenon
<1>5. PICK q, t, n : /\ q = [e \in C |-> e.quantity]
                     /\ t = [e \in C |-> e.traced]
                     /\ n = [e \in C |-> e.count]
  OBVIOUS
<1>6. PICK d : d = Aggregate(C)
  OBVIOUS
<1>7. d = [h EXCEPT !.from = <<"line", Key(h)>>, !.quantity = SumOf(q), !.traced = SumOf(t), !.count = SumOf(n)]
  BY <1>3, <1>5, <1>6 DEF Aggregate, SumOver
<1>8. IsFiniteSet(C)
  BY <1>2, FS_Subset
<1>9. /\ DOMAIN q = C /\ DOMAIN t = C /\ DOMAIN n = C
      /\ \A e \in C : /\ q[e] = e.quantity /\ t[e] = e.traced /\ n[e] = e.count
                      /\ q[e] \in Fractions /\ n[e] \in Fractions /\ t[e] = q[e]
  BY <1>2, <1>5 DEF Sound, Measured
<1>10. q = t
  BY <1>2, <1>5 DEF Sound
<1>11. SumOf(q) \in Fractions /\ SumOf(n) \in Fractions
  BY <1>8, <1>9, SumFits
<1>12. DOMAIN h = Fields
  BY <1>2, <1>4 DEF Sound
<1>13. /\ DOMAIN d = Fields /\ d.from = <<"line", Key(h)>>
       /\ d.quantity = SumOf(q) /\ d.traced = SumOf(q) /\ d.count = SumOf(n)
       /\ d.product = h.product /\ d.manual = h.manual /\ d.unit = h.unit /\ d.length = h.length
       /\ d.reserve = h.reserve /\ d.packaging = h.packaging /\ d.eligible = h.eligible
  BY <1>7, <1>10, <1>12 DEF Fields
<1>14. Key(h) = Key(x)
  BY <1>2, <1>4
<1>15. d.product = x.product /\ d.manual = x.manual
  BY <1>13, <1>14, SameKeys
<1>16. Ruled(in, d)
  BY <1>2, <1>4, <1>13 DEF Sound, Ruled
<1>17. Measured(d)
  <2>1. CASE h.length = Zero
    BY <1>11, <1>13, <2>1 DEF Measured
  <2>2. CASE h.length # Zero
    <3>1. PICK v \in Positives : v = h.length
      BY <1>2, <1>4, <2>2 DEF Sound, Measured
    <3>2. v \in Fractions
      BY DEF Positives
    <3>3. ASSUME NEW e \in C
          PROVE  e.length = v /\ e.unit = h.unit
                 /\ e.quantity = IF h.unit = "m" THEN Multiply(e.count, v) ELSE e.count
      <4>1. Key(e) = Key(h)
        BY <1>2, <1>4
      <4>2. e.length = h.length
        BY <1>2, <1>4, <4>1, Zenon DEF AggregateFailures
      <4>3. e.unit = h.unit
        BY <4>1, SameKeys
      <4>4. Measured(e)
        BY <1>2 DEF Sound
      <4> QED
        BY <2>2, <3>1, <4>2, <4>3, <4>4 DEF Measured
    <3>4. CASE h.unit = "m"
      <4>1. \A e \in C : q[e] = Multiply(n[e], v)
        BY <1>9, <3>3, <3>4
      <4>2. SumOf(q) = Multiply(SumOf(n), v)
        BY <1>8, <1>9, <3>2, <4>1, SumScales
      <4> QED
        BY <1>11, <1>13, <3>1, <3>4, <4>2 DEF Measured
    <3>5. CASE h.unit # "m"
      <4>1. q = n
        BY <1>5, <3>3, <3>5
      <4> QED
        BY <1>11, <1>13, <3>1, <3>5, <4>1 DEF Measured
    <3> QED
      BY <3>4, <3>5
  <2> QED
    BY <2>1, <2>2
<1>18. Sound(in, d)
  BY <1>2, <1>4, <1>13, <1>16, <1>17 DEF Sound
<1> QED
  BY <1>1, <1>5, <1>6, <1>13, <1>14, <1>15, <1>18

\* The lines of a product or a manual item add up to what is demanded of it.
AddUp(S, lines, key) ==
  LET own == { l \in lines : <<l.d.product, l.d.manual>> = key }
  IN SumOver(LAMBDA l : l.technical, own) = Total({ e \in S : <<e.product, e.manual>> = key })

LEMMA AccountsAddUp ==
  ASSUME NEW S, NEW lines, NEW p, NEW m,
         SumOf([l \in { k \in lines : <<k.d.product, k.d.manual>> = <<p, m>> } |-> l.technical]) =
         SumOf([e \in { d \in S : <<d.product, d.manual>> = <<p, m>> } |-> e.quantity])
  PROVE  AddUp(S, lines, <<p, m>>)
BY DEF AddUp, SumOver, Total

\* Each product that nobody has adjusted has lines that add up to its demand.
LEMMA LinesAddUp ==
  ASSUME NEW in, InputAccepted(in), NEW S, IsFiniteSet(S), \A e \in S : Sound(in, e),
         AggregateFailures(S) = {}, NEW lines, lines = { Line(in, Adjusted(in, d)) : d \in Demands(S) },
         NEW p, NEW m, \A a \in in.adjustments : a.product # p
  PROVE  AddUp(S, lines, <<p, m>>)
<1> DEFINE Own == { k \in lines : <<k.d.product, k.d.manual>> = <<p, m>> }
           E == { d \in S : <<d.product, d.manual>> = <<p, m>> }
           LineOf(e) == Line(in, Aggregate(Class(S, Key(e))))
<1>1. PICK own : own = Own
  OBVIOUS
<1>2. PICK all, some : all = E /\ some = { e \in all : e.quantity # Zero }
  OBVIOUS
<1>3. all \subseteq S /\ some \subseteq all /\ IsFiniteSet(all) /\ IsFiniteSet(some)
  <2>1. all \subseteq S /\ some \subseteq all
    BY <1>2
  <2> QED
    BY <2>1, FS_Subset
<1>4. PICK v : v = [e \in all |-> e.quantity]
  OBVIOUS
<1>5. DOMAIN v = all /\ \A e \in all : v[e] = e.quantity /\ v[e] \in Fractions
  BY <1>3, <1>4 DEF Sound, Measured
<1>6. PICK v1 : v1 = Restrict(v, some)
  OBVIOUS
<1>7. DOMAIN v1 = some /\ \A e \in some : v1[e] = e.quantity /\ v1[e] \in Fractions
  BY <1>3, <1>5, <1>6 DEF Restrict
<1>8. ASSUME NEW e \in S, e.quantity # Zero
      PROVE  LET d == Aggregate(Class(S, Key(e)))
             IN /\ d \in Demands(S) /\ DOMAIN d = Fields
                /\ d.from = <<"line", Key(e)>> /\ d.product = e.product /\ d.manual = e.manual
                /\ d.quantity = SumOf([x \in Class(S, Key(e)) |-> x.quantity]) /\ d.quantity \in Fractions
                /\ Line(in, d).d = d /\ Line(in, d).technical = d.quantity
  <2>1. PICK d : d = Aggregate(Class(S, Key(e)))
    OBVIOUS
  <2>2. d \in Demands(S)
    BY <1>8, <2>1, DemandsAreClasses
  <2>3. /\ Sound(in, d) /\ d.from = <<"line", Key(e)>> /\ d.product = e.product /\ d.manual = e.manual
        /\ d.quantity = SumOf([x \in Class(S, Key(e)) |-> x.quantity])
    BY <1>8, <2>1, AggregateFits
  <2>4. Line(in, d).d = d /\ Line(in, d).technical = d.quantity
    BY DEF Line
  <2> QED
    BY <2>1, <2>2, <2>3, <2>4 DEF Sound, Measured
<1>9. ASSUME NEW e \in some PROVE LineOf(e) \in own
  <2>1. PICK d : d = Aggregate(Class(S, Key(e)))
    OBVIOUS
  <2>2. e \in S /\ e.quantity # Zero /\ e.product = p /\ e.manual = m
    BY <1>2, <1>3
  <2>3. d \in Demands(S) /\ DOMAIN d = Fields /\ d.product = p /\ d.manual = m /\ Line(in, d).d = d
    BY <1>8, <2>1, <2>2
  <2>4. Adjusted(in, d) = d
    BY <2>3, AdjustedFields
  <2>5. Line(in, d) \in lines
    BY <2>3, <2>4
  <2>6. Line(in, d) \in Own
    BY <2>3, <2>5
  <2> QED
    BY <1>1, <2>1, <2>6
<1>10. ASSUME NEW l \in own
       PROVE  \E e \in some : /\ l = LineOf(e)
                              /\ l.technical = SumOf([x \in Class(S, Key(e)) |-> x.quantity])
                              /\ l.technical \in Fractions
  <2>1. PICK d \in Demands(S) : l = Line(in, Adjusted(in, d))
    BY <1>1
  <2>2. PICK e \in S : e.quantity # Zero /\ d = Aggregate(Class(S, Key(e)))
    BY DemandsAreClasses
  <2>3. /\ DOMAIN d = Fields /\ d.product = e.product /\ d.manual = e.manual
        /\ d.quantity = SumOf([x \in Class(S, Key(e)) |-> x.quantity]) /\ d.quantity \in Fractions
        /\ Line(in, d).technical = d.quantity
    BY <1>8, <2>2
  <2>4. l.d = Adjusted(in, d) /\ l.d.product = p /\ l.d.manual = m
    BY <1>1, <2>1 DEF Line
  <2>5. d.product = p /\ d.manual = m
    BY <2>3, <2>4, AdjustedFields
  <2>6. Adjusted(in, d) = d
    BY <2>3, <2>5, AdjustedFields
  <2>7. e \in some
    BY <1>2, <2>2, <2>3, <2>5
  <2> QED
    BY <2>1, <2>2, <2>3, <2>6, <2>7
<1>11. ASSUME NEW e \in some, NEW x \in some PROVE LineOf(x) = LineOf(e) <=> Key(x) = Key(e)
  <2>1. e \in S /\ e.quantity # Zero /\ x \in S /\ x.quantity # Zero
    BY <1>2, <1>3
  <2>2. PICK d, k : d = Aggregate(Class(S, Key(e))) /\ k = Aggregate(Class(S, Key(x)))
    OBVIOUS
  <2>3. d.from = <<"line", Key(e)>> /\ k.from = <<"line", Key(x)>> /\ Line(in, d).d = d /\ Line(in, k).d = k
    BY <1>8, <2>1, <2>2
  <2>4. Line(in, k) = Line(in, d) => Key(x) = Key(e)
    BY <2>3
  <2> QED
    BY <2>2, <2>4
<1>12. ASSUME NEW e \in some PROVE Class(S, Key(e)) = { x \in some : Key(x) = Key(e) }
  <2>1. ASSUME NEW x \in S, x.quantity # Zero, Key(x) = Key(e) PROVE x \in some
    <3>1. x.product = e.product /\ x.manual = e.manual
      BY <2>1, SameKeys
    <3>2. e.product = p /\ e.manual = m
      BY <1>2
    <3> QED
      BY <1>2, <2>1, <3>1, <3>2
  <2>2. \A x \in some : x \in S /\ x.quantity # Zero
    BY <1>2, <1>3
  <2> QED
    BY <2>1, <2>2 DEF Class
<1>13. PICK part : part = [e \in some |-> LineOf(e)]
  OBVIOUS
<1>14. part \in [some -> own] /\ \A e \in some : part[e] = LineOf(e)
  BY <1>9, <1>13
<1>15. PICK w : w = [l \in own |-> l.technical]
  OBVIOUS
<1> HIDE DEF LineOf
<1>16. DOMAIN w = own /\ IsFiniteSet(own)
  <2>1. own = { part[e] : e \in some }
    <3>1. \A l \in own : \E e \in some : l = part[e]
      BY <1>10, <1>14
    <3>2. \A e \in some : part[e] \in own
      BY <1>14
    <3> QED
      BY <3>1, <3>2
  <2> QED
    BY <1>3, <1>15, <2>1, ImageIsFinite
<1>17. ASSUME NEW l \in own
       PROVE  w[l] \in Fractions /\ w[l] = SumOf(Restrict(v1, { x \in some : part[x] = l }))
  <2>1. PICK e \in some : /\ l = LineOf(e)
                          /\ l.technical = SumOf([x \in Class(S, Key(e)) |-> x.quantity])
                          /\ l.technical \in Fractions
    BY <1>10
  <2>2. { x \in some : part[x] = l } = Class(S, Key(e))
    BY <1>11, <1>12, <1>14, <2>1
  <2>3. PICK C : C = Class(S, Key(e)) /\ C \subseteq some
    BY <1>12
  <2>4. Restrict(v1, C) = [x \in C |-> x.quantity]
    BY <1>7, <2>3 DEF Restrict
  <2> QED
    BY <1>15, <2>1, <2>2, <2>3, <2>4
<1>18. SumOf(w) = SumOf(v1)
  <2>1. part \in [DOMAIN v1 -> DOMAIN w]
    BY <1>7, <1>14, <1>16
  <2>2. \A l \in DOMAIN w : w[l] \in Fractions /\ w[l] = SumOf(Restrict(v1, { x \in DOMAIN v1 : part[x] = l }))
    BY <1>7, <1>16, <1>17
  <2>3. IsFiniteSet(DOMAIN v1) /\ IsFiniteSet(DOMAIN w) /\ \A x \in DOMAIN v1 : v1[x] \in Fractions
    BY <1>3, <1>7, <1>16
  <2> QED
    BY <2>1, <2>2, <2>3, SumByParts
<1>19. SumOf(v) = SumOf(v1)
  <2>1. PICK none : none = all \ some
    OBVIOUS
  <2>2. some \in SUBSET DOMAIN v /\ none \in SUBSET DOMAIN v /\ some \cap none = {} /\ some \cup none = DOMAIN v
    BY <1>3, <1>5, <2>1
  <2>3. IsFiniteSet(DOMAIN v) /\ \A x \in DOMAIN v : v[x] \in Fractions
    BY <1>3, <1>5
  <2>4. SumOf(Restrict(v, some \cup none)) = Add(SumOf(Restrict(v, some)), SumOf(Restrict(v, none)))
    BY <2>2, <2>3, SumsAdd
  <2>5. \A x \in none : v[x] = Zero
    BY <1>2, <1>5, <2>1
  <2>6. SumOf(Restrict(v, none)) = Zero
    BY <2>2, <2>3, <2>5, SumOfZeros
  <2>7. SumOf(Restrict(v, DOMAIN v)) = SumOf(v)
    BY <2>3, SumOfWhole
  <2>8. PICK s \in Fractions : s = SumOf(v1)
    BY <1>3, <1>7, SumFits
  <2>9. Add(s, Zero) = s
    BY AddLaws
  <2> QED
    BY <1>6, <2>2, <2>4, <2>6, <2>7, <2>8, <2>9
<1>20. SumOf([l \in Own |-> l.technical]) = SumOf([e \in E |-> e.quantity])
  BY <1>1, <1>2, <1>4, <1>15, <1>18, <1>19
<1> QED
  BY <1>20, AccountsAddUp

LEMMA DemandsFit ==
  ASSUME NEW in, InputAccepted(in), NEW S, IsFiniteSet(S), \A e \in S : Sound(in, e), AggregateFailures(S) = {}
  PROVE  IsFiniteSet(Demands(S)) /\ \A d \in Demands(S) : Sound(in, d)
<1>1. PICK demanded : demanded = { e \in S : e.quantity # Zero }
  OBVIOUS
<1>2. PICK f : f = [e \in demanded |-> Aggregate(Class(S, Key(e)))]
  OBVIOUS
<1>3. IsFiniteSet(demanded)
  BY <1>1, FS_Subset
<1>4. Demands(S) = { f[e] : e \in demanded }
  <2>1. Demands(S) = { Aggregate(Class(S, Key(e))) : e \in demanded }
    BY <1>1, DemandsAreClasses
  <2> QED
    BY <1>2, <2>1
<1>5. IsFiniteSet(Demands(S))
  BY <1>3, <1>4, ImageIsFinite
<1>6. ASSUME NEW d \in Demands(S) PROVE Sound(in, d)
  <2>1. PICK e \in demanded : d = Aggregate(Class(S, Key(e)))
    BY <1>2, <1>4
  <2>2. e \in S /\ e.quantity # Zero
    BY <1>1
  <2> QED
    BY <2>1, <2>2, AggregateFits
<1> QED
  BY <1>5, <1>6

LEMMA BuildParts ==
  ASSUME Build, failure' = None
  PROVE  /\ AggregateFailures(unsuppressed) = {}
         /\ AdjustmentFailures(input, Demands(unsuppressed)) = {}
         /\ \A d \in Demands(unsuppressed) : FinalizeFailures(input, Adjusted(input, d)) = {}
         /\ result'.lines = { Line(input, Adjusted(input, d)) : d \in Demands(unsuppressed) }
         /\ stage' = "done" /\ UNCHANGED <<input, failure, unsuppressed>>
<1>1. PICK demands, adjusted, lines :
        /\ demands = Demands(unsuppressed)
        /\ adjusted = { Adjusted(input, d) : d \in demands }
        /\ lines = { Line(input, d) : d \in adjusted }
  OBVIOUS
<1>2. PICK p, q, r, s :
        /\ p = AggregateFailures(unsuppressed) /\ q = AdjustmentFailures(input, demands)
        /\ r = UNION { FinalizeFailures(input, d) : d \in adjusted } /\ s = OutputFailures(input, lines)
  OBVIOUS
<1>3. PICK failures : failures = IF p # {} THEN p ELSE IF q # {} THEN q ELSE IF r # {} THEN r ELSE s
  OBVIOUS
<1>4. \/ failures # {} /\ Refuse(failures)
      \/ /\ failures = {}
         /\ \E codes : result' = Summary(lines, codes)
         /\ stage' = "done" /\ UNCHANGED <<input, failure, unsuppressed>>
  BY <1>1, <1>2, <1>3, Zenon DEF Build
<1>5. /\ failures = {}
      /\ \E codes : result' = Summary(lines, codes)
      /\ stage' = "done" /\ UNCHANGED <<input, failure, unsuppressed>>
  <2>1. None \notin p /\ None \notin q /\ None \notin s
    BY <1>2 DEF AggregateFailures, AdjustmentFailures, OutputFailures, None
  <2>2. None \notin r
    <3>1. \A d : None \notin FinalizeFailures(input, d)
      BY DEF FinalizeFailures, None
    <3> QED
      BY <1>2, <3>1
  <2>3. None \notin failures
    BY <1>3, <2>1, <2>2
  <2> QED
    BY <1>4, <2>3 DEF Refuse
<1>6. p = {} /\ q = {} /\ r = {}
  BY <1>3, <1>5
<1>7. result'.lines = lines
  BY <1>5 DEF Summary
<1>8. lines = { Line(input, Adjusted(input, d)) : d \in demands }
  BY <1>1
<1>9. \A d \in demands : FinalizeFailures(input, Adjusted(input, d)) = {}
  BY <1>1, <1>2, <1>6
<1> QED
  BY <1>1, <1>2, <1>5, <1>6, <1>7, <1>8, <1>9

\* What LinesAccountForDemand says of the lines of an input and what its demands come to.
LineCovers(in, l) ==
  LET wanted == WithReserve(in, l.d, l.technical)
      step == IF Packaged(in, l.d) THEN Increment(in, l.d) ELSE Zero
  IN /\ l.d.traced = l.technical
     /\ Leq(wanted, l.ordered)
     /\ step # Zero => IsInteger(Divide(l.ordered, step))
     /\ l.ordered = wanted \/ ~Leq(Add(wanted, Add(step, Deliverable(l.d))), l.ordered)
LinesAccount(in, S, lines) ==
  /\ \A key \in { <<e.product, e.manual>> : e \in S } :
       (\E a \in in.adjustments : a.product = key[1]) \/ AddUp(S, lines, key)
  /\ \A l \in lines : LineCovers(in, l)

LEMMA AccountingParts ==
  LinesAccountForDemand <=> (Calculated => LinesAccount(input, unsuppressed, result.lines))
BY Zenon DEF LinesAccountForDemand, LinesAccount, AddUp, LineCovers

LEMMA BuildAccounts ==
  ASSUME InputAccepted(input), IsFiniteSet(unsuppressed), \A e \in unsuppressed : Sound(input, e),
         Build, failure' = None
  PROVE  LinesAccount(input', unsuppressed', result'.lines)
<1>1. /\ AggregateFailures(unsuppressed) = {}
      /\ AdjustmentFailures(input, Demands(unsuppressed)) = {}
      /\ \A d \in Demands(unsuppressed) : FinalizeFailures(input, Adjusted(input, d)) = {}
      /\ result'.lines = { Line(input, Adjusted(input, d)) : d \in Demands(unsuppressed) }
      /\ input' = input /\ unsuppressed' = unsuppressed
  BY BuildParts
<1>2. PICK lines : lines = result'.lines
  OBVIOUS
<1>3. ASSUME NEW p, NEW m, \A a \in input.adjustments : a.product # p
      PROVE  AddUp(unsuppressed, lines, <<p, m>>)
  <2>1. lines = { Line(input, Adjusted(input, d)) : d \in Demands(unsuppressed) }
    BY <1>1, <1>2
  <2> QED
    BY <1>1, <1>3, <2>1, LinesAddUp
<1>4. ASSUME NEW l \in lines
      PROVE  /\ l.d.traced = l.technical
             /\ l.technical = l.d.quantity /\ l.ordered = Ordered(input, l.d)
             /\ OrderedIsEnough(input, l.d)
  <2>1. PICK d \in Demands(unsuppressed) : l = Line(input, Adjusted(input, d))
    BY <1>1, <1>2
  <2>2. IsFiniteSet(Demands(unsuppressed)) /\ Sound(input, d)
    BY <1>1, DemandsFit
  <2>3. PICK x : x = Adjusted(input, d)
    OBVIOUS
  <2>4. FinalizeFailures(input, x) = {}
    BY <1>1, <2>3
  <2>5. Ruled(input, x) /\ Measured(x) /\ x.traced = x.quantity
    BY <1>1, <2>2, <2>3, <2>4, AdjustedFits
  <2>6. OrderedIsEnough(input, x)
    BY <2>4, <2>5, OrderedCovers
  <2>7. l.d = x /\ l.technical = x.quantity /\ l.ordered = Ordered(input, x)
    BY <2>1, <2>3 DEF Line
  <2> QED
    BY <2>5, <2>6, <2>7
<1>5. ASSUME NEW key \in { <<e.product, e.manual>> : e \in unsuppressed }
      PROVE  (\E a \in input.adjustments : a.product = key[1]) \/ AddUp(unsuppressed, lines, key)
  <2>1. PICK e \in unsuppressed : key = <<e.product, e.manual>>
    OBVIOUS
  <2>2. key[1] = e.product
    BY <2>1
  <2>3. CASE \A a \in input.adjustments : a.product # e.product
    BY <1>3, <2>1, <2>3
  <2>4. CASE \E a \in input.adjustments : a.product = e.product
    BY <2>2, <2>4
  <2> QED
    BY <2>3, <2>4
<1>6. ASSUME NEW l \in lines PROVE LineCovers(input, l)
  BY <1>4 DEF OrderedIsEnough, LineCovers
<1>7. LinesAccount(input, unsuppressed, lines)
  BY <1>5, <1>6, Zenon DEF LinesAccount
<1> QED
  BY <1>1, <1>2, <1>7

-----------------------------------------------------------------------------
(* What the rules emit is sound.                                           *)

\* Only the rows of templates emit demand that products may include, and such demand tells
\* the row and the support group that it is from: it is what that row emits for that group.
RowDemand(in, from) ==
  LET group == from[2][2]
      template == in.templates[Configuration(in, group).template]
      row == CHOOSE c \in template.components : c.id = from[4]
  IN ComponentDemand(in, group, template, row, SupportCount(in, group)).events
OfTemplate(in, e) == e.eligible => RowDemand(in, e.from) = {e}

\* The joints of a run, under the rule for it, and the supports of a group.
MatchingJoints(in, emitted, run) ==
  { r \in DOMAIN in.rules :
      /\ in.rules[r].type = "internalJoint"
      /\ in.rules[r].straight = in.routes[(CHOOSE g \in run : TRUE)[1]].product
      /\ in.rules[r].option = None \/ { SectionOf(in, emitted, g).option : g \in run } = {in.rules[r].option} }
JointEvent(in, emitted, run, r) ==
  Event(in, <<"connector", <<"straightRun", { Item(in, g).id : g \in run }>>, in.rules[r].product, r>>,
        in.rules[r].product, "connector",
        Multiply(Subtract(RunSections(in, emitted, run), One), Whole(in.rules[r].quantity)),
        in.rules[r].confidence)
SupportEvent(in, group) ==
  LET p == Configuration(in, group).product
  IN Event(in, <<"support", GroupSubject(group), p, None>>, p, "support", SupportCount(in, group), "calculated")

\* Only a run of more than one section emits joints, and only a support group its supports.
Elsewhere(from, category) == from[2][1] # "straightRun" /\ (category = "support" => from[4] # None)
OfRun(in, emitted, e) ==
  \E run \in StraightRuns(in, SegmentsOf(in, emitted)), r \in DOMAIN in.rules :
    /\ ~Leq(RunSections(in, emitted, run), One) /\ MatchingJoints(in, emitted, run) = {r}
    /\ e = JointEvent(in, emitted, run, r)
OfSupportGroup(in, e) == \E group \in SupportGroups(in) : e = SupportEvent(in, group)
FromTopology(in, e) ==
  \/ Elsewhere(e.from, e.category)
  \/ e.from[2][1] = "straightRun" /\ e.category = "connector" /\ OfRun(in, SectionDemands(in).events, e)
  \/ e.from[2][1] # "straightRun" /\ OfSupportGroup(in, e)

Original(in, e) == Sound(in, e) /\ OfTemplate(in, e) /\ FromTopology(in, e)

\* A rule gives its errors a code, and emits finitely many sound demands.
OutSound(in, out) ==
  /\ None \notin out.failures
  /\ IsFiniteSet(out.events) /\ \A e \in out.events : Original(in, e)

LEMMA NothingIsSound ==
  ASSUME NEW in, NEW warned
  PROVE  /\ OutSound(in, Emits({})) /\ OutSound(in, Warns(warned)) /\ OutSound(in, Unresolved(in, warned))
         /\ OutSound(in, Throws("SEMANTIC_INPUT_INVALID")) /\ OutSound(in, Throws("INTERNAL_INVARIANT_FAILED"))
         /\ OutSound(in, Throws("AMBIGUOUS_LINE_POLICY"))
<1>1. IsFiniteSet({})
  BY FS_EmptySet
<1> QED
  BY <1>1, OutParts DEF OutSound, Emits, Warns, Unresolved, Throws, None

LEMMA EmitsSound ==
  ASSUME NEW in, NEW event, Original(in, event)
  PROVE  OutSound(in, Emits({event}))
<1>1. IsFiniteSet({event})
  BY FS_Singleton
<1>2. Emits({event}).events = {event} /\ Emits({event}).failures = {}
  BY OutParts DEF Emits
<1> QED
  BY <1>1, <1>2 DEF OutSound

LEMMA AllSound ==
  ASSUME NEW in, NEW outs, IsFiniteSet(outs), \A out \in outs : OutSound(in, out)
  PROVE  OutSound(in, All(outs))
<1>1. /\ All(outs).events = UNION { o.events : o \in outs }
      /\ All(outs).failures = UNION { o.failures : o \in outs }
  BY OutParts DEF All
<1> DEFINE f == [o \in outs |-> o.events]
           Parts == { o.events : o \in outs }
<1>2. IsFiniteSet(Parts)
  <2>1. IsFiniteSet({ f[o] : o \in outs })
    BY ImageIsFinite
  <2>2. Parts = { f[o] : o \in outs }
    OBVIOUS
  <2> QED
    BY <2>1, <2>2
<1>3. \A T \in Parts : IsFiniteSet(T) /\ \A e \in T : Original(in, e)
  BY DEF OutSound
<1>4. IsFiniteSet(UNION Parts)
  <2> HIDE DEF Parts
  <2> QED
    BY <1>2, <1>3, FS_UNION
<1>5. \A e \in UNION Parts : Original(in, e)
  <2> HIDE DEF Parts
  <2> QED
    BY <1>3
<1>6. None \notin All(outs).failures
  <2>1. None \notin UNION { o.failures : o \in outs }
    BY DEF OutSound
  <2> QED
    BY <1>1, <2>1
<1> QED
  BY <1>1, <1>4, <1>5, <1>6 DEF OutSound

LEMMA BothSound ==
  ASSUME NEW in, NEW a, NEW b, OutSound(in, a), OutSound(in, b)
  PROVE  OutSound(in, Both(a, b))
<1>1. /\ Both(a, b).events = a.events \cup b.events
      /\ Both(a, b).failures = a.failures \cup b.failures
  BY OutParts DEF Both
<1>2. IsFiniteSet(a.events \cup b.events)
  BY FS_Union DEF OutSound
<1> QED
  BY <1>1, <1>2 DEF OutSound

LEMMA PoliciesFit ==
  ASSUME NEW in, InputAccepted(in), NEW p, NEW manual, NEW reserve, NEW packaging,
         ReserveAccepted(reserve), PackagingAccepted(packaging)
  PROVE  /\ ReserveAccepted(Policies(in, p, manual, reserve, packaging).reserve)
         /\ PackagingAccepted(Policies(in, p, manual, reserve, packaging).packaging)
<1> DEFINE matching == MatchingPolicies(in, p, manual)
           l == CHOOSE l \in matching : TRUE
           policies == Policies(in, p, manual, reserve, packaging)
<1>1. policies = IF matching = {}
                 THEN [reserve |-> reserve, packaging |-> packaging, boundary |-> None]
                 ELSE [reserve |-> l.reserve, packaging |-> l.packaging, boundary |-> l.id]
  BY Zenon DEF Policies
<1>2. \A k \in matching : ReserveAccepted(k.reserve) /\ PackagingAccepted(k.packaging)
  <2>1. LinePoliciesAccepted(in)
    BY DEF InputAccepted
  <2>2. \A k \in in.linePolicies : ReserveAccepted(k.reserve) /\ PackagingAccepted(k.packaging)
    BY <2>1, Zenon DEF LinePoliciesAccepted
  <2>3. matching \subseteq in.linePolicies
    BY DEF MatchingPolicies
  <2> QED
    BY <2>2, <2>3
<1>3. matching # {} => l \in matching
  <2> HIDE DEF matching
  <2> QED
    BY Zenon
<1> HIDE DEF matching, l, policies
<1>4. CASE matching = {}
  <2>1. policies.reserve = reserve /\ policies.packaging = packaging
    BY <1>1, <1>4
  <2> QED
    BY <2>1 DEF policies
<1>5. CASE matching # {}
  <2>1. policies.reserve = l.reserve /\ policies.packaging = l.packaging
    BY <1>1, <1>5
  <2> QED
    BY <1>2, <1>3, <1>5, <2>1 DEF policies
<1> QED
  BY <1>4, <1>5

LEMMA JointEventFits ==
  ASSUME NEW in, NEW emitted, NEW run, NEW r
  PROVE  LET e == JointEvent(in, emitted, run, r)
         IN /\ e.from[2] = <<"straightRun", { Item(in, g).id : g \in run }>> /\ e.from[2][1] = "straightRun"
            /\ e.category = "connector"
            /\ e.quantity = Multiply(Subtract(RunSections(in, emitted, run), One), Whole(in.rules[r].quantity))
<1>1. PICK p, status, quantity :
        /\ p = in.rules[r].product /\ status = in.rules[r].confidence
        /\ quantity = Multiply(Subtract(RunSections(in, emitted, run), One), Whole(in.rules[r].quantity))
  OBVIOUS
<1>2. PICK ids : ids = { Item(in, g).id : g \in run }
  OBVIOUS
<1>3. JointEvent(in, emitted, run, r) =
        Event(in, <<"connector", <<"straightRun", ids>>, p, r>>, p, "connector", quantity, status)
  BY <1>1, <1>2, Zenon DEF JointEvent
<1>4. PICK e : e = JointEvent(in, emitted, run, r)
  OBVIOUS
<1>5. e.from = <<"connector", <<"straightRun", ids>>, p, r>> /\ e.category = "connector" /\ e.quantity = quantity
  BY <1>3, <1>4, EventFits
<1>6. e.from[2] = <<"straightRun", ids>> /\ e.from[2][1] = "straightRun"
  BY <1>5
<1> QED
  BY <1>1, <1>2, <1>4, <1>5, <1>6, Zenon

LEMMA ElsewhereFits ==
  ASSUME NEW in, NEW from, NEW p, NEW category, NEW quantity, NEW status, Elsewhere(from, category)
  PROVE  FromTopology(in, Event(in, from, p, category, quantity, status))
  BY EventFits DEF FromTopology

LEMMA EventSound ==
  ASSUME NEW in, InputAccepted(in), NEW from, NEW p \in Products(in), NEW category,
         NEW quantity \in Fractions, NEW status,
         FromTopology(in, Event(in, from, p, category, quantity, status))
  PROVE  Original(in, Event(in, from, p, category, quantity, status))
<1> DEFINE policies == Policies(in, p, None, ProjectReserve, CatalogPackaging)
           e == Event(in, from, p, category, quantity, status)
<1>1. ReserveAccepted(policies.reserve) /\ PackagingAccepted(policies.packaging)
  <2>1. ReserveAccepted(ProjectReserve) /\ PackagingAccepted(CatalogPackaging)
    BY DEF ReserveAccepted, PackagingAccepted, ProjectReserve, CatalogPackaging
  <2> QED
    BY <2>1, PoliciesFit
<1>2. e = [ from |-> from, product |-> p, manual |-> None, category |-> category,
            quantity |-> quantity, unit |-> in.products[p].unit, option |-> None,
            length |-> Zero, count |-> Zero, reserve |-> policies.reserve,
            packaging |-> policies.packaging, boundary |-> <<None, policies.boundary>>,
            status |-> status, eligible |-> FALSE, traced |-> quantity ]
  BY Zenon DEF Event
<1> HIDE DEF policies, e
<1>3. /\ DOMAIN e = Fields
      /\ e.product = p /\ e.quantity = quantity /\ e.traced = quantity /\ e.length = Zero /\ e.count = Zero
      /\ e.reserve = policies.reserve /\ e.packaging = policies.packaging /\ e.eligible = FALSE
  BY <1>2 DEF Fields
<1>4. Zero \in Fractions /\ Zero \in StockLengths
  BY WholeFits DEF Zero, StockLengths
<1>5. Original(in, e)
  <2>1. Sound(in, e) /\ OfTemplate(in, e)
    BY <1>1, <1>3, <1>4 DEF OfTemplate, Sound, Ruled, Measured
  <2>2. FromTopology(in, e)
    BY DEF e
  <2> QED
    BY <2>1, <2>2 DEF Original
<1> QED
  BY <1>5 DEF e

LEMMA CompatibleSound ==
  ASSUME NEW in, InputAccepted(in), NEW context, NEW p, NEW subject, NEW event, Original(in, event)
  PROVE  /\ OutSound(in, IfCompatible(in, context, p, subject, event))
         /\ IfCompatible(in, context, p, subject, event).events \subseteq {event}
<1> DEFINE evidence == Evidence(in, context, p, subject)
           available == Available(in, p)
           warned == IF context = "anchor" THEN "ANCHOR_PRODUCT_INCOMPATIBLE"
                     ELSE "PRODUCT_SELECTION_INCOMPATIBLE"
           out == IfCompatible(in, context, p, subject, event)
<1>1. out = CASE evidence = BOOLEAN -> Throws("SEMANTIC_INPUT_INVALID")
              [] evidence # BOOLEAN /\ (~available \/ FALSE \in evidence) ->
                   Unresolved(in, {Warning(warned, subject)})
              [] evidence = {} /\ available ->
                   Unresolved(in, {Warning("MISSING_COMPATIBILITY_RULE", subject)})
              [] evidence = {TRUE} /\ available -> Emits({event})
  BY Zenon DEF IfCompatible
<1>2. evidence \subseteq BOOLEAN
  <2>1. \A c \in in.compatibility : c.allowed \in BOOLEAN
    BY Zenon DEF InputAccepted, CompatibilityAccepted, Collection
  <2> QED
    BY <2>1 DEF Evidence
<1>3. available \in BOOLEAN
  BY DEF Available
<1>4. \/ evidence = BOOLEAN
      \/ evidence # BOOLEAN /\ (~available \/ FALSE \in evidence)
      \/ evidence = {} /\ available
      \/ evidence = {TRUE} /\ available
  <2> HIDE DEF evidence, available
  <2> QED
    BY <1>2
<1> HIDE DEF evidence, available, warned, out
<1>5. CASE evidence = BOOLEAN
  <2>1. out = Throws("SEMANTIC_INPUT_INVALID")
    BY <1>1, <1>5
  <2>2. out.events = {}
    BY <2>1, OutParts DEF Throws, Unresolved
  <2>3. OutSound(in, out)
    BY <2>1, NothingIsSound
  <2> QED
    BY <2>2, <2>3 DEF out
<1>6. CASE evidence # BOOLEAN /\ (~available \/ FALSE \in evidence)
  <2>1. out = Unresolved(in, {Warning(warned, subject)})
    BY <1>1, <1>6
  <2>2. out.events = {}
    BY <2>1, OutParts DEF Throws, Unresolved
  <2>3. OutSound(in, out)
    BY <2>1, NothingIsSound
  <2> QED
    BY <2>2, <2>3 DEF out
<1>7. CASE evidence = {} /\ available
  <2>1. out = Unresolved(in, {Warning("MISSING_COMPATIBILITY_RULE", subject)})
    BY <1>1, <1>7
  <2>2. out.events = {}
    BY <2>1, OutParts DEF Throws, Unresolved
  <2>3. OutSound(in, out)
    BY <2>1, NothingIsSound
  <2> QED
    BY <2>2, <2>3 DEF out
<1>8. CASE evidence = {TRUE} /\ available
  <2>1. out = Emits({event})
    BY <1>1, <1>8
  <2> QED
    BY <2>1, EmitsSound, OutParts DEF out, Emits
<1> QED
  BY <1>4, <1>5, <1>6, <1>7, <1>8

LEMMA CountSound ==
  ASSUME NEW in, InputAccepted(in), NEW p, NEW category, NEW context, NEW subject,
         NEW quantity \in Fractions, NEW status, NEW rule,
         FromTopology(in, Event(in, <<category, subject, p, rule>>, p, category, quantity, status))
  PROVE  OutSound(in, CountDemand(in, p, category, context, subject, quantity, status, rule))
<1>1. PICK event : event = Event(in, <<category, subject, p, rule>>, p, category, quantity, status)
  OBVIOUS
<1>2. PICK out : out = CountDemand(in, p, category, context, subject, quantity, status, rule)
  OBVIOUS
<1>3. out = IF p \in DOMAIN in.products
            THEN IF in.products[p].unit # "pcs" THEN Throws("SEMANTIC_INPUT_INVALID")
                 ELSE IF rule = None THEN IfCompatible(in, context, p, subject, event)
                 ELSE IF Available(in, p) THEN Emits({event}) ELSE Unresolved(in, {})
            ELSE Throws("INTERNAL_INVARIANT_FAILED")
  BY <1>1, <1>2, Zenon DEF CountDemand, WithKnown
<1>4. p \in DOMAIN in.products => Original(in, event)
  BY <1>1, EventSound DEF Products
<1>5. p \in DOMAIN in.products =>
        OutSound(in, IfCompatible(in, context, p, subject, event)) /\ OutSound(in, Emits({event}))
  BY <1>4, CompatibleSound, EmitsSound
<1>6. OutSound(in, out)
  BY <1>3, <1>5, NothingIsSound, Zenon
<1> QED
  BY <1>2, <1>6

LEMMA SectionEventSound ==
  ASSUME NEW in, InputAccepted(in), NEW route, route.product \in Products(in),
         NEW item, item.length \in Positives, NEW option, option.length \in {3000, 6000}
  PROVE  /\ Original(in, SectionEvent(in, route, item, option))
         /\ \E n \in Nat \ {0} : SectionEvent(in, route, item, option).count = Whole(n)
<1> DEFINE p == route.product
           unit == in.products[p].unit
           length == Fraction(option.length, 1000)
           count == Ceil(Divide(item.length, length))
           quantity == IF unit = "m" THEN Multiply(count, length) ELSE count
           base == Event(in, <<"linearSection", <<"segment", item.id>>, p, None>>,
                         p, "linearSection", quantity, "calculated")
           e == SectionEvent(in, route, item, option)
<1>1. length \in StockLengths /\ length \in Positives /\ length \in Fractions
  <2>1. length \in StockLengths
    BY DEF StockLengths
  <2>2. length \in Positives
    <3>1. PICK n \in Nat, d \in Nat \ {0} : n = option.length /\ d = 1000 /\ n # 0
      OBVIOUS
    <3>2. Fraction(n, d) \in Positives
      BY <3>1, FractionFits
    <3> QED
      BY <3>1, <3>2
  <2> HIDE DEF length
  <2> QED
    BY <2>1, <2>2 DEF Positives
<1> HIDE DEF length
<1>0. e = [base EXCEPT !.option = option.id, !.length = length, !.count = count]
  BY DEF SectionEvent, length
<1>2. PICK n \in Nat \ {0} : count = Whole(n)
  <2>1. Divide(item.length, length) \in Positives
    BY <1>1, DivideFits, FractionTypes
  <2>2. Divide(item.length, length) \in Fractions
    BY <2>1, FractionTypes
  <2> QED
    BY <2>1, <2>2, CeilFits
<1>3. count \in Fractions
  BY <1>2, WholeFits
<1> HIDE DEF count
<1>4. Multiply(count, length) \in Fractions
  BY <1>1, <1>3, MultiplyFits
<1>5. quantity \in Fractions
  BY <1>3, <1>4
<1> HIDE DEF quantity
<1>6. Original(in, base)
  <2>1. Elsewhere(<<"linearSection", <<"segment", item.id>>, p, None>>, "linearSection")
    BY DEF Elsewhere
  <2> QED
    BY <1>5, <2>1, ElsewhereFits, EventSound
<1>7. /\ base.unit = unit /\ base.quantity = quantity /\ base.eligible = FALSE
      /\ Elsewhere(base.from, base.category)
  BY DEF Event, Elsewhere
<1> HIDE DEF base, e, unit
<1>9. DOMAIN base = Fields
  BY <1>6 DEF Original, OfTemplate, Sound
<1>10. /\ DOMAIN e = Fields
       /\ e.product = base.product /\ e.reserve = base.reserve /\ e.packaging = base.packaging
       /\ e.quantity = base.quantity /\ e.traced = base.traced /\ e.unit = base.unit /\ e.eligible = base.eligible
       /\ e.length = length /\ e.count = count /\ e.from = base.from /\ e.category = base.category
  BY <1>0, <1>9 DEF Fields
<1>11. Ruled(in, e)
  BY <1>6, <1>10 DEF Original, OfTemplate, Sound, Ruled
<1>12. Measured(e)
  <2>1. quantity = IF unit = "m" THEN Multiply(count, length) ELSE count
    BY DEF quantity
  <2> QED
    BY <1>1, <1>3, <1>5, <1>7, <1>10, <2>1 DEF Measured
<1>13. e.traced = e.quantity
  BY <1>6, <1>10 DEF Original, OfTemplate, Sound
<1>14. Original(in, e)
  BY <1>1, <1>7, <1>10, <1>11, <1>12, <1>13 DEF Original, OfTemplate, Sound, FromTopology
<1> QED
  BY <1>2, <1>10, <1>14 DEF e

LEMMA SectionSound ==
  ASSUME NEW in, InputAccepted(in), NEW g \in Segments(in)
  PROVE  OutSound(in, SectionDemand(in, g)) /\ SectionsCounted(SectionDemand(in, g).events)
<1> DEFINE route == in.routes[g[1]]
           p == route.product
           item == Item(in, g)
           subject == <<"segment", item.id>>
           chosen == IF item.option = None THEN route.option ELSE item.option
           options == { o \in in.products[p].options : o.id = chosen /\ o.active /\ o.orderable }
           option == CHOOSE o \in options : TRUE
           rule == in.rules[option.rule]
           event == SectionEvent(in, route, item, option)
           compatible == IfCompatible(in, "straightSection", p, subject, event)
           refused == Unresolved(in, {Warning("UNRESOLVED_SECTION_SUPPLY_OPTION", subject)})
           out == SectionDemand(in, g)
<1>1. out = IF options = {} THEN refused
            ELSE IF rule.type = "supplyOption" /\ rule.product = p /\ rule.option = option.id
            THEN compatible
            ELSE Throws("SEMANTIC_INPUT_INVALID")
  BY Zenon DEF SectionDemand
<1>2. g \in Items(in) /\ item.length \in Positives /\ p \in Products(in)
  BY ItemFacts, RouteFacts DEF Segments
<1>3. options # {} => option.length \in {3000, 6000}
  <2>1. \A o \in in.products[p].options : o.length \in {3000, 6000}
    BY <1>2, OptionLengths
  <2>2. options # {} => option \in options
    <3> HIDE DEF options
    <3> QED
      BY Zenon
  <2>3. options \subseteq in.products[p].options
    OBVIOUS
  <2> HIDE DEF option, options
  <2> QED
    BY <2>1, <2>2, <2>3
<1>4. OutSound(in, refused) /\ OutSound(in, Throws("SEMANTIC_INPUT_INVALID"))
  BY NothingIsSound
<1>5. SectionsCounted(refused.events) /\ SectionsCounted(Throws("SEMANTIC_INPUT_INVALID").events)
  BY OutParts DEF SectionsCounted, Unresolved, Throws
<1>6. options # {} => OutSound(in, compatible) /\ SectionsCounted(compatible.events)
  <2> SUFFICES ASSUME options # {} PROVE OutSound(in, compatible) /\ SectionsCounted(compatible.events)
    OBVIOUS
  <2>1. Original(in, event) /\ \E n \in Nat \ {0} : event.count = Whole(n)
    <3> HIDE DEF route, item, option, options
    <3> QED
      BY <1>2, <1>3, SectionEventSound
  <2> HIDE DEF event, subject, p, options
  <2>2. OutSound(in, compatible) /\ compatible.events \subseteq {event}
    BY <2>1, CompatibleSound
  <2> QED
    BY <2>1, <2>2 DEF SectionsCounted
<1> HIDE DEF options, refused, out, compatible, rule, option
<1>7. OutSound(in, out) /\ SectionsCounted(out.events)
  BY <1>1, <1>4, <1>5, <1>6, Zenon
<1> QED
  BY <1>7 DEF out

LEMMA SectionsSound ==
  ASSUME NEW in, InputAccepted(in)
  PROVE  OutSound(in, SectionDemands(in)) /\ SectionsCounted(SectionDemands(in).events)
<1> DEFINE S == Segments(in)
           f == [g \in S |-> SectionDemand(in, g)]
           R == { q \in Routes(in) : in.products[in.routes[q].product].unit = "kg" }
           A == { SectionDemand(in, g) : g \in S }
           B == { Throws("SEMANTIC_INPUT_INVALID") : r \in R }
<1>1. SectionDemands(in) = All(A \cup B)
  BY Zenon DEF SectionDemands
<1>2. IsFiniteSet(A)
  <2>1. IsFiniteSet(S)
    BY ItemFacts, FS_Subset DEF Segments
  <2>2. IsFiniteSet({ f[g] : g \in S })
    BY <2>1, ImageIsFinite
  <2>3. A = { f[g] : g \in S }
    OBVIOUS
  <2> QED
    BY <2>2, <2>3
<1>3. IsFiniteSet(B)
  <2>1. B \in SUBSET {Throws("SEMANTIC_INPUT_INVALID")}
    OBVIOUS
  <2>2. IsFiniteSet({Throws("SEMANTIC_INPUT_INVALID")})
    BY FS_Singleton
  <2> HIDE DEF B
  <2> QED
    BY <2>1, <2>2, FS_Subset
<1>4. \A out \in A \cup B : OutSound(in, out) /\ SectionsCounted(out.events)
  <2>1. \A out \in A : OutSound(in, out) /\ SectionsCounted(out.events)
    BY SectionSound
  <2>2. SectionsCounted(Throws("SEMANTIC_INPUT_INVALID").events)
    BY OutParts DEF SectionsCounted, Throws
  <2>3. \A out \in B : OutSound(in, out) /\ SectionsCounted(out.events)
    BY <2>2, NothingIsSound
  <2> QED
    BY <2>1, <2>3
<1> HIDE DEF A, B
<1>5. IsFiniteSet(A \cup B)
  BY <1>2, <1>3, FS_Union
<1>6. OutSound(in, All(A \cup B))
  BY <1>4, <1>5, AllSound
<1>7. All(A \cup B).events = UNION { o.events : o \in A \cup B }
  BY OutParts DEF All
<1>8. SectionsCounted(All(A \cup B).events)
  BY <1>4, <1>7 DEF SectionsCounted
<1> QED
  BY <1>1, <1>6, <1>8

LEMMA JointSound ==
  ASSUME NEW in, InputAccepted(in), NEW emitted, SectionsCounted(emitted),
         emitted = SectionDemands(in).events,
         NEW run \in StraightRuns(in, SegmentsOf(in, emitted))
  PROVE  OutSound(in, JointDemand(in, emitted, run))
<1> DEFINE count == RunSections(in, emitted, run)
           subject == <<"straightRun", { Item(in, g).id : g \in run }>>
           matching == MatchingJoints(in, emitted, run)
           rule == CHOOSE q \in matching : TRUE
           quantity == Multiply(Subtract(count, One), Whole(in.rules[rule].quantity))
           demand == CountDemand(in, in.rules[rule].product, "connector", "connection", subject,
                                 quantity, in.rules[rule].confidence, rule)
           refused == Unresolved(in, {Warning("UNRESOLVED_JOINT_PRODUCT", subject)})
           out == JointDemand(in, emitted, run)
<1>1. out = IF Leq(count, One) THEN Emits({}) ELSE IF Cardinality(matching) # 1 THEN refused ELSE demand
  BY Zenon DEF JointDemand, MatchingJoints
<1>2. OutSound(in, Emits({})) /\ OutSound(in, refused)
  BY NothingIsSound
<1>3. ASSUME ~Leq(count, One), Cardinality(matching) = 1 PROVE OutSound(in, demand)
  <2>1. rule \in matching
    <3> HIDE DEF matching
    <3>1. matching # {}
      BY <1>3, FS_EmptySet
    <3> QED
      BY <3>1, Zenon
  <2>2. rule \in DOMAIN in.rules /\ in.rules[rule].type = "internalJoint"
    <3> HIDE DEF rule
    <3> QED
      BY <2>1 DEF MatchingJoints
  <2>9. matching = {rule}
    <3> HIDE DEF matching, rule
    <3>1. IsFiniteSet(DOMAIN in.rules)
      BY Zenon DEF InputAccepted, RulesAccepted, Collection
    <3>2. matching \in SUBSET DOMAIN in.rules
      BY DEF matching, MatchingJoints
    <3>3. IsFiniteSet(matching)
      BY <3>1, <3>2, FS_Subset
    <3>4. PICK x : matching = {x}
      BY <1>3, <3>3, FS_Singleton
    <3> QED
      BY <2>1, <3>4
  <2>10. FromTopology(in, JointEvent(in, emitted, run, rule))
    <3>1. PICK e : e = JointEvent(in, emitted, run, rule)
      OBVIOUS
    <3>2. OfRun(in, emitted, e)
      <4> HIDE DEF rule
      <4> QED
        BY <1>3, <2>2, <2>9, <3>1, Zenon DEF OfRun
    <3>3. e.from[2][1] = "straightRun" /\ e.category = "connector"
      <4>1. /\ JointEvent(in, emitted, run, rule).from[2][1] = "straightRun"
            /\ JointEvent(in, emitted, run, rule).category = "connector"
        <5> HIDE DEF rule
        <5> QED
          BY JointEventFits
      <4> QED
        BY <3>1, <4>1, Zenon
    <3> QED
      BY <3>1, <3>2, <3>3 DEF FromTopology
  <2> HIDE DEF rule, matching
  <2>3. in.rules[rule].quantity \in Nat
    BY <2>2, RuleFacts
  <2>4. PICK n \in Nat \ {0} : count = Whole(n)
    BY RunFits
  <2>5. n - 1 \in Nat /\ 1 \in Nat /\ 1 <= n
    OBVIOUS
  <2>6. Subtract(count, One) = Whole(n - 1)
    BY <2>4, <2>5, WholesAdd DEF One
  <2>7. Subtract(count, One) \in Fractions /\ Whole(in.rules[rule].quantity) \in Fractions
    BY <2>3, <2>5, <2>6, WholeFits
  <2> HIDE DEF count
  <2>8. quantity \in Fractions
    BY <2>7, MultiplyFits
  <2>11. PICK confidence : confidence = in.rules[rule].confidence
    OBVIOUS
  <2>12. PICK p : p = in.rules[rule].product
    OBVIOUS
  <2>13. FromTopology(in, Event(in, <<"connector", subject, p, rule>>, p, "connector", quantity, confidence))
    BY <2>10, <2>11, <2>12, Zenon DEF JointEvent, count
  <2> HIDE DEF quantity, subject
  <2>14. OutSound(in, CountDemand(in, p, "connector", "connection", subject, quantity, confidence, rule))
    BY <2>8, <2>13, CountSound
  <2> QED
    BY <2>11, <2>12, <2>14, Zenon
<1> HIDE DEF demand, refused, out, count, matching
<1>4. OutSound(in, out)
  BY <1>1, <1>2, <1>3, Zenon
<1> QED
  BY <1>4 DEF out

LEMMA JointsSound ==
  ASSUME NEW in, InputAccepted(in), NEW emitted, SectionsCounted(emitted),
         emitted = SectionDemands(in).events
  PROVE  OutSound(in, JointDemands(in, emitted))
<1> DEFINE S == SegmentsOf(in, emitted)
           runs == StraightRuns(in, S)
           f == [run \in runs |-> JointDemand(in, emitted, run)]
           outs == { JointDemand(in, emitted, run) : run \in runs }
<1>1. IsFiniteSet(S)
  <2>1. S \in SUBSET Items(in)
    BY DEF SegmentsOf, Segments
  <2> QED
    BY <2>1, ItemFacts, FS_Subset
<1>2. IsFiniteSet(runs)
  <2>1. IsFiniteSet(SUBSET S)
    BY <1>1, FS_SUBSET
  <2>2. runs \in SUBSET SUBSET S
    BY RunFits
  <2> QED
    BY <2>1, <2>2, FS_Subset
<1>3. IsFiniteSet(outs)
  <2> HIDE DEF runs
  <2>1. IsFiniteSet({ f[run] : run \in runs })
    BY <1>2, ImageIsFinite
  <2>2. outs = { f[run] : run \in runs }
    OBVIOUS
  <2> QED
    BY <2>1, <2>2
<1>4. \A out \in outs : OutSound(in, out)
  BY JointSound
<1>5. JointDemands(in, emitted) = All(outs)
  BY Zenon DEF JointDemands
<1> HIDE DEF outs
<1> QED
  BY <1>3, <1>4, <1>5, AllSound

LEMMA RuleComponentSound ==
  ASSUME NEW in, InputAccepted(in), NEW r \in DOMAIN in.rules,
         in.rules[r].type \in {"fittingConnection", "physicalConnection"},
         NEW p, NEW subject, subject[1] # "straightRun",
         NEW corrections, \A c \in corrections : c.adjusted \in Nat
  PROVE  OutSound(in, RuleComponentDemand(in, r, p, subject, corrections))
<1> DEFINE rule == in.rules[r]
           own == { c \in rule.components : c.product = p }
           quantities == [c \in own |-> Whole(c.quantity * c.sides)]
           original == SumOver(LAMBDA c : Whole(c.quantity * c.sides), own)
           context == IF subject[1] = "fitting" THEN "fitting" ELSE "connection"
           correction == CHOOSE c \in corrections : c.product = p
           warned == Warns({Overridden("MANUAL_QUANTITY_OVERRIDE", subject, correction.id)})
           asked == CountDemand(in, p, "connector", context, subject, original, rule.confidence, r)
           corrected == CountDemand(in, p, "connector", context, subject, Whole(correction.adjusted),
                                    "manual", r)
           out == RuleComponentDemand(in, r, p, subject, corrections)
<1>1. out = IF \A c \in corrections : c.product # p THEN asked
            ELSE IF Whole(correction.original) # original THEN Throws("SEMANTIC_INPUT_INVALID")
            ELSE Both(warned, corrected)
  BY Zenon DEF RuleComponentDemand
<1>2. original = SumOf(quantities)
  BY Zenon DEF SumOver
<1>3. original \in Fractions
  <2>1. own \in SUBSET rule.components
    OBVIOUS
  <2>2. IsFiniteSet(own)
    <3> HIDE DEF own
    <3>1. IsFiniteSet(rule.components)
      BY RuleFacts
    <3> QED
      BY <2>1, <3>1, FS_Subset
  <2>3. ASSUME NEW c \in own PROVE Whole(c.quantity * c.sides) \in Fractions
    <3>1. c.quantity \in Nat \ {0} /\ c.sides \in Nat \ {0}
      BY RuleFacts
    <3>2. PICK a \in Nat, b \in Nat : a = c.quantity /\ b = c.sides
      BY <3>1
    <3>3. a * b \in Nat
      OBVIOUS
    <3> QED
      BY <3>2, <3>3, WholeFits
  <2>4. DOMAIN quantities = own /\ \A c \in own : quantities[c] \in Fractions
    BY <2>3
  <2> HIDE DEF quantities, own, original
  <2> QED
    BY <1>2, <2>2, <2>4, SumFits
<1> HIDE DEF original, context
<1>7. Elsewhere(<<"connector", subject, p, r>>, "connector")
  BY DEF Elsewhere
<1>4. OutSound(in, asked)
  BY <1>3, <1>7, ElsewhereFits, CountSound
<1>5. ASSUME ~(\A c \in corrections : c.product # p) PROVE OutSound(in, Both(warned, corrected))
  <2>1. correction \in corrections
    <3>1. \E c \in corrections : c.product = p
      BY <1>5
    <3> QED
      BY <3>1, Zenon
  <2>2. correction.adjusted \in Nat
    <3> HIDE DEF correction
    <3> QED
      BY <2>1
  <2>3. PICK quantity \in Fractions : quantity = Whole(correction.adjusted)
    BY <2>2, WholeFits
  <2> HIDE DEF correction
  <2>4. OutSound(in, corrected)
    BY <1>7, <2>3, ElsewhereFits, CountSound
  <2>5. OutSound(in, warned)
    BY NothingIsSound
  <2> HIDE DEF corrected, warned
  <2> QED
    BY <2>4, <2>5, BothSound
<1> HIDE DEF asked, corrected, warned, out
<1>6. OutSound(in, out)
  BY <1>1, <1>4, <1>5, NothingIsSound, Zenon
<1> QED
  BY <1>6 DEF out

LEMMA RuleSound ==
  ASSUME NEW in, InputAccepted(in), NEW r \in DOMAIN in.rules,
         in.rules[r].type \in {"fittingConnection", "physicalConnection"},
         NEW subject, subject[1] # "straightRun",
         NEW corrections, \A c \in corrections : c.adjusted \in Nat
  PROVE  OutSound(in, RuleDemand(in, r, subject, corrections))
<1> DEFINE C == in.rules[r].components
           P == { c.product : c \in C }
           product == [c \in C |-> c.product]
           demand == [p \in P |-> RuleComponentDemand(in, r, p, subject, corrections)]
           outs == { RuleComponentDemand(in, r, p, subject, corrections) : p \in P }
<1>1. IsFiniteSet(P)
  <2>1. IsFiniteSet(C)
    BY RuleFacts
  <2>2. IsFiniteSet({ product[c] : c \in C })
    BY <2>1, ImageIsFinite
  <2>3. P = { product[c] : c \in C }
    OBVIOUS
  <2> QED
    BY <2>2, <2>3
<1>2. RuleDemand(in, r, subject, corrections) = All(outs)
  BY Zenon DEF RuleDemand
<1> HIDE DEF P
<1>3. IsFiniteSet(outs)
  <2>1. IsFiniteSet({ demand[p] : p \in P })
    BY <1>1, ImageIsFinite
  <2>2. outs = { demand[p] : p \in P }
    OBVIOUS
  <2> QED
    BY <2>1, <2>2
<1>4. \A out \in outs : OutSound(in, out)
  BY RuleComponentSound
<1> HIDE DEF outs
<1> QED
  BY <1>2, <1>3, <1>4, AllSound

LEMMA FittingSound ==
  ASSUME NEW in, InputAccepted(in), NEW g \in Fittings(in)
  PROVE  OutSound(in, FittingDemand(in, g))
<1> DEFINE item == Item(in, g)
           subject == <<"fitting", item.id>>
           r == item.connectionRule
           body == CountDemand(in, item.product, "fitting", "fitting", subject, One, "catalogConfirmed", None)
           first == IF item.product = None THEN Emits({}) ELSE body
           refused == Unresolved(in, {Warning("UNRESOLVED_FITTING_CONNECTION", subject)})
           joined == RuleDemand(in, r, subject, {})
           second == IF r = None THEN refused
                     ELSE IF in.rules[r].type = "fittingConnection" /\ in.rules[r].owner = item.id
                     THEN joined ELSE Throws("SEMANTIC_INPUT_INVALID")
           out == FittingDemand(in, g)
<1>1. out = Both(first, second)
  BY Zenon DEF FittingDemand
<1>2. r = None \/ IsRule(in, r, "fittingConnection")
  BY ItemFacts DEF Fittings, Segments
<1>3. OutSound(in, Emits({})) /\ OutSound(in, refused) /\ OutSound(in, Throws("SEMANTIC_INPUT_INVALID"))
  BY NothingIsSound
<1>8. subject[1] = "fitting"
  OBVIOUS
<1> HIDE DEF item, subject
<1>4. OutSound(in, body)
  <2>1. One \in Fractions
    BY WholeFits DEF One
  <2>2. PICK p : p = item.product
    OBVIOUS
  <2>3. Elsewhere(<<"fitting", subject, p, None>>, "fitting")
    BY <1>8 DEF Elsewhere
  <2> QED
    BY <2>1, <2>2, <2>3, ElsewhereFits, CountSound
<1>5. r # None => OutSound(in, joined)
  <2> HIDE DEF r
  <2>1. r # None => r \in DOMAIN in.rules /\ in.rules[r].type \in {"fittingConnection", "physicalConnection"}
    BY <1>2 DEF IsRule
  <2>2. \A c \in {} : c.adjusted \in Nat
    OBVIOUS
  <2> QED
    BY <1>8, <2>1, <2>2, RuleSound
<1> HIDE DEF body, refused, joined, r, out
<1>6. OutSound(in, first) /\ OutSound(in, second)
  BY <1>3, <1>4, <1>5
<1> HIDE DEF first, second
<1>7. OutSound(in, out)
  BY <1>1, <1>6, BothSound
<1> QED
  BY <1>7 DEF out

LEMMA ConnectionSound ==
  ASSUME NEW in, InputAccepted(in), NEW c \in in.connections
  PROVE  OutSound(in, ConnectionDemand(in, c))
<1> DEFINE subject == <<"connection", c.id>>
           r == c.rule
           refused == Unresolved(in, {Warning("UNRESOLVED_FITTING_CONNECTION", subject)})
           joined == RuleDemand(in, r, subject, c.corrections)
           out == ConnectionDemand(in, c)
<1>1. out = IF c.type = "logicalContinuation" THEN Emits({})
            ELSE IF r = None THEN refused
            ELSE IF in.rules[r].type = "physicalConnection" /\ in.rules[r].owner = c.id
            THEN joined ELSE Throws("SEMANTIC_INPUT_INVALID")
  BY Zenon DEF ConnectionDemand
<1>2. ConnectionAccepted(in, c)
  BY Zenon DEF InputAccepted, ConnectionsAccepted, Collection
<1>3. r # None => IsRule(in, r, "physicalConnection")
  BY <1>2, Zenon DEF ConnectionAccepted, Optional
<1>4. \A k \in c.corrections : k.adjusted \in Nat
  <2>1. \A k \in c.corrections : {k.original, k.adjusted} \subseteq Nat
    BY <1>2, Zenon DEF ConnectionAccepted, Collection
  <2> QED
    BY <2>1
<1>5. OutSound(in, Emits({})) /\ OutSound(in, refused) /\ OutSound(in, Throws("SEMANTIC_INPUT_INVALID"))
  BY NothingIsSound
<1>6. r # None => OutSound(in, joined)
  <2>2. subject[1] # "straightRun"
    OBVIOUS
  <2> HIDE DEF r, subject
  <2>1. r # None => r \in DOMAIN in.rules /\ in.rules[r].type \in {"fittingConnection", "physicalConnection"}
    BY <1>3 DEF IsRule
  <2> QED
    BY <1>4, <2>1, <2>2, RuleSound
<1> HIDE DEF refused, joined, r, out
<1>7. OutSound(in, out)
  BY <1>1, <1>5, <1>6
<1> QED
  BY <1>7 DEF out

LEMMA FittingsSound ==
  ASSUME NEW in, InputAccepted(in)
  PROVE  OutSound(in, FittingDemands(in))
<1> DEFINE F == Fittings(in)
           C == in.connections
           f == [g \in F |-> FittingDemand(in, g)]
           h == [c \in C |-> ConnectionDemand(in, c)]
           A == { FittingDemand(in, g) : g \in F }
           B == { ConnectionDemand(in, c) : c \in C }
<1>1. FittingDemands(in) = All(A \cup B)
  BY Zenon DEF FittingDemands
<1>2. IsFiniteSet(F) /\ IsFiniteSet(C)
  <2>1. F \in SUBSET Items(in)
    BY DEF Fittings
  <2>2. IsFiniteSet(C)
    BY Zenon DEF InputAccepted, ConnectionsAccepted, Collection
  <2> QED
    BY <2>1, <2>2, ItemFacts, FS_Subset
<1>3. IsFiniteSet({ f[g] : g \in F }) /\ IsFiniteSet({ h[c] : c \in C })
  BY <1>2, ImageIsFinite
<1>4. A = { f[g] : g \in F } /\ B = { h[c] : c \in C }
  OBVIOUS
<1>5. \A out \in A \cup B : OutSound(in, out)
  BY FittingSound, ConnectionSound
<1> HIDE DEF A, B
<1>6. IsFiniteSet(A \cup B)
  BY <1>3, <1>4, FS_Union
<1> QED
  BY <1>1, <1>5, <1>6, AllSound

LEMMA EndpointSound ==
  ASSUME NEW in, InputAccepted(in), NEW end \in Ends(in)
  PROVE  OutSound(in, EndpointDemand(in, end))
<1> DEFINE subject == <<"endpoint", end.id>>
           rule == in.rules[end.rule]
           refused == Unresolved(in, {Warning("UNRESOLVED_ENDPOINT_MATERIAL", subject)})
           demand == CountDemand(in, rule.product, "endpointMaterial", "endpoint", subject,
                                 Whole(rule.quantity), rule.confidence, end.rule)
           out == EndpointDemand(in, end)
<1>1. out = IF ~OwnsMaterial(end) THEN Emits({})
            ELSE IF end.rule = None THEN refused
            ELSE IF rule.type = "endpointMaterial" /\ rule.owner = end.id
            THEN demand ELSE Throws("SEMANTIC_INPUT_INVALID")
  BY Zenon DEF EndpointDemand
<1>2. end.rule # None => IsRule(in, end.rule, "endpointMaterial")
  BY Zenon DEF InputAccepted, EndsAccepted, Optional
<1>3. OutSound(in, Emits({})) /\ OutSound(in, refused) /\ OutSound(in, Throws("SEMANTIC_INPUT_INVALID"))
  BY NothingIsSound
<1>4. end.rule # None => OutSound(in, demand)
  <2>1. end.rule # None => end.rule \in DOMAIN in.rules /\ rule.type = "endpointMaterial"
    BY <1>2 DEF IsRule
  <2>2. end.rule # None => rule.quantity \in Nat
    BY <2>1, RuleFacts
  <2>4. PICK p : p = rule.product
    OBVIOUS
  <2>5. Elsewhere(<<"endpointMaterial", subject, p, end.rule>>, "endpointMaterial")
    BY DEF Elsewhere
  <2> HIDE DEF rule, subject
  <2>3. end.rule # None => Whole(rule.quantity) \in Fractions
    BY <2>2, WholeFits
  <2> QED
    BY <2>3, <2>4, <2>5, ElsewhereFits, CountSound
<1> HIDE DEF refused, demand, out, rule
<1>5. OutSound(in, out)
  BY <1>1, <1>3, <1>4
<1> QED
  BY <1>5 DEF out

LEMMA EndpointsSound ==
  ASSUME NEW in, InputAccepted(in)
  PROVE  OutSound(in, EndpointDemands(in))
<1> DEFINE E == Ends(in)
           X == Routes(in) \X (1..2)
           C == in.accessories
           ends == [x \in X |-> in.routes[x[1]].ends[x[2]]]
           f == [end \in E |-> EndpointDemand(in, end)]
           h == [p \in C |-> AccessoryDemand(in, p)]
           A == { EndpointDemand(in, end) : end \in E }
           B == { AccessoryDemand(in, p) : p \in C }
<1>1. EndpointDemands(in) = All(A \cup B)
  BY Zenon DEF EndpointDemands
<1>2. IsFiniteSet(E)
  <2>1. IsFiniteSet(X)
    <3>1. 1 \in Int /\ 2 \in Int
      OBVIOUS
    <3>2. IsFiniteSet(1..2)
      BY <3>1, FS_Interval, Zenon
    <3> QED
      BY <3>2, RouteFacts, FS_Product
  <2>2. E = { ends[x] : x \in X }
    <3>1. \A end : end \in E <=> \E r \in Routes(in), i \in 1..2 : end = in.routes[r].ends[i]
      BY DEF Ends
    <3>2. \A r \in Routes(in), i \in 1..2 : <<r, i>> \in X /\ ends[<<r, i>>] = in.routes[r].ends[i]
      OBVIOUS
    <3>3. \A x \in X : \E r \in Routes(in), i \in 1..2 : x = <<r, i>>
      OBVIOUS
    <3> HIDE DEF E, X, ends
    <3>4. ASSUME NEW x \in X PROVE ends[x] \in E
      <4>1. PICK r \in Routes(in), i \in 1..2 : x = <<r, i>>
        BY <3>3
      <4>2. ends[x] = in.routes[r].ends[i]
        BY <3>2, <4>1
      <4> QED
        BY <3>1, <4>2
    <3>5. ASSUME NEW end \in E PROVE \E x \in X : end = ends[x]
      <4>1. PICK r \in Routes(in), i \in 1..2 : end = in.routes[r].ends[i]
        BY <3>1
      <4>2. <<r, i>> \in X /\ ends[<<r, i>>] = end
        BY <3>2, <4>1
      <4> QED
        BY <4>2
    <3> QED
      BY <3>4, <3>5
  <2> HIDE DEF X, ends
  <2> QED
    BY <2>1, <2>2, ImageIsFinite
<1>3. IsFiniteSet(C)
  BY DEF InputAccepted
<1>4. IsFiniteSet({ f[end] : end \in E }) /\ IsFiniteSet({ h[p] : p \in C })
  BY <1>2, <1>3, ImageIsFinite
<1>5. A = { f[end] : end \in E } /\ B = { h[p] : p \in C }
  OBVIOUS
<1>6. \A out \in A \cup B : OutSound(in, out)
  <2>1. One \in Fractions
    BY WholeFits DEF One
  <2>2. ASSUME NEW p \in C PROVE OutSound(in, AccessoryDemand(in, p))
    <3>1. in.project[1] = "project"
      BY DEF InputAccepted
    <3>2. Elsewhere(<<"accessory", in.project, p, None>>, "accessory")
      BY <3>1 DEF Elsewhere
    <3> QED
      BY <2>1, <3>2, ElsewhereFits, CountSound DEF AccessoryDemand
  <2> QED
    BY <2>2, EndpointSound
<1> HIDE DEF A, B
<1>7. IsFiniteSet(A \cup B)
  BY <1>4, <1>5, FS_Union
<1> QED
  BY <1>1, <1>6, <1>7, AllSound

LEMMA ManualSound ==
  ASSUME NEW in, InputAccepted(in), NEW m \in in.manualItems
  PROVE  OutSound(in, ManualDemand(in, m))
<1> DEFINE subject == <<"manualInput", m.id>>
           policies == Policies(in, m.product, m.id, m.reserve, m.packaging)
           quantity == IF m.override = None THEN m.quantity ELSE m.adjusted
           event == [ from |-> <<"manual", subject, m.product, None>>, product |-> m.product,
                      manual |-> m.id, category |-> "manual", quantity |-> quantity, unit |-> m.unit,
                      option |-> None, length |-> Zero, count |-> Zero,
                      reserve |-> policies.reserve, packaging |-> policies.packaging,
                      boundary |-> <<m.id, policies.boundary>>, status |-> "manual",
                      eligible |-> FALSE, traced |-> quantity ]
           demand == IF m.product = None THEN Emits({event})
                     ELSE IfCompatible(in, "manualCatalog", m.product, subject, event)
           warned == { Overridden("MANUAL_PACKAGE_OVERRIDE", subject, w[3])
                         : w \in { x \in {policies.packaging} : x[1] = "incrementOverride" } }
                     \cup { Overridden("MANUAL_QUANTITY_OVERRIDE", subject, w[3])
                         : w \in { x \in {policies.reserve} : x[1] # "projectDefault" } }
                     \cup { Overridden("MANUAL_QUANTITY_OVERRIDE", subject, w)
                         : w \in {m.override} \ {None} }
           others == IF demand.events = {} THEN Emits({}) ELSE Warns(warned)
           out == ManualDemand(in, m)
<1>1. out = IF m.product # None /\ (~m.named \/ in.products[m.product].unit # m.unit)
            THEN Throws("SEMANTIC_INPUT_INVALID")
            ELSE IF Cardinality(MatchingPolicies(in, m.product, m.id)) > 1 /\ demand.failures = {}
                    /\ demand.events # {}
            THEN Throws("AMBIGUOUS_LINE_POLICY")
            ELSE Both(demand, others)
  BY Zenon DEF ManualDemand
<1>2. ManualItemAccepted(in, m)
  BY Zenon DEF InputAccepted, ManualItemsAccepted, Collection
<1>3. quantity \in Fractions
  <2>1. m.quantity \in Positives /\ m.adjusted \in Fractions
    BY <1>2, Zenon DEF ManualItemAccepted
  <2> QED
    BY <2>1, FractionTypes
<1>4. ReserveAccepted(policies.reserve) /\ PackagingAccepted(policies.packaging)
  <2>1. ReserveAccepted(m.reserve) /\ PackagingAccepted(m.packaging)
    BY <1>2, Zenon DEF ManualItemAccepted
  <2> QED
    BY <2>1, PoliciesFit
<1>5. m.product = None \/ m.product \in Products(in)
  BY <1>2, Zenon DEF ManualItemAccepted, Optional
<1> HIDE DEF policies, quantity, subject
<1>6. /\ DOMAIN event = Fields
      /\ event.product = m.product /\ event.quantity = quantity /\ event.traced = quantity
      /\ event.length = Zero /\ event.count = Zero /\ event.eligible = FALSE
      /\ event.reserve = policies.reserve /\ event.packaging = policies.packaging
      /\ Elsewhere(event.from, event.category)
  BY DEF Fields, Elsewhere, subject
<1>7. Zero \in Fractions /\ Zero \in StockLengths
  BY WholeFits DEF Zero, StockLengths
<1> HIDE DEF event
<1>8. Original(in, event)
  BY <1>3, <1>4, <1>5, <1>6, <1>7 DEF Original, OfTemplate, Sound, Ruled, Measured, FromTopology
<1>9. OutSound(in, demand)
  BY <1>8, EmitsSound, CompatibleSound
<1>10. OutSound(in, others)
  BY NothingIsSound
<1> HIDE DEF demand, others, out
<1>11. OutSound(in, Both(demand, others))
  BY <1>9, <1>10, BothSound
<1>12. OutSound(in, out)
  BY <1>1, <1>11, NothingIsSound, Zenon
<1> QED
  BY <1>12 DEF out

LEMMA ManualsSound ==
  ASSUME NEW in, InputAccepted(in)
  PROVE  OutSound(in, ManualDemands(in))
<1> DEFINE S == in.manualItems
           f == [m \in S |-> ManualDemand(in, m)]
           outs == { ManualDemand(in, m) : m \in S }
<1>1. IsFiniteSet(S)
  BY Zenon DEF InputAccepted, ManualItemsAccepted, Collection
<1>2. IsFiniteSet({ f[m] : m \in S })
  BY <1>1, ImageIsFinite
<1>3. outs = { f[m] : m \in S }
  OBVIOUS
<1>4. \A out \in outs : OutSound(in, out)
  BY ManualSound
<1>5. ManualDemands(in) = All(outs)
  BY Zenon DEF ManualDemands
<1> HIDE DEF outs
<1> QED
  BY <1>2, <1>3, <1>4, <1>5, AllSound

LEMMA SupportCountSound ==
  ASSUME NEW in, InputAccepted(in), NEW group \in SupportGroups(in)
  PROVE  OutSound(in, SupportCountOut(in, group))
<1> DEFINE F == GroupFittings(in, group)
           R == { q \in group : in.routes[q].supports.extra > 0 }
           Resolved(g) == LET rule == in.rules[Item(in, g).supportRule]
                          IN rule.type = "fittingAdditionalSupport" /\ rule.owner = Item(in, g).id
           Counted(g) == IF Item(in, g).supportRule = None
                         THEN Warns({Warning("FITTING_ADDITIONAL_SUPPORT_UNRESOLVED", <<"fitting", Item(in, g).id>>)})
                         ELSE IF Resolved(g) THEN Emits({}) ELSE Throws("SEMANTIC_INPUT_INVALID")
           Extra(r) == Warns({Overridden("MANUAL_EXTRA_SUPPORT", <<"manualSupport", r>>, r)})
           A == { Counted(g) : g \in F }
           B == { Extra(r) : r \in R }
           f == [g \in F |-> Counted(g)]
           h == [r \in R |-> Extra(r)]
<1>1. SupportCountOut(in, group) = All(A \cup B)
  BY Zenon DEF SupportCountOut
<1>2. \A g : OutSound(in, Counted(g))
  <2> TAKE g
  <2>1. OutSound(in, Warns({Warning("FITTING_ADDITIONAL_SUPPORT_UNRESOLVED", <<"fitting", Item(in, g).id>>)}))
    BY NothingIsSound
  <2>2. OutSound(in, Emits({})) /\ OutSound(in, Throws("SEMANTIC_INPUT_INVALID"))
    BY NothingIsSound
  <2> HIDE DEF Resolved
  <2> QED
    BY <2>1, <2>2, Zenon
<1>3. \A r : OutSound(in, Extra(r))
  BY NothingIsSound
<1> HIDE DEF Counted, Extra
<1>4. IsFiniteSet(F) /\ IsFiniteSet(R)
  <2>1. F \in SUBSET Items(in)
    BY DEF GroupFittings, Fittings
  <2>2. R \in SUBSET group /\ IsFiniteSet(group)
    BY GroupFits
  <2> HIDE DEF F, R
  <2> QED
    BY <2>1, <2>2, ItemFacts, FS_Subset
<1> HIDE DEF F, R
<1>5. IsFiniteSet({ f[g] : g \in F }) /\ IsFiniteSet({ h[r] : r \in R })
  BY <1>4, ImageIsFinite
<1>6. A = { f[g] : g \in F } /\ B = { h[r] : r \in R }
  OBVIOUS
<1>7. \A out \in A \cup B : OutSound(in, out)
  BY <1>2, <1>3
<1> HIDE DEF A, B, f, h
<1>8. IsFiniteSet(A \cup B)
  BY <1>5, <1>6, FS_Union
<1> QED
  BY <1>1, <1>7, <1>8, AllSound

LEMMA GroupDemandSound ==
  ASSUME NEW in, InputAccepted(in), NEW group, NEW p \in Products(in), NEW context, NEW category,
         NEW quantity \in Fractions, NEW status, NEW source,
         FromTopology(in, Event(in, <<category, GroupSubject(group), p, source>>, p, category, quantity, status))
  PROVE  LET out == GroupDemand(in, group, p, context, category, quantity, status, source)
         IN /\ OutSound(in, out)
            /\ \A e, d \in out.events : e = d
            /\ \A e \in out.events :
                 e.length = Zero /\ e.from = <<category, GroupSubject(group), p, source>> /\ e.category = category
<1>1. PICK event : event = Event(in, <<category, GroupSubject(group), p, source>>, p, category, quantity, status)
  OBVIOUS
<1>2. PICK out : out = GroupDemand(in, group, p, context, category, quantity, status, source)
  OBVIOUS
<1>3. PICK subject : subject = GroupSubject(group)
  OBVIOUS
<1>4. out = IfCompatible(in, context, p, subject, event)
  BY <1>1, <1>2, <1>3, Zenon DEF GroupDemand
<1>5. Original(in, event)
  BY <1>1, EventSound
<1>6. event.length = Zero /\ event.from = <<category, GroupSubject(group), p, source>> /\ event.category = category
  BY <1>1 DEF Event
<1>7. OutSound(in, out) /\ out.events \subseteq {event}
  BY <1>4, <1>5, CompatibleSound
<1> QED
  BY <1>2, <1>6, <1>7

\* What a group demands besides its supports.
LEMMA GroupPartSound ==
  ASSUME NEW in, InputAccepted(in), NEW group, NEW p \in Products(in), NEW context, NEW category,
         NEW quantity \in Fractions, NEW status, NEW source, category = "support" => source # None
  PROVE  LET out == GroupDemand(in, group, p, context, category, quantity, status, source)
         IN /\ OutSound(in, out)
            /\ \A e, d \in out.events : e = d
            /\ \A e \in out.events :
                 e.length = Zero /\ e.from = <<category, GroupSubject(group), p, source>> /\ e.category = category
<1>1. Elsewhere(<<category, GroupSubject(group), p, source>>, category)
  BY DEF Elsewhere, GroupSubject
<1>2. FromTopology(in, Event(in, <<category, GroupSubject(group), p, source>>, p, category, quantity, status))
  BY <1>1, ElsewhereFits
<1> QED
  BY <1>2, GroupDemandSound

LEMMA ComponentSound ==
  ASSUME NEW in, InputAccepted(in), NEW group \in SupportGroups(in),
         NEW supports \in Positives, supports = SupportCount(in, group),
         NEW t \in DOMAIN in.templates, t = Configuration(in, group).template,
         NEW c \in in.templates[t].components
  PROVE  OutSound(in, ComponentDemand(in, group, in.templates[t], c, supports))
<1> DEFINE template == in.templates[t]
           s == Configuration(in, group)
           subject == <<"templateComponent", c.id>>
           p == c.product
           category == ComponentCategory(c)
           quantities == ComponentQuantities(in, group, c, supports)
           quantity == CHOOSE q \in quantities : TRUE
           status == IF template.review THEN "engineeringReview" ELSE "calculated"
           demand == GroupDemand(in, group, p, category, category, quantity, status, c.id)
           manual == IF c.mode = "manual"
                     THEN {Overridden("MANUAL_QUANTITY_OVERRIDE", subject, c.id)} ELSE {}
           refused == Warns({Warning("TEMPLATE_COMPONENT_MANUAL_VALUE_REQUIRED", subject)})
           marked == { [e EXCEPT !.eligible = c.suppress] : e \in demand.events }
           emitted == Out(marked, demand.warnings \cup manual, demand.failures)
           out == ComponentDemand(in, group, template, c, supports)
<1>1. out = IF Dedicated(s, c) THEN Emits({})
            ELSE IF p \in DOMAIN in.products
            THEN IF c.unit # in.products[p].unit THEN Throws("SEMANTIC_INPUT_INVALID")
                 ELSE IF quantities = {} THEN refused ELSE emitted
            ELSE Throws("INTERNAL_INVARIANT_FAILED")
  BY Zenon DEF ComponentDemand, WithKnown
<1>2. \A q \in quantities : q \in Positives
  <2>1. s.levels \in Nat /\ \A v \in s.manualValues : v.quantity \in Positives
    BY GroupFits, ConfigurationFacts
  <2>2. c.quantity \in Positives /\ c.mode \in {"fixed", "perSupport", "perLevel", "manual"}
    BY TemplateFacts
  <2>3. Multiply(c.quantity, supports) \in Positives
    BY <2>2, MultiplyFits, FractionTypes
  <2>4. s.levels # 0 => Multiply(c.quantity, Whole(s.levels)) \in Positives
    BY <2>1, <2>2, WholeFits, MultiplyFits, FractionTypes
  <2>5. \A q \in ManualQuantities(s, c) : q \in Positives
    BY <2>1 DEF ManualQuantities
  <2>6. quantities = CASE c.mode = "fixed" -> {c.quantity}
                       [] c.mode = "perSupport" -> {Multiply(c.quantity, supports)}
                       [] c.mode = "perLevel" ->
                            IF s.levels = 0 THEN {} ELSE {Multiply(c.quantity, Whole(s.levels))}
                       [] c.mode = "manual" -> ManualQuantities(s, c)
    BY Zenon DEF ComponentQuantities
  <2> HIDE DEF quantities, s
  <2> QED
    BY <2>2, <2>3, <2>4, <2>5, <2>6
<1> HIDE DEF quantities
<1>3. quantities # {} => quantity \in Fractions
  <2>1. quantities # {} => quantity \in quantities
    BY Zenon
  <2> QED
    BY <1>2, <2>1, FractionTypes
<1>4. \A from : from[2] = GroupSubject(group) /\ from[4] = c.id => RowDemand(in, from) = out.events
  <2> TAKE from
  <2> SUFFICES ASSUME from[2] = GroupSubject(group), from[4] = c.id PROVE RowDemand(in, from) = out.events
    OBVIOUS
  <2>1. from[2][2] = group
    BY DEF GroupSubject
  <2>2. Distinct(in.templates[t].components, LAMBDA k : k.id)
    BY Zenon DEF InputAccepted, TemplatesAccepted
  <2>3. \A a, b \in in.templates[t].components : a.id = b.id => a = b
    BY <2>2, Zenon DEF Distinct
  <2>4. (CHOOSE k \in in.templates[t].components : k.id = from[4]) = c
    BY <2>3
  <2> QED
    BY <2>1, <2>4, Zenon DEF RowDemand
<1> HIDE DEF quantity, category, status, p, out, refused, template
<1>5. ASSUME p \in DOMAIN in.products, quantities # {}, out = emitted PROVE OutSound(in, emitted)
  <2>1. /\ OutSound(in, demand)
        /\ \A e, d \in demand.events : e = d
        /\ \A e \in demand.events :
             e.length = Zero /\ e.from = <<category, GroupSubject(group), p, c.id>> /\ e.category = category
    <3>1. c.id # None
      BY TemplateFacts
    <3> QED
      BY <1>3, <1>5, <3>1, GroupPartSound DEF Products
  <2> HIDE DEF demand
  <2> DEFINE f == [e \in demand.events |-> [e EXCEPT !.eligible = c.suppress]]
  <2>2. IsFiniteSet(marked)
    <3>1. IsFiniteSet({ f[e] : e \in demand.events })
      <4>1. IsFiniteSet(demand.events)
        BY <2>1 DEF OutSound
      <4> HIDE DEF f
      <4> QED
        BY <4>1, ImageIsFinite
    <3>2. marked = { f[e] : e \in demand.events }
      OBVIOUS
    <3> QED
      BY <3>1, <3>2
  <2>3. emitted.events = marked /\ emitted.failures = demand.failures
    BY OutParts
  <2>4. ASSUME NEW e \in demand.events PROVE Original(in, [e EXCEPT !.eligible = c.suppress])
    <3>1. Sound(in, e) /\ e.length = Zero /\ e.from = <<category, GroupSubject(group), p, c.id>>
      BY <2>1 DEF OutSound, Original
    <3>2. PICK x : x = [e EXCEPT !.eligible = c.suppress]
      OBVIOUS
    <3>3. DOMAIN e = Fields
      BY <3>1 DEF Sound
    <3>4. /\ DOMAIN x = Fields
          /\ x.from = e.from /\ x.product = e.product /\ x.reserve = e.reserve /\ x.packaging = e.packaging
          /\ x.quantity = e.quantity /\ x.traced = e.traced /\ x.unit = e.unit
          /\ x.length = e.length /\ x.count = e.count /\ x.category = e.category
      BY <3>2, <3>3 DEF Fields
    <3>5. Sound(in, x)
      BY <3>1, <3>4 DEF Sound, Ruled, Measured
    <3>6. x.from[2] = GroupSubject(group) /\ x.from[4] = c.id
      BY <3>1, <3>4
    <3>7. marked = {x}
      <4>1. demand.events = {e}
        BY <2>1
      <4> QED
        BY <3>2, <4>1
    <3>8. RowDemand(in, x.from) = {x}
      BY <1>4, <1>5, <2>3, <3>6, <3>7
    <3>9. FromTopology(in, x)
      <4>1. c.id # None
        BY TemplateFacts
      <4>2. Elsewhere(x.from, x.category)
        BY <3>6, <4>1 DEF Elsewhere, GroupSubject
      <4> QED
        BY <4>2 DEF FromTopology
    <3> QED
      BY <3>2, <3>5, <3>8, <3>9 DEF Original, OfTemplate
  <2>5. \A x \in marked : Original(in, x)
    BY <2>4
  <2> HIDE DEF emitted, marked
  <2> QED
    BY <2>1, <2>2, <2>3, <2>5 DEF OutSound
<1>6. OutSound(in, refused)
  BY NothingIsSound DEF refused
<1> HIDE DEF emitted
<1>7. OutSound(in, out)
  BY <1>1, <1>5, <1>6, NothingIsSound, Zenon DEF template
<1> QED
  BY <1>7 DEF out, template

LEMMA AnchorSound ==
  ASSUME NEW in, InputAccepted(in), NEW group \in SupportGroups(in),
         NEW supports \in Positives, NEW t \in DOMAIN in.templates
  PROVE  OutSound(in, AnchorDemand(in, group, in.templates[t], supports))
<1> DEFINE template == in.templates[t]
           s == Configuration(in, group)
           p == s.anchor
           rows == { c \in template.components : c.role = "anchor" /\ c.product = p }
           row == CHOOSE c \in rows : TRUE
           perAxis == IF s.anchorOverride = 0 THEN row.quantity ELSE Whole(s.anchorOverride)
           review == in.products[p].review \/ template.review
           Missing(code) == Unresolved(in, {Warning(code, GroupSubject(group))})
           warned == Warns((IF s.anchorOverride = 0 THEN {} ELSE
                              {Overridden("MANUAL_ANCHOR_OVERRIDE", GroupSubject(group), p)})
                           \cup (IF review THEN
                              {Warning("ANCHOR_ENGINEERING_CHECK_REQUIRED", <<"product", p>>)}
                              ELSE {}))
           quantity == Multiply(supports, perAxis)
           status == IF review THEN "engineeringReview" ELSE "calculated"
           demand == GroupDemand(in, group, p, "anchor", "anchor", quantity, status, None)
           noRow == rows = {} \/ row.mode # "perSupport" \/ row.unit # "pcs"
           known == IF p \in DOMAIN in.products
                    THEN IF noRow THEN Missing("ASSEMBLY_TEMPLATE_MISSING") ELSE Both(warned, demand)
                    ELSE Throws("INTERNAL_INVARIANT_FAILED")
           out == AnchorDemand(in, group, template, supports)
<1>1. out = CASE s.substrate = None -> Missing("MISSING_SUBSTRATE_OR_BASE")
              [] s.substrate = "unknown" -> Missing("UNKNOWN_SUBSTRATE")
              [] s.substrate \notin {None, "unknown"} /\ p = None -> Missing("MISSING_ANCHOR_SELECTION")
              [] s.substrate \notin {None, "unknown"} /\ p # None -> known
  BY Zenon DEF AnchorDemand, WithKnown
<1>2. \A code : OutSound(in, Missing(code))
  BY NothingIsSound
<1>3. ASSUME ~noRow PROVE quantity \in Fractions
  <2>1. s.anchorOverride \in Nat
    BY GroupFits, ConfigurationFacts
  <2>2. row \in template.components
    <3>1. row \in rows
      BY <1>3, Zenon
    <3> HIDE DEF row
    <3> QED
      BY <3>1
  <2>3. row.quantity \in Positives
    BY <2>2, TemplateFacts
  <2>4. perAxis \in Positives
    <3> HIDE DEF row, s
    <3> QED
      BY <2>1, <2>3, WholeFits
  <2> HIDE DEF perAxis
  <2> QED
    BY <2>4, MultiplyFits, FractionTypes
<1> HIDE DEF Missing, p, s, warned, quantity, status, noRow
<1>4. ASSUME p \in DOMAIN in.products, ~noRow PROVE OutSound(in, Both(warned, demand))
  <2>1. OutSound(in, demand)
    <3>1. "anchor" # "support"
      OBVIOUS
    <3> QED
      BY <1>3, <1>4, <3>1, GroupPartSound DEF Products
  <2>2. OutSound(in, warned)
    BY NothingIsSound DEF warned
  <2> HIDE DEF demand
  <2> QED
    BY <2>1, <2>2, BothSound
<1>5. OutSound(in, known)
  <2> HIDE DEF demand
  <2> QED
    BY <1>2, <1>4, NothingIsSound, Zenon
<1> HIDE DEF known, out
<1>6. OutSound(in, out)
  <2>1. \/ s.substrate = None
        \/ s.substrate = "unknown"
        \/ s.substrate \notin {None, "unknown"} /\ p = None
        \/ s.substrate \notin {None, "unknown"} /\ p # None
    BY Zenon
  <2> QED
    BY <1>1, <1>2, <1>5, <2>1
<1> QED
  BY <1>6 DEF out

LEMMA WstbSound ==
  ASSUME NEW in, InputAccepted(in), NEW group \in SupportGroups(in),
         NEW supports \in Positives, NEW template
  PROVE  OutSound(in, WstbDemand(in, group, template, supports))
<1> DEFINE s == Configuration(in, group)
           p == s.wstb
           perSupport == CASE s.wstbMode = "one" -> 1 [] s.wstbMode = "two" -> 2
                           [] s.wstbMode = "custom" -> s.wstbQuantity
           conflicts == { c \in template.components :
                            /\ c.role = "wstb"
                            /\ \/ c.product # p \/ c.mode # "perSupport"
                               \/ c.quantity # Whole(perSupport) }
           warned == Warns({Warning("WSTB_PROJECT_RULE_UNCONFIRMED", GroupSubject(group))}
                       \cup { Overridden("MANUAL_QUANTITY_OVERRIDE", GroupSubject(group), m)
                                : m \in {s.wstbMode} \cap {"custom"} }
                       \cup { Warning("WSTB_TEMPLATE_RULE_CONFLICT", <<"templateComponent", c.id>>)
                                : c \in conflicts })
           quantity == Multiply(supports, Whole(perSupport))
           demand == GroupDemand(in, group, p, "wstb", "wstb", quantity, "projectRule", s.wstbRule)
           out == WstbDemand(in, group, template, supports)
<1>1. out = IF p = None THEN Emits({})
            ELSE IF p \in DOMAIN in.products
            THEN IF s.wstbMode # "custom" /\ in.rules[s.wstbRule].quantity # perSupport
                 THEN Throws("SEMANTIC_INPUT_INVALID")
                 ELSE Both(warned, demand)
            ELSE Throws("INTERNAL_INVARIANT_FAILED")
  BY Zenon DEF WstbDemand, WithKnown
<1>2. perSupport \in Nat
  <2>1. s.wstbMode \in {"one", "two"} \/ (s.wstbMode = "custom" /\ s.wstbQuantity \in Nat \ {0})
    BY GroupFits, ConfigurationFacts
  <2> HIDE DEF s
  <2> QED
    BY <2>1
<1>3. quantity \in Fractions
  <2> HIDE DEF perSupport
  <2> QED
    BY <1>2, WholeFits, MultiplyFits, FractionTypes
<1>4. OutSound(in, warned)
  BY NothingIsSound
<1> HIDE DEF warned, out, p, perSupport, quantity
<1>5. p \in DOMAIN in.products => OutSound(in, demand)
  BY <1>3, GroupPartSound DEF Products
<1> HIDE DEF demand
<1>6. p \in DOMAIN in.products => OutSound(in, Both(warned, demand))
  BY <1>4, <1>5, BothSound
<1>7. OutSound(in, out)
  BY <1>1, <1>6, NothingIsSound, Zenon
<1> QED
  BY <1>7 DEF out

LEMMA SupportSound ==
  ASSUME NEW in, InputAccepted(in), NEW group \in SupportGroups(in)
  PROVE  OutSound(in, SupportDemand(in, group))
<1> DEFINE s == Configuration(in, group)
           supports == SupportCount(in, group)
           template == in.templates[s.template]
           C == template.components
           counted == SupportCountOut(in, group)
           own == GroupDemand(in, group, s.product, "support", "support", supports, "calculated", None)
           support == IF s.product = None THEN Emits({})
                      ELSE IF s.product \in DOMAIN in.products THEN own ELSE Throws("INTERNAL_INVARIANT_FAILED")
           rows == { ComponentDemand(in, group, template, c, supports) : c \in C }
           rest == { AnchorDemand(in, group, template, supports), WstbDemand(in, group, template, supports) }
           refused == Unresolved(in, {Warning("ASSEMBLY_TEMPLATE_MISSING", GroupSubject(group))})
           assembly == IF s.template = None THEN refused ELSE All(rows \cup rest)
           f == [c \in C |-> ComponentDemand(in, group, template, c, supports)]
<1>1. SupportDemand(in, group) = All({counted, support, assembly})
  BY Zenon DEF SupportDemand, WithKnown
<1>2. OutSound(in, counted)
  BY SupportCountSound
<1>3. supports \in Positives /\ supports \in Fractions
  BY SupportCountFits, FractionTypes
<1>9. FromTopology(in, Event(in, <<"support", GroupSubject(group), s.product, None>>, s.product, "support",
                            supports, "calculated"))
  <2>1. PICK e : e = SupportEvent(in, group)
    OBVIOUS
  <2>2. e.from[2][1] # "straightRun" /\ OfSupportGroup(in, e)
    BY <2>1, EventFits DEF SupportEvent, GroupSubject, OfSupportGroup
  <2> QED
    BY <2>1, <2>2, Zenon DEF FromTopology, SupportEvent
<1> HIDE DEF supports
<1>4. OutSound(in, support)
  <2> HIDE DEF s
  <2>1. s.product \in DOMAIN in.products => OutSound(in, own)
    BY <1>3, <1>9, GroupDemandSound DEF Products
  <2> HIDE DEF own
  <2> QED
    BY <2>1, NothingIsSound, Zenon
<1>5. OutSound(in, refused)
  BY NothingIsSound
<1>6. ASSUME s.template # None PROVE OutSound(in, All(rows \cup rest))
  <2>1. s.template \in DOMAIN in.templates
    BY <1>6, GroupFits, ConfigurationFacts
  <2>2. IsFiniteSet(C)
    <3>1. \A t \in DOMAIN in.templates : TemplateFieldsAccepted(in.templates[t])
      BY Zenon DEF InputAccepted, TemplatesAccepted
    <3> QED
      BY <2>1, <3>1, Zenon DEF TemplateFieldsAccepted
  <2>3. IsFiniteSet(rows)
    <3>1. IsFiniteSet({ f[c] : c \in C })
      BY <2>2, ImageIsFinite
    <3>2. rows = { f[c] : c \in C }
      OBVIOUS
    <3> QED
      BY <3>1, <3>2
  <2>4. IsFiniteSet(rest)
    <3>1. \A a, b : IsFiniteSet({a, b})
      <4> TAKE a, b
      <4>1. IsFiniteSet({a}) /\ IsFiniteSet({b}) /\ {a, b} = {a} \cup {b}
        BY FS_Singleton
      <4> QED
        BY <4>1, FS_Union
    <3> QED
      BY <3>1
  <2>5. \A out \in rows : OutSound(in, out)
    <3>1. supports = SupportCount(in, group)
      BY DEF supports
    <3>2. ASSUME NEW c \in C PROVE OutSound(in, ComponentDemand(in, group, template, c, supports))
      BY <1>3, <2>1, <3>1, ComponentSound
    <3> QED
      BY <3>2
  <2>6. \A out \in rest : OutSound(in, out)
    <3> HIDE DEF s
    <3> QED
      BY <1>3, <2>1, AnchorSound, WstbSound
  <2> HIDE DEF rows, rest
  <2>7. IsFiniteSet(rows \cup rest)
    BY <2>3, <2>4, FS_Union
  <2> QED
    BY <2>5, <2>6, <2>7, AllSound
<1> HIDE DEF counted, support, refused, rows, rest
<1>7. OutSound(in, assembly)
  BY <1>5, <1>6
<1> HIDE DEF assembly
<1>8. IsFiniteSet({counted, support, assembly})
  <2>1. IsFiniteSet({counted}) /\ IsFiniteSet({support}) /\ IsFiniteSet({assembly})
    BY FS_Singleton
  <2>2. IsFiniteSet({counted} \cup {support})
    BY <2>1, FS_Union
  <2>3. IsFiniteSet(({counted} \cup {support}) \cup {assembly})
    BY <2>1, <2>2, FS_Union
  <2>4. ({counted} \cup {support}) \cup {assembly} = {counted, support, assembly}
    OBVIOUS
  <2> QED
    BY <2>3, <2>4
<1> QED
  BY <1>1, <1>2, <1>4, <1>7, <1>8, AllSound

LEMMA SupportsSound ==
  ASSUME NEW in, InputAccepted(in)
  PROVE  OutSound(in, SupportDemands(in, SupportGroups(in)))
<1> DEFINE G == SupportGroups(in)
           f == [group \in G |-> SupportDemand(in, group)]
           outs == { SupportDemand(in, group) : group \in G }
<1>1. IsFiniteSet(G)
  <2>1. IsFiniteSet(SUBSET Routes(in))
    BY RouteFacts, FS_SUBSET
  <2>2. G \in SUBSET SUBSET Routes(in)
    BY GroupFits
  <2> QED
    BY <2>1, <2>2, FS_Subset
<1>2. \A out \in outs : OutSound(in, out)
  BY SupportSound
<1>3. SupportDemands(in, G) = All(outs)
  BY Zenon DEF SupportDemands
<1> HIDE DEF G
<1>4. IsFiniteSet(outs)
  <2>1. IsFiniteSet({ f[group] : group \in G })
    BY <1>1, ImageIsFinite
  <2>2. outs = { f[group] : group \in G }
    OBVIOUS
  <2> QED
    BY <2>1, <2>2
<1>5. OutSound(in, All(outs))
  <2> HIDE DEF outs
  <2> QED
    BY <1>2, <1>4, AllSound
<1> QED
  BY <1>3, <1>5 DEF G

-----------------------------------------------------------------------------
(* Suppression, and the stages.                                            *)

LEMMA IncludedFits ==
  ASSUME NEW in, InputAccepted(in), NEW p \in Products(in)
  PROVE  /\ IsFiniteSet(in.products[p].included)
         /\ \A i \in in.products[p].included : i.quantity \in Nat \ {0}
<1>1. ProductAccepted(in, p)
  BY Zenon DEF InputAccepted, ProductsAccepted, Collection
<1> QED
  BY <1>1, SMT DEF ProductAccepted, Collection, Distinct

LEMMA CapacityFits ==
  ASSUME NEW in, InputAccepted(in), NEW S, IsFiniteSet(S), \A e \in S : Sound(in, e), NEW p
  PROVE  Capacity(in, S, p) \in Fractions
<1> DEFINE D == { e \in S : e.product # None /\ e.unit = "pcs" }
           Own(e) == { i \in in.products[e.product].included : i.child = p }
           Inside(e) == [i \in Own(e) |-> Whole(i.quantity)]
           delivered == [e \in D |-> Multiply(e.quantity, SumOf(Inside(e)))]
<1>1. Capacity(in, S, p) = SumOf(delivered)
  BY Zenon DEF Capacity, SumOver
<1>2. D \in SUBSET S /\ IsFiniteSet(D)
  <2>1. D \in SUBSET S
    OBVIOUS
  <2> HIDE DEF D
  <2> QED
    BY <2>1, FS_Subset
<1>3. ASSUME NEW e \in D PROVE delivered[e] \in Fractions
  <2>1. e.product \in Products(in) /\ e.quantity \in Fractions
    <3>1. Sound(in, e) /\ e.product # None
      BY <1>3
    <3> QED
      BY <3>1 DEF Sound, Ruled, Measured
  <2>3. /\ IsFiniteSet(in.products[e.product].included)
        /\ \A i \in in.products[e.product].included : i.quantity \in Nat \ {0}
    BY <2>1, IncludedFits
  <2>4. IsFiniteSet(Own(e))
    <3>1. Own(e) \in SUBSET in.products[e.product].included
      OBVIOUS
    <3> HIDE DEF Own
    <3> QED
      BY <2>3, <3>1, FS_Subset
  <2>5. DOMAIN Inside(e) = Own(e) /\ \A i \in Own(e) : Inside(e)[i] \in Fractions
    BY <2>3, WholeFits
  <2>6. SumOf(Inside(e)) \in Fractions
    <3> HIDE DEF Inside, Own
    <3> QED
      BY <2>4, <2>5, SumFits
  <2>7. delivered[e] = Multiply(e.quantity, SumOf(Inside(e)))
    <3> HIDE DEF Inside
    <3> QED
      BY <1>3
  <2> HIDE DEF delivered, Inside
  <2> QED
    BY <2>1, <2>6, <2>7, MultiplyFits
<1>4. DOMAIN delivered = D
  OBVIOUS
<1> HIDE DEF delivered, D
<1> QED
  BY <1>1, <1>2, <1>3, <1>4, SumFits

LEMMA SuppressedSound ==
  ASSUME NEW in, InputAccepted(in), NEW S, IsFiniteSet(S), \A e \in S : Sound(in, e), NEW order
  PROVE  /\ IsFiniteSet(Suppressed(in, S, order))
         /\ \A e \in Suppressed(in, S, order) : Sound(in, e)
<1> DEFINE Left(e) == IF e \in Eligible(S)
                      THEN [e EXCEPT !.quantity = Remaining(in, S, order, e),
                                     !.traced = Remaining(in, S, order, e)]
                      ELSE e
           f == [e \in S |-> Left(e)]
<1>1. Suppressed(in, S, order) = { f[e] : e \in S }
  <2>1. Suppressed(in, S, order) = { Left(e) : e \in S }
    BY Zenon DEF Suppressed
  <2> HIDE DEF Left
  <2>2. { Left(e) : e \in S } = { f[e] : e \in S }
    OBVIOUS
  <2> QED
    BY <2>1, <2>2
<1>2. ASSUME NEW e \in S PROVE Remaining(in, S, order, e) \in Fractions
  <2> DEFINE capacity == Capacity(in, S, e.product)
             D == { d \in Eligible(S) : d.product = e.product /\ order[d] <= order[e] }
             g == [d \in D |-> d.quantity]
             through == SumOver(LAMBDA d : d.quantity, D)
  <2>1. Remaining(in, S, order, e) =
          IF Leq(through, capacity) THEN Zero ELSE Minimum(e.quantity, Subtract(through, capacity))
    BY Zenon DEF Remaining
  <2>2. through = SumOf(g)
    BY Zenon DEF SumOver
  <2>3. D \in SUBSET S
    BY DEF Eligible
  <2>4. DOMAIN g = D /\ \A d \in D : g[d] \in Fractions
    <3>1. \A d \in S : d.quantity \in Fractions
      BY DEF Sound, Measured
    <3> HIDE DEF D
    <3> QED
      BY <2>3, <3>1
  <2> HIDE DEF g, D, through
  <2>5. IsFiniteSet(D)
    BY <2>3, FS_Subset
  <2>6. through \in Fractions
    BY <2>2, <2>4, <2>5, SumFits
  <2>7. capacity \in Fractions
    BY CapacityFits
  <2>8. Zero \in Fractions /\ e.quantity \in Fractions
    BY WholeFits DEF Zero, Sound, Measured
  <2> HIDE DEF capacity
  <2>9. ~Leq(through, capacity) => Subtract(through, capacity) \in Fractions
    BY <2>6, <2>7, SubtractLaws
  <2> QED
    BY <2>1, <2>8, <2>9 DEF Minimum
<1>3. ASSUME NEW e \in S PROVE Sound(in, f[e])
  <2>1. Sound(in, e) /\ f[e] = Left(e)
    OBVIOUS
  <2>2. CASE e \notin Eligible(S)
    BY <2>1, <2>2
  <2>3. CASE e \in Eligible(S)
    <3>1. PICK q \in Fractions : q = Remaining(in, S, order, e)
      BY <1>2
    <3>2. PICK x : x = [e EXCEPT !.quantity = q, !.traced = q]
      OBVIOUS
    <3>3. f[e] = x
      <4> HIDE DEF f
      <4> QED
        BY <2>1, <2>3, <3>1, <3>2
    <3>4. DOMAIN e = Fields
      BY <2>1 DEF Sound
    <3>5. /\ DOMAIN x = Fields
          /\ x.product = e.product /\ x.reserve = e.reserve /\ x.packaging = e.packaging
          /\ x.quantity = q /\ x.traced = q
          /\ x.length = e.length /\ x.count = e.count /\ x.eligible = e.eligible
      BY <3>2, <3>4 DEF Fields
    <3>6. e.length = Zero
      BY <2>1, <2>3 DEF Sound, Eligible
    <3>7. Sound(in, x)
      BY <2>1, <3>5, <3>6 DEF Sound, Ruled, Measured
    <3> QED
      BY <3>3, <3>7
  <2> QED
    BY <2>2, <2>3
<1> HIDE DEF f
<1>4. IsFiniteSet({ f[e] : e \in S })
  BY ImageIsFinite
<1> QED
  BY <1>1, <1>3, <1>4

\* Two demands that products may include are from different rows or groups.
LEMMA EligibleDiffer ==
  ASSUME NEW in, NEW d, NEW e, Original(in, d), Original(in, e), d.eligible, e.eligible, d.from = e.from
  PROVE  d = e
<1>1. RowDemand(in, d.from) = {d} /\ RowDemand(in, e.from) = {e}
  BY Zenon DEF Original, OfTemplate
<1> QED
  BY <1>1

\* What suppression leaves of a product is the excess over what is included, in whatever
\* order it goes through the demand, and what is not eligible stays.
LEMMA SuppressionTakesCapacity ==
  ASSUME NEW in, InputAccepted(in), NEW S, IsFiniteSet(S), \A e \in S : Original(in, e),
         NEW order \in Orders(S), NEW T, T = Suppressed(in, S, order)
  PROVE  /\ { e \in T : ~e.eligible } = { e \in S : ~e.eligible }
         /\ \A p \in Products(in) :
              Total({ e \in Eligible(T) : e.product = p }) =
              Excess(Total({ e \in Eligible(S) : e.product = p }), Capacity(in, S, p))
<1> DEFINE Left(e) == IF e \in Eligible(S)
                      THEN [e EXCEPT !.quantity = Remaining(in, S, order, e),
                                     !.traced = Remaining(in, S, order, e)]
                      ELSE e
<1>1. T = { Left(e) : e \in S }
  BY Zenon DEF Suppressed
<1>2. ASSUME NEW e \in S
      PROVE  /\ Left(e).from = e.from /\ Left(e).eligible = e.eligible
             /\ Left(e).product = e.product /\ Left(e).unit = e.unit
             /\ e \in Eligible(S) => Left(e).quantity = Remaining(in, S, order, e)
             /\ e \notin Eligible(S) => Left(e) = e
  <2>1. DOMAIN e = Fields
    BY DEF Original, Sound
  <2> QED
    BY <2>1 DEF Fields
<1> HIDE DEF Left
<1>3. { e \in T : ~e.eligible } = { e \in S : ~e.eligible }
  <2>1. ASSUME NEW x \in T, ~x.eligible PROVE x \in S
    <3>1. PICK e \in S : x = Left(e)
      BY <1>1
    <3>2. e \notin Eligible(S)
      BY <1>2, <2>1, <3>1 DEF Eligible
    <3> QED
      BY <1>2, <3>1, <3>2
  <2>2. ASSUME NEW e \in S, ~e.eligible PROVE e \in T
    <3>1. e \notin Eligible(S)
      BY <2>2 DEF Eligible
    <3>2. Left(e) = e
      BY <1>2, <3>1
    <3> QED
      BY <1>1, <3>2
  <2> QED
    BY <2>1, <2>2
<1>4. ASSUME NEW p \in Products(in)
      PROVE  Total({ e \in Eligible(T) : e.product = p }) =
             Excess(Total({ e \in Eligible(S) : e.product = p }), Capacity(in, S, p))
  <2> DEFINE O == { e \in Eligible(S) : e.product = p }
             U == { e \in Eligible(T) : e.product = p }
             v == [e \in O |-> e.quantity]
             w == [e \in U |-> e.quantity]
             m == [e \in O |-> Left(e)]
             g == [e \in O |-> Remaining(in, S, order, e)]
             capacity == Capacity(in, S, p)
             n == Cardinality(Eligible(S))
  <2>1. Total(O) = SumOf(v) /\ Total(U) = SumOf(w)
    BY Zenon DEF Total, SumOver
  <2>2. O \subseteq Eligible(S) /\ Eligible(S) \subseteq S
    BY DEF Eligible
  <2>3. IsFiniteSet(Eligible(S)) /\ IsFiniteSet(O)
    BY <2>2, FS_Subset
  <2>4. \A e \in S : e.quantity \in Fractions
    BY DEF Original, Sound, Measured
  <2>5. capacity \in Fractions
    <3>1. \A e \in S : Sound(in, e)
      BY DEF Original
    <3> QED
      BY <3>1, CapacityFits
  <2>6. /\ n \in Nat /\ \A x \in O : order[x] \in 1..n
        /\ \A x, y \in O : order[x] = order[y] => x = y
    <3>1. n \in Nat
      BY <2>3, FS_CardinalityType
    <3>2. order \in [Eligible(S) -> 1..n] /\ \A d, e \in Eligible(S) : d # e => order[d] # order[e]
      BY DEF Orders
    <3> HIDE DEF O, n
    <3> QED
      BY <2>2, <3>1, <3>2
  <2>7. \A e \in O : e \in S /\ e \in Eligible(S) /\ e.eligible /\ e.product = p
    BY DEF Eligible
  <2>8. U = { m[x] : x \in O }
    <3>1. ASSUME NEW x \in U PROVE \E e \in O : x = m[e]
      <4>1. x \in T /\ x.eligible /\ x.product # None /\ x.unit = "pcs" /\ x.product = p
        BY DEF Eligible
      <4>2. PICK e \in S : x = Left(e)
        BY <1>1, <4>1
      <4>3. e \in O
        BY <1>2, <4>1, <4>2 DEF Eligible
      <4>4. x = m[e]
        BY <4>2, <4>3
      <4> QED
        BY <4>3, <4>4
    <3>2. ASSUME NEW e \in O PROVE m[e] \in U
      <4>1. e \in S /\ e.eligible /\ e.product # None /\ e.unit = "pcs" /\ e.product = p /\ m[e] = Left(e)
        BY DEF Eligible
      <4>2. Left(e) \in T
        BY <1>1, <4>1
      <4> QED
        BY <1>2, <4>1, <4>2 DEF Eligible
    <3> HIDE DEF U, O, m
    <3> QED
      BY <3>1, <3>2
  <2>9. ASSUME NEW x \in O
        PROVE  /\ m[x] = Left(x) /\ g[x] = Remaining(in, S, order, x) /\ v[x] = x.quantity
               /\ w[m[x]] = g[x]
    <3>1. m[x] = Left(x) /\ g[x] = Remaining(in, S, order, x) /\ v[x] = x.quantity
      OBVIOUS
    <3>2. m[x] \in U
      BY <2>8
    <3>3. w[m[x]] = m[x].quantity
      BY <3>2
    <3> HIDE DEF O, m, w, g
    <3> QED
      BY <1>2, <2>7, <3>1, <3>3
  <2>10. DOMAIN v = O /\ DOMAIN g = O /\ DOMAIN w = U
    OBVIOUS
  <2>11. ASSUME NEW x \in O PROVE g[x] = Uncovered(v, order, capacity, x)
    <3> DEFINE D == { d \in Eligible(S) : d.product = x.product /\ order[d] <= order[x] }
               through == SumOver(LAMBDA d : d.quantity, D)
    <3>1. Remaining(in, S, order, x) =
            IF Leq(through, Capacity(in, S, x.product)) THEN Zero
            ELSE Minimum(x.quantity, Subtract(through, Capacity(in, S, x.product)))
      BY Zenon DEF Remaining
    <3>2. D = { y \in DOMAIN v : order[y] <= order[x] }
      BY <2>7
    <3>3. through = SumOf([d \in D |-> d.quantity])
      BY Zenon DEF SumOver
    <3>4. [d \in D |-> d.quantity] = Restrict(v, { y \in DOMAIN v : order[y] <= order[x] })
      <4>1. \A d \in D : v[d] = d.quantity
        BY <3>2
      <4> HIDE DEF D, v
      <4> QED
        BY <3>2, <4>1 DEF Restrict
    <3>5. through = Through(v, order, x)
      BY <3>3, <3>4 DEF Through
    <3> HIDE DEF through, v, g, O
    <3> QED
      BY <2>7, <2>9, <3>1, <3>5 DEF Uncovered
  <2>12. \A x \in O : v[x] \in Fractions
    BY <2>4, <2>7
  <2>13. \A x, y \in O : m[x] = m[y] => x = y
    <3>1. ASSUME NEW x \in O, NEW y \in O, m[x] = m[y] PROVE x = y
      <4>1. x \in S /\ y \in S /\ x.eligible /\ y.eligible
        BY <2>7
      <4>2. x.from = y.from
        BY <1>2, <2>9, <3>1, <4>1
      <4> QED
        BY <4>1, <4>2, EligibleDiffer
    <3> QED
      BY <3>1
  <2> HIDE DEF O, U, v, w, m, g, capacity, n
  <2>14. (\A x \in O : g[x] \in Fractions) /\ SumOf(g) = Excess(SumOf(v), capacity)
    <3>1. IsFiniteSet(DOMAIN v) /\ \A x \in DOMAIN v : v[x] \in Fractions
      BY <2>3, <2>10, <2>12
    <3>2. /\ n \in Nat /\ \A x \in DOMAIN v : order[x] \in 1..n
          /\ \A x, y \in DOMAIN v : order[x] = order[y] => x = y
      BY <2>6, <2>10
    <3>3. DOMAIN g = DOMAIN v /\ \A x \in DOMAIN v : g[x] = Uncovered(v, order, capacity, x)
      BY <2>10, <2>11
    <3>4. (\A x \in DOMAIN v : g[x] \in Fractions) /\ SumOf(g) = Excess(SumOf(v), capacity)
      <4> PICK k \in Nat : k = n
        BY <3>2
      <4>1. \A x \in DOMAIN v : order[x] \in 1..k
        BY <3>2
      <4> QED
        BY <2>5, <3>1, <3>2, <3>3, <4>1, UncoveredSum, SMT
    <3> QED
      BY <2>10, <3>4
  <2>15. SumOf(w) = SumOf(g)
    BY <2>3, <2>8, <2>9, <2>10, <2>13, <2>14, SumOfImage
  <2> QED
    BY <2>1, <2>14, <2>15 DEF O, U, capacity
<1> QED
  BY <1>3, <1>4

\* What a calculation has counted follows from its input.
TopologyKept ==
  /\ InputAccepted(input)
  /\ sections = SectionDemands(input).events /\ SectionsCounted(sections)
  /\ groups = SupportGroups(input)
  /\ Kept(JointDemands(input, sections))
  /\ IsFiniteSet(events) /\ \A e \in events : Original(input, e)

\* The demand so far is sound, the section events count their sections, suppression takes
\* what is included, and the lines of a result account for the demand that is left.
AccountInv ==
  /\ stage # "done" => IsFiniteSet(events) /\ \A e \in events : Original(input, e)
  /\ stage \in {"groups", "joints"} => SectionsCounted(sections)
  /\ stage = "build" => IsFiniteSet(unsuppressed) /\ \A e \in unsuppressed : Sound(input, e)
  /\ SuppressionIsExact
  /\ Calculated => TopologyKept /\ LinesAccount(input, unsuppressed, result.lines)

LEMMA RefusedAccounts ==
  ASSUME NEW failures, None \notin failures, Refuse(failures)
  PROVE  AccountInv'
<1>1. stage' = "done" /\ failure' # None
  BY DEF Refuse
<1> QED
  BY <1>1 DEF AccountInv, SuppressionIsExact, Calculated

LEMMA EmitAccounts ==
  ASSUME AccountInv, stage # "done", NEW out, OutSound(input, out),
         NEW next \in {"sections", "fittings", "supports", "endpoints", "manualItems", "suppress"},
         Emit(out, next)
  PROVE  AccountInv'
<1>1. CASE out.failures # {}
  <2>1. Refuse(out.failures) /\ None \notin out.failures
    BY <1>1 DEF Emit, OutSound
  <2> QED
    BY <2>1, RefusedAccounts
<1>2. CASE out.failures = {}
  <2>1. events' = events \cup out.events /\ stage' = next /\ input' = input
    BY <1>2 DEF Emit
  <2>2. IsFiniteSet(events) /\ IsFiniteSet(out.events)
    BY DEF AccountInv, OutSound
  <2>3. IsFiniteSet(events \cup out.events)
    BY <2>2, FS_Union
  <2>4. \A e \in events \cup out.events : Original(input, e)
    BY DEF AccountInv, OutSound
  <2> QED
    BY <2>1, <2>3, <2>4 DEF AccountInv, SuppressionIsExact, Calculated
<1> QED
  BY <1>1, <1>2

LEMMA StagesAccount ==
  EngineInv /\ AccountInv /\ [Calculate]_engineVars => AccountInv'
<1> SUFFICES ASSUME EngineInv, AccountInv, [Calculate]_engineVars PROVE AccountInv'
  OBVIOUS
<1>0. stage \notin {"parse", "done"} => InputAccepted(input)
  BY DEF EngineInv, ParsePast, Past
<1>1. CASE Parse
  <2>1. stage = "parse"
    BY <1>1 DEF Parse
  <2>2. CASE InputAccepted(input)
    <3>1. PICK warned : Emit(Warns(warned), "sections")
      BY <1>1, <2>2 DEF Parse
    <3>2. OutSound(input, Warns(warned))
      BY NothingIsSound
    <3> QED
      BY <2>1, <3>1, <3>2, EmitAccounts
  <2>3. CASE ~InputAccepted(input)
    <3>1. Refuse({"INPUT_SCHEMA_INVALID"}) /\ None \notin {"INPUT_SCHEMA_INVALID"}
      BY <1>1, <2>3 DEF Parse, None
    <3> QED
      BY <3>1, RefusedAccounts
  <2> QED
    BY <2>2, <2>3
<1>2. CASE EmitSections
  <2>1. stage = "sections"
    BY <1>2 DEF EmitSections
  <2>2. OutSound(input, SectionDemands(input)) /\ SectionsCounted(SectionDemands(input).events)
    BY <1>0, <2>1, SectionsSound
  <2>3. CASE SectionDemands(input).failures # {}
    <3>1. Refuse(SectionDemands(input).failures) /\ None \notin SectionDemands(input).failures
      BY <1>2, <2>2, <2>3 DEF EmitSections, OutSound
    <3> QED
      BY <3>1, RefusedAccounts
  <2>4. CASE SectionDemands(input).failures = {}
    <3>1. /\ sections' = SectionDemands(input).events /\ events' = SectionDemands(input).events
          /\ stage' = "groups" /\ input' = input
      BY <1>2, <2>4 DEF EmitSections
    <3>2. IsFiniteSet(events') /\ (\A e \in events' : Original(input', e)) /\ SectionsCounted(sections')
      BY <2>2, <3>1 DEF OutSound
    <3> QED
      BY <3>1, <3>2 DEF AccountInv, SuppressionIsExact, Calculated, SectionsCounted
  <2> QED
    BY <2>3, <2>4
<1>3. CASE GroupSupports
  <2>1. stage = "groups"
    BY <1>3 DEF GroupSupports
  <2>2. CASE Mismatches(input) # {} /\ input.options.mismatch = "fail"
    <3>1. Refuse({"SUPPORT_CONFIGURATION_MISMATCH"}) /\ None \notin {"SUPPORT_CONFIGURATION_MISMATCH"}
      BY <1>3, <2>2 DEF GroupSupports, None
    <3> QED
      BY <3>1, RefusedAccounts
  <2>3. CASE ~(Mismatches(input) # {} /\ input.options.mismatch = "fail")
    <3>1. stage' = "joints" /\ input' = input /\ sections' = sections /\ events' = events
      BY <1>3, <2>3 DEF GroupSupports
    <3> QED
      BY <2>1, <3>1 DEF AccountInv, SuppressionIsExact, Calculated, SectionsCounted
  <2> QED
    BY <2>2, <2>3
<1>4. CASE EmitJoints
  <2>1. stage = "joints" /\ Emit(JointDemands(input, sections), "fittings")
    BY <1>4 DEF EmitJoints, JointDemands
  <2>2. OutSound(input, JointDemands(input, sections))
    <3>1. sections = SectionDemands(input).events
      BY <2>1 DEF EngineInv, SectionsPast, Past
    <3>2. SectionsCounted(sections)
      BY <2>1 DEF AccountInv
    <3> QED
      BY <1>0, <2>1, <3>1, <3>2, JointsSound
  <2> QED
    BY <2>1, <2>2, EmitAccounts
<1>5. CASE EmitFittings
  <2>1. stage = "fittings" /\ Emit(FittingDemands(input), "supports")
    BY <1>5 DEF EmitFittings, FittingDemands
  <2>2. OutSound(input, FittingDemands(input))
    BY <1>0, <2>1, FittingsSound
  <2> QED
    BY <2>1, <2>2, EmitAccounts
<1>6. CASE EmitSupports
  <2>1. stage = "supports" /\ Emit(SupportDemands(input, groups), "endpoints")
    BY <1>6 DEF EmitSupports, SupportDemands
  <2>2. groups = SupportGroups(input)
    BY <2>1 DEF EngineInv, GroupsPast, Past
  <2>3. OutSound(input, SupportDemands(input, groups))
    BY <1>0, <2>1, <2>2, SupportsSound
  <2> QED
    BY <2>1, <2>3, EmitAccounts
<1>7. CASE EmitEndpoints
  <2>1. stage = "endpoints" /\ Emit(EndpointDemands(input), "manualItems")
    BY <1>7 DEF EmitEndpoints, EndpointDemands
  <2>2. OutSound(input, EndpointDemands(input))
    BY <1>0, <2>1, EndpointsSound
  <2> QED
    BY <2>1, <2>2, EmitAccounts
<1>8. CASE EmitManualItems
  <2>1. PICK checks : Emit(Both(ManualDemands(input), Warns(checks)), "suppress")
    BY <1>8, Zenon DEF EmitManualItems, ManualDemands
  <2>2. stage = "manualItems"
    BY <1>8 DEF EmitManualItems
  <2>3. OutSound(input, ManualDemands(input)) /\ OutSound(input, Warns(checks))
    BY <1>0, <2>2, ManualsSound, NothingIsSound
  <2>4. OutSound(input, Both(ManualDemands(input), Warns(checks)))
    BY <2>3, BothSound
  <2> QED
    BY <2>1, <2>2, <2>4, EmitAccounts
<1>9. CASE Suppress
  <2>1. /\ stage = "suppress" /\ stage' = "build" /\ input' = input /\ events' = events
        /\ \E order \in Orders(events) : unsuppressed' = Suppressed(input, events, order)
    BY <1>9 DEF Suppress
  <2>2. IsFiniteSet(events) /\ \A e \in events : Sound(input, e)
    BY <2>1 DEF AccountInv, Original
  <2>3. PICK order \in Orders(events) : unsuppressed' = Suppressed(input, events, order)
    BY <2>1
  <2>4. /\ IsFiniteSet(Suppressed(input, events, order))
        /\ \A e \in Suppressed(input, events, order) : Sound(input, e)
    BY <1>0, <2>1, <2>2, SuppressedSound
  <2>5. SuppressionIsExact'
    <3>1. PICK S : S = events
      OBVIOUS
    <3>2. IsFiniteSet(S) /\ \A e \in S : Original(input, e)
      BY <2>1, <3>1 DEF AccountInv
    <3>3. PICK T : T = Suppressed(input, S, order)
      OBVIOUS
    <3>4. /\ { e \in T : ~e.eligible } = { e \in S : ~e.eligible }
          /\ \A p \in Products(input) :
               Total({ e \in Eligible(T) : e.product = p }) =
               Excess(Total({ e \in Eligible(S) : e.product = p }), Capacity(input, S, p))
      BY <1>0, <2>1, <2>3, <3>1, <3>2, <3>3, SuppressionTakesCapacity
    <3>5. events' = S /\ unsuppressed' = T /\ input' = input
      BY <2>1, <2>3, <3>1, <3>3
    <3> QED
      BY <3>4, <3>5 DEF SuppressionIsExact, Excess
  <2> QED
    BY <2>1, <2>2, <2>3, <2>4, <2>5 DEF AccountInv, Calculated
<1>10. CASE Build
  <2>1. stage = "build" /\ stage' = "done"
    BY <1>10, Zenon DEF Build, Refuse
  <2>2. CASE failure' = None
    <3>1. IsFiniteSet(unsuppressed) /\ \A e \in unsuppressed : Sound(input, e)
      BY <2>1 DEF AccountInv
    <3>2. LinesAccount(input', unsuppressed', result'.lines)
      BY <1>0, <1>10, <2>1, <2>2, <3>1, BuildAccounts
    <3>3. TopologyKept
      <4>1. SectionsCounted(SectionDemands(input).events)
        BY <1>0, <2>1, SectionsSound
      <4>2. Kept(JointDemands(input, sections)) /\ groups = SupportGroups(input)
            /\ sections = SectionDemands(input).events
        BY <2>1 DEF EngineInv, SectionsPast, GroupsPast, JointsPast, Past
      <4> QED
        BY <1>0, <2>1, <4>1, <4>2 DEF TopologyKept, AccountInv
    <3>4. /\ UNCHANGED <<input, sections, groups, events>> /\ warnings \subseteq warnings'
      BY <1>10, Zenon DEF Build, Refuse
    <3>5. TopologyKept'
      BY <3>3, <3>4 DEF TopologyKept, Kept, SectionsCounted
    <3> QED
      BY <2>1, <3>2, <3>5 DEF AccountInv, SuppressionIsExact
  <2>3. CASE failure' # None
    BY <2>1, <2>3 DEF AccountInv, SuppressionIsExact, Calculated
  <2> QED
    BY <2>2, <2>3
<1>11. CASE UNCHANGED engineVars
  BY <1>11 DEF AccountInv, SuppressionIsExact, Calculated, SectionsCounted, TopologyKept, Kept, engineVars
<1> QED
  BY <1>1, <1>2, <1>3, <1>4, <1>5, <1>6, <1>7, <1>8, <1>9, <1>10, <1>11 DEF Calculate

LEMMA AccountInvariance ==
  EngineSpec => []AccountInv
<1>1. EngineInit => AccountInv
  <2>1. EngineInit => stage = "parse" /\ events = {}
    BY DEF EngineInit, NothingComputed
  <2>2. IsFiniteSet({})
    BY FS_EmptySet
  <2> QED
    BY <2>1, <2>2 DEF AccountInv, SuppressionIsExact, Calculated
<1>2. EngineInv /\ AccountInv /\ [Calculate]_engineVars => AccountInv'
  BY StagesAccount
<1> QED
  BY <1>1, <1>2, EngineInvariance, PTL DEF EngineSpec

\* The lines of every calculation account for its demand, whatever the input: they add up
\* to the demand that is left, and what is ordered covers quantity and reserve without a
\* package or piece more than that takes (aggregation.ts, policies.ts).
THEOREM LinesAlwaysAccount ==
  EngineSpec => []LinesAccountForDemand
<1>1. AccountInv => LinesAccountForDemand
  BY AccountingParts DEF AccountInv
<1> QED
  BY <1>1, AccountInvariance, PTL

\* Suppression is exact in every calculation, whatever the input and whatever the order of
\* the demands: of each product it takes what other products include, once, and no demand
\* that may not be suppressed (included-items.ts).
THEOREM SuppressionAlwaysExact ==
  EngineSpec => []SuppressionIsExact
<1>1. AccountInv => SuppressionIsExact
  BY DEF AccountInv
<1> QED
  BY <1>1, AccountInvariance, PTL

-----------------------------------------------------------------------------
(* What is counted follows the topology: the supports.                     *)

LEMMA ConnectionFacts ==
  ASSUME NEW in, InputAccepted(in), NEW c \in in.connections
  PROVE  /\ DOMAIN c.participants = 1..Len(c.participants) /\ Len(c.participants) \in {2, 3}
         /\ \A i \in DOMAIN c.participants : c.participants[i].route \in Routes(in)
         /\ RoutesOf(c) \subseteq Routes(in)
         /\ {c.participants[1].route, c.participants[2].route} \subseteq RoutesOf(c)
         /\ c.before \in Nat /\ c.after \in Nat
         /\ c.type = "logicalContinuation" => ~c.physicalBreak
<1>1. ConnectionAccepted(in, c)
  BY Zenon DEF InputAccepted, ConnectionsAccepted, Collection
<1>2. /\ IsSequence(c.participants) /\ Len(c.participants) \in {2, 3}
      /\ {c.before, c.after} \subseteq Nat
      /\ \A i \in DOMAIN c.participants : c.participants[i].route \in Routes(in)
      /\ c.type = "logicalContinuation" => ~c.physicalBreak
  BY <1>1, Zenon DEF ConnectionAccepted
<1>3. DOMAIN c.participants = 1..Len(c.participants)
  BY <1>2, IndicesOf
<1>4. 1 \in DOMAIN c.participants /\ 2 \in DOMAIN c.participants
  <2>1. 1 \in 1..2 /\ 2 \in 1..2 /\ 1 \in 1..3 /\ 2 \in 1..3
    OBVIOUS
  <2> QED
    BY <1>2, <1>3, <2>1
<1>5. RoutesOf(c) \subseteq Routes(in)
  BY <1>2 DEF RoutesOf
<1>6. {c.participants[1].route, c.participants[2].route} \subseteq RoutesOf(c)
  BY <1>4 DEF RoutesOf
<1> QED
  BY <1>2, <1>3, <1>5, <1>6

\* The continuations that share supports.
Sharing(in) ==
  { c \in in.connections : c.type = "logicalContinuation" /\ c.supports = "shared" /\ Compatible(in, c) }

LEMMA GroupsDivide ==
  ASSUME NEW in, InputAccepted(in)
  PROVE  /\ IsFiniteSet(SupportGroups(in)) /\ UNION SupportGroups(in) = Routes(in)
         /\ \A g, h \in SupportGroups(in) : g # h => g \cap h = {}
         /\ \A c \in Sharing(in) : \E group \in SupportGroups(in) : RoutesOf(c) \subseteq group
         /\ \A apart \in SUBSET Routes(in) :
              (\A c \in Sharing(in) : RoutesOf(c) \subseteq apart \/ RoutesOf(c) \cap apart = {}) =>
                \A group \in SupportGroups(in) : group \subseteq apart \/ group \cap apart = {}
<1> DEFINE Pairs(c) == { {c.participants[1].route, r} : r \in RoutesOf(c) }
           joining == { c \in in.connections : Shared(c) /\ Compatible(in, c) }
           pairs == UNION { Pairs(c) : c \in joining }
           G == SupportGroups(in)
<1>1. joining = Sharing(in)
  <2>1. \A c \in in.connections : c.type = "logicalContinuation" => ~c.physicalBreak
    BY ConnectionFacts
  <2> QED
    BY <2>1 DEF Sharing, Shared, Continues
<1>2. \A c \in Sharing(in) : c \in in.connections
  BY DEF Sharing
<1>3. \A q : q \in pairs <=> \E c \in Sharing(in) : q \in Pairs(c)
  <2> HIDE DEF Pairs, joining
  <2> QED
    BY <1>1
<1>4. G = Blocks(Routes(in), pairs)
  BY Zenon DEF SupportGroups
<1> HIDE DEF pairs, joining, G
<1>5. \A q \in pairs : q # {} /\ q \subseteq Routes(in)
  <2> TAKE q \in pairs
  <2>1. PICK c \in Sharing(in) : q \in Pairs(c)
    BY <1>3
  <2>2. RoutesOf(c) \subseteq Routes(in) /\ c.participants[1].route \in RoutesOf(c)
    BY <1>2, ConnectionFacts
  <2> QED
    BY <2>1, <2>2
<1>6. IsFiniteSet(Routes(in))
  BY RouteFacts
<1>7. DividedBy(Routes(in), pairs, G)
  BY <1>4, <1>5, <1>6, BlocksDivide
<1>8. /\ G \subseteq SUBSET Routes(in) /\ UNION G = Routes(in)
      /\ \A a, b \in G : a # b => a \cap b = {}
      /\ \A b \in G : Closed(b, pairs)
      /\ \A T \in SUBSET Routes(in) : Closed(T, pairs) => \A b \in G : b \subseteq T \/ b \cap T = {}
  BY <1>7, Zenon DEF DividedBy
<1>9. IsFiniteSet(G)
  <2>1. IsFiniteSet(SUBSET Routes(in))
    BY <1>6, FS_SUBSET
  <2> QED
    BY <1>8, <2>1, FS_Subset
<1>10. ASSUME NEW c \in Sharing(in) PROVE \E group \in G : RoutesOf(c) \subseteq group
  <2>1. PICK r : r = c.participants[1].route
    OBVIOUS
  <2>2. RoutesOf(c) \subseteq Routes(in) /\ r \in RoutesOf(c)
    BY <1>2, <2>1, ConnectionFacts
  <2>3. PICK group \in G : r \in group
    BY <1>8, <2>2
  <2>4. ASSUME NEW q \in RoutesOf(c) PROVE q \in group
    <3>1. {r, q} \in pairs
      BY <1>3, <2>1
    <3>2. {r, q} \subseteq group \/ {r, q} \cap group = {}
      BY <1>8, <3>1, Zenon DEF Closed
    <3> QED
      BY <2>3, <3>2
  <2> QED
    BY <2>4
<1>11. ASSUME NEW apart \in SUBSET Routes(in),
              \A c \in Sharing(in) : RoutesOf(c) \subseteq apart \/ RoutesOf(c) \cap apart = {}
       PROVE  \A group \in G : group \subseteq apart \/ group \cap apart = {}
  <2>1. ASSUME NEW q \in pairs PROVE q \subseteq apart \/ q \cap apart = {}
    <3>1. PICK c \in Sharing(in) : q \in Pairs(c)
      BY <1>3
    <3>2. c.participants[1].route \in RoutesOf(c)
      BY <1>2, ConnectionFacts
    <3>3. q \subseteq RoutesOf(c)
      BY <3>1, <3>2
    <3> QED
      BY <1>11, <3>3
  <2>2. Closed(apart, pairs)
    BY <2>1 DEF Closed
  <2> QED
    BY <1>8, <2>2, Zenon
<1> QED
  BY <1>8, <1>9, <1>10, <1>11 DEF G

\* What fittings, routes and connections add, each where it is.
FittingExtras(in) ==
  [g \in { h \in Fittings(in) : Item(in, h).supportRule # None } |->
     Whole(in.rules[Item(in, g).supportRule].quantity)]
RouteExtras(in) == [r \in Routes(in) |-> Whole(in.routes[r].supports.extra)]
FirstExtras(in) == [c \in in.connections |-> Whole(c.before)]
SecondExtras(in) == [c \in in.connections |-> Whole(c.after)]
BothExtras(in) == [c \in in.connections |-> Whole(c.before + c.after)]

\* Where they are: at the route of a fitting, at a route, at the route of a participant.
RouteOfItem(in) == [g \in DOMAIN FittingExtras(in) |-> g[1]]
RouteItself(in) == [r \in Routes(in) |-> r]
FirstRoute(in) == [c \in in.connections |-> c.participants[1].route]
SecondRoute(in) == [c \in in.connections |-> c.participants[2].route]

\* The supports at the ends of the spacings of a group.
Spans(in, group) ==
  Ceil(Divide(SumOver(LAMBDA g : Item(in, g).length, GroupItems(in, group)), Configuration(in, group).spacing))

\* What of a family is at the routes of a group.
Here(f, at, group) == SumOf(Restrict(f, { x \in DOMAIN f : at[x] \in group }))

\* A family that is somewhere is counted once over the groups.
LEMMA CountedSomewhere ==
  ASSUME NEW in, InputAccepted(in), NEW f, IsFiniteSet(DOMAIN f), \A x \in DOMAIN f : f[x] \in Fractions,
         NEW at, \A x \in DOMAIN f : at[x] \in Routes(in),
         NEW w, DOMAIN w = SupportGroups(in), \A g \in SupportGroups(in) : w[g] = Here(f, at, g)
  PROVE  SumOf(w) = SumOf(f) /\ \A g \in SupportGroups(in) : w[g] \in Fractions
<1>1. PICK G : G = SupportGroups(in)
  OBVIOUS
<1>2. /\ IsFiniteSet(G) /\ UNION G = Routes(in)
      /\ \A g, h \in G : g # h => g \cap h = {}
  BY <1>1, GroupsDivide
<1>3. \A x \in DOMAIN f : at[x] \in UNION G
  BY <1>2
<1>4. DOMAIN w = G /\ \A b \in G : w[b] = SumOf(Restrict(f, { x \in DOMAIN f : at[x] \in b }))
  BY <1>1 DEF Here
<1>5. IsFiniteSet(DOMAIN f) /\ \A x \in DOMAIN f : f[x] \in Fractions
  OBVIOUS
<1>6. SumOf(w) = SumOf(f) /\ \A b \in G : w[b] \in Fractions
  BY <1>2, <1>3, <1>4, <1>5, SumByBlocks
<1> QED
  BY <1>1, <1>6

LEMMA ExtrasFit ==
  ASSUME NEW in, InputAccepted(in)
  PROVE  /\ IsFiniteSet(DOMAIN FittingExtras(in)) /\ DOMAIN FittingExtras(in) \subseteq Items(in)
         /\ \A g \in DOMAIN FittingExtras(in) : FittingExtras(in)[g] \in Fractions
         /\ IsFiniteSet(DOMAIN RouteExtras(in))
         /\ \A r \in DOMAIN RouteExtras(in) : RouteExtras(in)[r] \in Fractions
         /\ IsFiniteSet(in.connections)
         /\ \A c \in in.connections :
              /\ FirstExtras(in)[c] \in Fractions /\ SecondExtras(in)[c] \in Fractions
              /\ BothExtras(in)[c] = Add(FirstExtras(in)[c], SecondExtras(in)[c])
<1>1. DOMAIN FittingExtras(in) \in SUBSET Items(in)
  BY DEF FittingExtras, Fittings
<1>2. IsFiniteSet(DOMAIN FittingExtras(in))
  BY <1>1, ItemFacts, FS_Subset
<1>3. ASSUME NEW g \in DOMAIN FittingExtras(in) PROVE FittingExtras(in)[g] \in Fractions
  <2>1. /\ g \in Fittings(in) /\ Item(in, g).supportRule # None
        /\ FittingExtras(in)[g] = Whole(in.rules[Item(in, g).supportRule].quantity)
    BY DEF FittingExtras
  <2>2. IsRule(in, Item(in, g).supportRule, "fittingAdditionalSupport")
    BY <2>1, ItemFacts DEF Fittings, Segments
  <2>3. in.rules[Item(in, g).supportRule].quantity \in Nat
    BY <2>2, RuleFacts DEF IsRule
  <2> QED
    BY <2>1, <2>3, WholeFits
<1>4. IsFiniteSet(DOMAIN RouteExtras(in))
  BY RouteFacts DEF RouteExtras
<1>5. ASSUME NEW r \in DOMAIN RouteExtras(in) PROVE RouteExtras(in)[r] \in Fractions
  <2>1. r \in Routes(in) /\ RouteExtras(in)[r] = Whole(in.routes[r].supports.extra)
    BY DEF RouteExtras
  <2>2. SupportsAccepted(in, in.routes[r].supports)
    BY <2>1, RouteFacts
  <2>3. in.routes[r].supports.extra \in Nat
    BY <2>2, ConfigurationFacts
  <2> QED
    BY <2>1, <2>3, WholeFits
<1>6. IsFiniteSet(in.connections)
  BY Zenon DEF InputAccepted, ConnectionsAccepted, Collection
<1>7. ASSUME NEW c \in in.connections
      PROVE  /\ FirstExtras(in)[c] \in Fractions /\ SecondExtras(in)[c] \in Fractions
             /\ BothExtras(in)[c] = Add(FirstExtras(in)[c], SecondExtras(in)[c])
  <2>1. c.before \in Nat /\ c.after \in Nat
    BY ConnectionFacts
  <2>2. PICK m \in Nat, n \in Nat : m = c.before /\ n = c.after
    BY <2>1
  <2>3. /\ FirstExtras(in)[c] = Whole(m) /\ SecondExtras(in)[c] = Whole(n)
        /\ BothExtras(in)[c] = Whole(m + n)
    BY <2>2 DEF FirstExtras, SecondExtras, BothExtras
  <2>4. /\ Whole(m) \in Fractions /\ Whole(n) \in Fractions
        /\ Whole(m + n) = Add(Whole(m), Whole(n))
    BY WholeFits, WholesAdd
  <2> QED
    BY <2>3, <2>4
<1> QED
  BY <1>1, <1>2, <1>3, <1>4, <1>5, <1>6, <1>7

LEMMA SpansFit ==
  ASSUME NEW in, InputAccepted(in), NEW group \in SupportGroups(in)
  PROVE  Spans(in, group) \in Fractions
<1> DEFINE items == GroupItems(in, group)
           lengths == [g \in items |-> Item(in, g).length]
<1>1. items \in SUBSET Items(in)
  BY DEF GroupItems
<1>2. IsFiniteSet(items)
  BY <1>1, ItemFacts, FS_Subset
<1>3. SumOf(lengths) \in Fractions
  <2>1. DOMAIN lengths = items /\ \A g \in items : lengths[g] \in Fractions
    BY <1>1, ItemFacts
  <2> HIDE DEF lengths, items
  <2> QED
    BY <1>2, <2>1, SumFits
<1>4. PICK l, d : l = SumOf(lengths) /\ d = Configuration(in, group).spacing
  OBVIOUS
<1>5. l \in Fractions /\ d \in Positives
  BY <1>3, <1>4, GroupFits, ConfigurationFacts
<1>6. PICK n \in Nat : Ceil(Divide(l, d)) = Whole(n)
  BY <1>5, DivideFits, CeilFits
<1>7. Spans(in, group) = Ceil(Divide(l, d))
  BY <1>4, Zenon DEF Spans, SumOver
<1> QED
  BY <1>6, <1>7, WholeFits

LEMMA SupportCountParts ==
  ASSUME NEW in, InputAccepted(in), NEW group \in SupportGroups(in)
  PROVE  SupportCount(in, group) =
           Add(Add(Add(Spans(in, group), One), Here(FittingExtras(in), RouteOfItem(in), group)),
               Add(Here(RouteExtras(in), RouteItself(in), group),
                   Add(Here(FirstExtras(in), FirstRoute(in), group),
                       Here(SecondExtras(in), SecondRoute(in), group))))
<1> DEFINE resolved == { g \in GroupFittings(in, group) : Item(in, g).supportRule # None }
           first == { c \in in.connections : c.participants[1].route \in group }
           second == { c \in in.connections : c.participants[2].route \in group }
           extras == [g \in resolved |-> Whole(in.rules[Item(in, g).supportRule].quantity)]
           manual == [r \in group |-> Whole(in.routes[r].supports.extra)]
           before == [c \in first |-> Whole(c.before)]
           after == [c \in second |-> Whole(c.after)]
<1>1. SupportCount(in, group) =
        Add(Add(Add(Spans(in, group), One), SumOf(extras)),
            Add(SumOf(manual), Add(SumOf(before), SumOf(after))))
  BY Zenon DEF SupportCount, ConnectionExtras, SumOver, Spans
<1>2. extras = Restrict(FittingExtras(in), { x \in DOMAIN FittingExtras(in) : RouteOfItem(in)[x] \in group })
  <2>1. { x \in DOMAIN FittingExtras(in) : RouteOfItem(in)[x] \in group } = resolved
    BY DEF FittingExtras, RouteOfItem, GroupFittings, GroupItems, Fittings
  <2>2. \A g \in resolved : FittingExtras(in)[g] = Whole(in.rules[Item(in, g).supportRule].quantity)
    BY DEF FittingExtras, GroupFittings
  <2> HIDE DEF resolved
  <2> QED
    BY <2>1, <2>2 DEF Restrict
<1>3. manual = Restrict(RouteExtras(in), { x \in DOMAIN RouteExtras(in) : RouteItself(in)[x] \in group })
  <2>1. { x \in DOMAIN RouteExtras(in) : RouteItself(in)[x] \in group } = group
    BY GroupFits DEF RouteExtras, RouteItself
  <2>2. \A r \in group : RouteExtras(in)[r] = Whole(in.routes[r].supports.extra)
    BY GroupFits DEF RouteExtras
  <2> QED
    BY <2>1, <2>2 DEF Restrict
<1>4. before = Restrict(FirstExtras(in), { x \in DOMAIN FirstExtras(in) : FirstRoute(in)[x] \in group })
  <2>1. { x \in DOMAIN FirstExtras(in) : FirstRoute(in)[x] \in group } = first
    BY DEF FirstExtras, FirstRoute
  <2>2. \A c \in first : FirstExtras(in)[c] = Whole(c.before)
    BY DEF FirstExtras
  <2> HIDE DEF first
  <2> QED
    BY <2>1, <2>2 DEF Restrict
<1>5. after = Restrict(SecondExtras(in), { x \in DOMAIN SecondExtras(in) : SecondRoute(in)[x] \in group })
  <2>1. { x \in DOMAIN SecondExtras(in) : SecondRoute(in)[x] \in group } = second
    BY DEF SecondExtras, SecondRoute
  <2>2. \A c \in second : SecondExtras(in)[c] = Whole(c.after)
    BY DEF SecondExtras
  <2> HIDE DEF second
  <2> QED
    BY <2>1, <2>2 DEF Restrict
<1> HIDE DEF extras, manual, before, after
<1> QED
  BY <1>1, <1>2, <1>3, <1>4, <1>5, Zenon DEF Here

\* Exact numbers may be added in any order.
LEMMA SixAdd ==
  ASSUME NEW x \in Fractions, NEW o \in Fractions, NEW b \in Fractions, NEW m \in Fractions,
         NEW p \in Fractions, NEW q \in Fractions
  PROVE  Add(Add(Add(x, o), b), Add(m, Add(p, q))) = Add(Add(o, x), Add(Add(p, q), Add(b, m)))
<1>1. PICK s : s = Add(p, q)
  OBVIOUS
<1>2. PICK t : t = Add(x, o)
  OBVIOUS
<1>3. s \in Fractions /\ t \in Fractions /\ t = Add(o, x)
  BY <1>1, <1>2, AddLaws
<1>4. Add(m, s) \in Fractions
  BY <1>3, AddLaws
<1>5. Add(Add(t, b), Add(m, s)) = Add(t, Add(b, Add(m, s)))
  BY <1>3, <1>4, AddLaws
<1>6. Add(m, s) = Add(s, m)
  BY <1>3, AddLaws
<1>7. Add(b, Add(s, m)) = Add(s, Add(b, m))
  BY <1>3, AddSwaps
<1> QED
  BY <1>1, <1>2, <1>3, <1>5, <1>6, <1>7

\* What a fitting, a route or a connection adds is counted in one group.
LEMMA GroupCountsAddUp ==
  ASSUME NEW in, InputAccepted(in),
         NEW w, DOMAIN w = SupportGroups(in), \A g \in SupportGroups(in) : w[g] = SupportCount(in, g)
  PROVE  SumOf(w) =
           Add(SumOf([g \in SupportGroups(in) |-> Add(One, Spans(in, g))]),
               Add(SumOf(BothExtras(in)), Add(SumOf(FittingExtras(in)), SumOf(RouteExtras(in)))))
<1>1. PICK G : G = SupportGroups(in)
  OBVIOUS
<1>2. PICK x : x = [g \in G |-> Add(One, Spans(in, g))]
  OBVIOUS
<1>3. PICK b : b = [g \in G |-> Here(FittingExtras(in), RouteOfItem(in), g)]
  OBVIOUS
<1>4. PICK m : m = [g \in G |-> Here(RouteExtras(in), RouteItself(in), g)]
  OBVIOUS
<1>5. PICK p : p = [g \in G |-> Here(FirstExtras(in), FirstRoute(in), g)]
  OBVIOUS
<1>6. PICK q : q = [g \in G |-> Here(SecondExtras(in), SecondRoute(in), g)]
  OBVIOUS
<1>7. IsFiniteSet(G)
  BY <1>1, GroupsDivide
<1>8. One \in Fractions
  BY WholeFits DEF One
<1>9. DOMAIN x = G /\ \A g \in G : x[g] = Add(One, Spans(in, g)) /\ x[g] \in Fractions
  BY <1>1, <1>2, <1>8, SpansFit, AddLaws
<1>10. DOMAIN b = G /\ SumOf(b) = SumOf(FittingExtras(in)) /\ \A g \in G : b[g] \in Fractions
  <2>1. \A g \in DOMAIN FittingExtras(in) : RouteOfItem(in)[g] \in Routes(in)
    BY ExtrasFit, ItemFacts DEF RouteOfItem
  <2>2. IsFiniteSet(DOMAIN FittingExtras(in)) /\ \A g \in DOMAIN FittingExtras(in) : FittingExtras(in)[g] \in Fractions
    BY ExtrasFit
  <2>3. DOMAIN b = SupportGroups(in) /\ \A g \in SupportGroups(in) : b[g] = Here(FittingExtras(in), RouteOfItem(in), g)
    BY <1>1, <1>3
  <2> QED
    BY <1>1, <2>1, <2>2, <2>3, CountedSomewhere
<1>11. DOMAIN m = G /\ SumOf(m) = SumOf(RouteExtras(in)) /\ \A g \in G : m[g] \in Fractions
  <2>1. \A r \in DOMAIN RouteExtras(in) : RouteItself(in)[r] \in Routes(in)
    BY DEF RouteItself, RouteExtras
  <2>2. IsFiniteSet(DOMAIN RouteExtras(in)) /\ \A r \in DOMAIN RouteExtras(in) : RouteExtras(in)[r] \in Fractions
    BY ExtrasFit
  <2>3. DOMAIN m = SupportGroups(in) /\ \A g \in SupportGroups(in) : m[g] = Here(RouteExtras(in), RouteItself(in), g)
    BY <1>1, <1>4
  <2> QED
    BY <1>1, <2>1, <2>2, <2>3, CountedSomewhere
<1>12. DOMAIN p = G /\ SumOf(p) = SumOf(FirstExtras(in)) /\ \A g \in G : p[g] \in Fractions
  <2>1. DOMAIN FirstExtras(in) = in.connections
    BY DEF FirstExtras
  <2>2. \A c \in DOMAIN FirstExtras(in) : FirstRoute(in)[c] \in Routes(in)
    BY <2>1, ConnectionFacts DEF FirstRoute
  <2>3. IsFiniteSet(DOMAIN FirstExtras(in)) /\ \A c \in DOMAIN FirstExtras(in) : FirstExtras(in)[c] \in Fractions
    BY <2>1, ExtrasFit
  <2>4. DOMAIN p = SupportGroups(in) /\ \A g \in SupportGroups(in) : p[g] = Here(FirstExtras(in), FirstRoute(in), g)
    BY <1>1, <1>5
  <2> QED
    BY <1>1, <2>2, <2>3, <2>4, CountedSomewhere
<1>13. DOMAIN q = G /\ SumOf(q) = SumOf(SecondExtras(in)) /\ \A g \in G : q[g] \in Fractions
  <2>1. DOMAIN SecondExtras(in) = in.connections
    BY DEF SecondExtras
  <2>2. \A c \in DOMAIN SecondExtras(in) : SecondRoute(in)[c] \in Routes(in)
    BY <2>1, ConnectionFacts DEF SecondRoute
  <2>3. IsFiniteSet(DOMAIN SecondExtras(in)) /\ \A c \in DOMAIN SecondExtras(in) : SecondExtras(in)[c] \in Fractions
    BY <2>1, ExtrasFit
  <2>4. DOMAIN q = SupportGroups(in) /\ \A g \in SupportGroups(in) : q[g] = Here(SecondExtras(in), SecondRoute(in), g)
    BY <1>1, <1>6
  <2> QED
    BY <1>1, <2>2, <2>3, <2>4, CountedSomewhere
<1>14. PICK s : s = [g \in G |-> Add(p[g], q[g])]
  OBVIOUS
<1>15. PICK t : t = [g \in G |-> Add(b[g], m[g])]
  OBVIOUS
<1>16. PICK u : u = [g \in G |-> Add(s[g], t[g])]
  OBVIOUS
<1>17. DOMAIN s = G /\ SumOf(s) = Add(SumOf(p), SumOf(q)) /\ \A g \in G : s[g] = Add(p[g], q[g]) /\ s[g] \in Fractions
  <2>1. DOMAIN s = G /\ \A g \in G : s[g] = Add(p[g], q[g]) /\ s[g] \in Fractions
    BY <1>12, <1>13, <1>14, AddLaws
  <2> QED
    BY <1>7, <1>12, <1>13, <2>1, SumOfSums
<1>18. DOMAIN t = G /\ SumOf(t) = Add(SumOf(b), SumOf(m)) /\ \A g \in G : t[g] = Add(b[g], m[g]) /\ t[g] \in Fractions
  <2>1. DOMAIN t = G /\ \A g \in G : t[g] = Add(b[g], m[g]) /\ t[g] \in Fractions
    BY <1>10, <1>11, <1>15, AddLaws
  <2> QED
    BY <1>7, <1>10, <1>11, <2>1, SumOfSums
<1>19. DOMAIN u = G /\ SumOf(u) = Add(SumOf(s), SumOf(t)) /\ \A g \in G : u[g] = Add(s[g], t[g]) /\ u[g] \in Fractions
  <2>1. DOMAIN u = G /\ \A g \in G : u[g] = Add(s[g], t[g]) /\ u[g] \in Fractions
    BY <1>16, <1>17, <1>18, AddLaws
  <2> QED
    BY <1>7, <1>17, <1>18, <2>1, SumOfSums
<1>20. \A g \in G : w[g] = Add(x[g], u[g])
  <2> TAKE g \in G
  <2>1. w[g] = Add(Add(Add(Spans(in, g), One), b[g]), Add(m[g], Add(p[g], q[g])))
    BY <1>1, <1>3, <1>4, <1>5, <1>6, SupportCountParts
  <2>2. Spans(in, g) \in Fractions
    BY <1>1, SpansFit
  <2>3. w[g] = Add(Add(One, Spans(in, g)), Add(Add(p[g], q[g]), Add(b[g], m[g])))
    BY <1>8, <1>10, <1>11, <1>12, <1>13, <2>1, <2>2, SixAdd
  <2> QED
    BY <1>9, <1>17, <1>18, <1>19, <2>3
<1>21. SumOf(w) = Add(SumOf(x), SumOf(u))
  BY <1>1, <1>7, <1>9, <1>19, <1>20, SumOfSums
<1>22. SumOf(BothExtras(in)) = Add(SumOf(FirstExtras(in)), SumOf(SecondExtras(in)))
  <2>1. /\ DOMAIN FirstExtras(in) = in.connections /\ DOMAIN SecondExtras(in) = in.connections
        /\ DOMAIN BothExtras(in) = in.connections
    BY DEF FirstExtras, SecondExtras, BothExtras
  <2> QED
    BY <2>1, ExtrasFit, SumOfSums
<1> QED
  BY <1>1, <1>2, <1>10, <1>11, <1>12, <1>13, <1>17, <1>18, <1>19, <1>21, <1>22

\* A family without repetitions has as many values as members.
LEMMA ImageCounts ==
  ASSUME NEW f, IsFiniteSet(DOMAIN f), \A x, y \in DOMAIN f : f[x] = f[y] => x = y
  PROVE  /\ IsFiniteSet({ f[x] : x \in DOMAIN f })
         /\ Cardinality({ f[x] : x \in DOMAIN f }) = Cardinality(DOMAIN f)
<1> DEFINE T == { f[x] : x \in DOMAIN f }
           h == [x \in DOMAIN f |-> f[x]]
<1>1. h \in Bijection(DOMAIN f, T)
  <2>1. h \in [DOMAIN f -> T] /\ \A x, y \in DOMAIN f : h[x] = h[y] => x = y
    OBVIOUS
  <2>2. \A t \in T : \E x \in DOMAIN f : h[x] = t
    OBVIOUS
  <2>3. h \in Injection(DOMAIN f, T)
    BY <2>1, Zenon DEF Injection, IsInjective
  <2>4. h \in Surjection(DOMAIN f, T)
    BY <2>1, <2>2, Zenon DEF Surjection
  <2> QED
    BY <2>3, <2>4, Zenon DEF Bijection
<1>2. ExistsBijection(DOMAIN f, T)
  BY <1>1, Zenon DEF ExistsBijection
<1> HIDE DEF T, h
<1>3. IsFiniteSet(T) /\ Cardinality(T) = Cardinality(DOMAIN f)
  BY <1>2, FS_Bijection
<1> QED
  BY <1>3 DEF T

\* If the supports of every group are counted, their total is that of the groups.
LEMMA SupportsAddUp ==
  ASSUME NEW in, InputAccepted(in), NEW counted, \A e \in counted : OfSupportGroup(in, e),
         Cardinality(counted) = Cardinality(SupportGroups(in))
  PROVE  Total(counted) =
           Add(SumOf([g \in SupportGroups(in) |-> Add(One, Spans(in, g))]),
               Add(SumOf(BothExtras(in)), Add(SumOf(FittingExtras(in)), SumOf(RouteExtras(in)))))
<1>1. PICK G : G = SupportGroups(in)
  OBVIOUS
<1>2. PICK f : f = [g \in G |-> SupportEvent(in, g)]
  OBVIOUS
<1>3. DOMAIN f = G /\ \A g \in G : f[g] = SupportEvent(in, g)
  BY <1>2
<1>4. IsFiniteSet(G)
  BY <1>1, GroupsDivide
<1>5. \A g \in G : f[g].from[2] = <<"supportGroup", g>> /\ f[g].quantity = SupportCount(in, g)
  <2> TAKE g \in G
  <2>1. PICK p : p = Configuration(in, g).product
    OBVIOUS
  <2>2. PICK from, n : from = <<"support", GroupSubject(g), p, None>> /\ n = SupportCount(in, g)
    OBVIOUS
  <2>3. f[g] = Event(in, from, p, "support", n, "calculated")
    BY <1>3, <2>1, <2>2 DEF SupportEvent
  <2>4. f[g].from = from /\ f[g].quantity = n
    BY <2>3, EventFits
  <2>5. from[2] = GroupSubject(g)
    BY <2>2
  <2> QED
    BY <2>2, <2>4, <2>5, Zenon DEF GroupSubject
<1>6. ASSUME NEW g \in G, NEW h \in G, f[g] = f[h] PROVE g = h
  <2>1. <<"supportGroup", g>> = <<"supportGroup", h>>
    BY <1>5, <1>6
  <2> QED
    BY <2>1
<1>7. PICK all : all = { f[g] : g \in DOMAIN f }
  OBVIOUS
<1>8. IsFiniteSet(all) /\ Cardinality(all) = Cardinality(G)
  BY <1>3, <1>4, <1>6, <1>7, ImageCounts
<1>9. counted \in SUBSET all
  <2> SUFFICES ASSUME NEW e \in counted PROVE e \in all
    OBVIOUS
  <2>1. PICK g \in G : e = SupportEvent(in, g)
    BY <1>1 DEF OfSupportGroup
  <2> QED
    BY <1>3, <1>7, <2>1
<1>10. counted = all
  BY <1>1, <1>8, <1>9, FS_Subset
<1>11. PICK v : v = [g \in G |-> SupportCount(in, g)]
  OBVIOUS
<1>12. PICK w : w = [e \in counted |-> e.quantity]
  OBVIOUS
<1>13. DOMAIN v = G /\ \A g \in G : v[g] = SupportCount(in, g) /\ v[g] \in Fractions
  BY <1>1, <1>11, SupportCountFits, FractionTypes
<1>14. DOMAIN w = { f[g] : g \in DOMAIN v } /\ \A g \in DOMAIN v : w[f[g]] = v[g]
  <2>1. DOMAIN w = { f[g] : g \in DOMAIN v }
    BY <1>3, <1>7, <1>10, <1>12, <1>13
  <2>2. \A g \in DOMAIN v : f[g] \in counted
    BY <1>3, <1>7, <1>10, <1>13
  <2> QED
    BY <1>5, <1>12, <1>13, <2>1, <2>2
<1>15. IsFiniteSet(DOMAIN v) /\ (\A x \in DOMAIN v : v[x] \in Fractions) /\ \A x, y \in DOMAIN v : f[x] = f[y] => x = y
  BY <1>4, <1>6, <1>13
<1>16. SumOf(w) = SumOf(v)
  BY <1>14, <1>15, SumOfImage
<1>17. Total(counted) = SumOf(w)
  BY <1>12, Zenon DEF Total, SumOver
<1>18. DOMAIN v = SupportGroups(in) /\ \A g \in SupportGroups(in) : v[g] = SupportCount(in, g)
  BY <1>1, <1>13
<1>19. PICK total : total = Add(SumOf([g \in SupportGroups(in) |-> Add(One, Spans(in, g))]),
               Add(SumOf(BothExtras(in)), Add(SumOf(FittingExtras(in)), SumOf(RouteExtras(in)))))
  OBVIOUS
<1>20. SumOf(v) = total
  BY <1>18, <1>19, GroupCountsAddUp
<1> QED
  BY <1>16, <1>17, <1>19, <1>20

LEMMA TopologyCountsSupports ==
  TopologyKept => SupportsAreCountedOnce
<1> SUFFICES ASSUME TopologyKept PROVE SupportsAreCountedOnce
  OBVIOUS
<1>1. /\ InputAccepted(input) /\ groups = SupportGroups(input)
      /\ \A e \in events : FromTopology(input, e)
  BY DEF TopologyKept, Original
<1>2. PICK in : in = input
  OBVIOUS
<1>3. PICK counted : counted = { e \in events : e.category = "support" /\ e.from[4] = None }
  OBVIOUS
<1>4. ASSUME NEW e \in counted PROVE OfSupportGroup(in, e)
  <2>1. FromTopology(in, e) /\ e.category = "support" /\ e.from[4] = None
    BY <1>1, <1>2, <1>3
  <2> QED
    BY <2>1 DEF FromTopology, Elsewhere
<1>5. UNION groups = Routes(input) /\ \A g, h \in groups : g # h => g \cap h = {}
  BY <1>1, GroupsDivide
<1>6. /\ \A c \in Sharing(input) : \E group \in groups : RoutesOf(c) \subseteq group
      /\ \A apart \in SUBSET Routes(input) :
           (\A c \in Sharing(input) : RoutesOf(c) \subseteq apart \/ RoutesOf(c) \cap apart = {}) =>
             \A group \in groups : group \subseteq apart \/ group \cap apart = {}
  BY <1>1, GroupsDivide
<1>7. Cardinality(counted) = Cardinality(groups) =>
        Total(counted) =
           Add(SumOf([g \in SupportGroups(input) |-> Add(One, Spans(input, g))]),
               Add(SumOf(BothExtras(input)), Add(SumOf(FittingExtras(input)), SumOf(RouteExtras(input)))))
  BY <1>1, <1>2, <1>4, SupportsAddUp
<1>8. /\ SumOf([g \in SupportGroups(input) |-> Add(One, Spans(input, g))]) =
           SumOver(LAMBDA group :
             Add(One, Ceil(Divide(SumOver(LAMBDA g : Item(input, g).length, GroupItems(input, group)),
                                  Configuration(input, group).spacing))), SupportGroups(input))
      /\ SumOf(BothExtras(input)) = SumOver(LAMBDA c : Whole(c.before + c.after), input.connections)
  BY Zenon DEF SumOver, Spans, BothExtras
<1>9. /\ SumOf(FittingExtras(input)) =
           SumOver(LAMBDA g : Whole(input.rules[Item(input, g).supportRule].quantity),
                   { g \in Fittings(input) : Item(input, g).supportRule # None })
      /\ SumOf(RouteExtras(input)) = SumOver(LAMBDA r : Whole(input.routes[r].supports.extra), Routes(input))
  BY Zenon DEF SumOver, FittingExtras, RouteExtras
<1> QED
  BY <1>1, <1>3, <1>5, <1>6, <1>7, <1>8, <1>9, Zenon DEF SupportsAreCountedOnce, Sharing

-----------------------------------------------------------------------------
(* What is counted follows the topology: the joints.                       *)

LEMMA PlacedFacts ==
  ASSUME NEW in, InputAccepted(in), NEW emitted, SectionsCounted(emitted)
  PROVE  /\ IsFiniteSet(SegmentsOf(in, emitted)) /\ SegmentsOf(in, emitted) \subseteq Items(in)
         /\ \A g \in SegmentsOf(in, emitted) :
              /\ g = <<g[1], g[2]>> /\ g[1] \in Routes(in) /\ g[2] \in Nat
              /\ \E n \in Nat \ {0} : SectionOf(in, emitted, g).count = Whole(n)
<1>1. SegmentsOf(in, emitted) \in SUBSET Items(in)
  BY DEF SegmentsOf, Segments
<1>2. IsFiniteSet(SegmentsOf(in, emitted))
  BY <1>1, ItemFacts, FS_Subset
<1>3. ASSUME NEW g \in SegmentsOf(in, emitted)
      PROVE  \E n \in Nat \ {0} : SectionOf(in, emitted, g).count = Whole(n)
  <2>1. <<"segment", Item(in, g).id>> \in { e.from[2] : e \in emitted }
    BY DEF SegmentsOf
  <2>2. \E e \in emitted : e.from[2] = <<"segment", Item(in, g).id>>
    BY <2>1
  <2>3. SectionOf(in, emitted, g) \in emitted
    BY <2>2, Zenon DEF SectionOf
  <2> QED
    BY <2>3 DEF SectionsCounted
<1>4. ASSUME NEW g \in SegmentsOf(in, emitted) PROVE g = <<g[1], g[2]>> /\ g[1] \in Routes(in) /\ g[2] \in Nat
  <2>1. PICK r \in Routes(in) : \E i \in DOMAIN in.routes[r].geometry : g = <<r, i>>
    BY <1>1 DEF Items
  <2>5. PICK i \in DOMAIN in.routes[r].geometry : g = <<r, i>>
    BY <2>1
  <2>2. RouteAccepted(in, in.routes[r])
    BY RouteFacts
  <2>3. IsSequence(in.routes[r].geometry)
    BY <2>2, Zenon DEF RouteAccepted
  <2>4. i \in Nat
    BY <2>3, IndicesOf
  <2> QED
    BY <2>4, <2>5
<1> QED
  BY <1>1, <1>2, <1>3, <1>4

\* The straight runs divide what is placed.
LEMMA RunsDivide ==
  ASSUME NEW in, InputAccepted(in), NEW emitted, SectionsCounted(emitted),
         NEW placed, placed = SegmentsOf(in, emitted)
  PROVE  DividedBy(placed, Adjacent(in, placed), StraightRuns(in, placed))
<1>2. PICK pairs : pairs = Adjacent(in, placed)
  OBVIOUS
<1>3. IsFiniteSet(placed)
  BY PlacedFacts
<1>4. pairs \subseteq { {g, h} : g, h \in placed }
  BY <1>2, SMT DEF Adjacent
<1>7. \A q \in pairs : \E g, h \in placed : q = {g, h}
  BY <1>4
<1>5. {} \notin pairs /\ \A q \in pairs : q \subseteq placed
  BY <1>7
<1>6. DividedBy(placed, pairs, Blocks(placed, pairs))
  BY <1>3, <1>5, BlocksDivide
<1> QED
  BY <1>2, <1>6 DEF StraightRuns

\* The gaps between consecutive segments, and the continuations, that have a joint.
Gaps(placed) == { g \in placed : <<g[1], g[2] + 1>> \in placed }
GapPair(g) == {g, <<g[1], g[2] + 1>>}
LinkEnds(in, l) == {BoundaryItem(in, l[1].participants[1]), BoundaryItem(in, l[1].participants[l[2]])}
Across(in, placed) ==
  { l \in Links(in) : LET g == BoundaryItem(in, l[1].participants[1])
                          h == BoundaryItem(in, l[1].participants[l[2]])
                      IN {g, h} \subseteq placed /\ SameProduct(in, g, h) }
Places(in, placed) == ({1} \X Gaps(placed)) \cup ({2} \X Across(in, placed))
PairAt(in, placed) == [i \in Places(in, placed) |-> IF i[1] = 1 THEN GapPair(i[2]) ELSE LinkEnds(in, i[2])]

LEMMA LinkFacts ==
  ASSUME NEW in, InputAccepted(in)
  PROVE  /\ IsFiniteSet(Links(in))
         /\ \A c \in in.connections : c.type = "logicalContinuation" =>
              \A i \in 2..Len(c.participants) : <<c, i>> \in Links(in)
         /\ \A l \in Links(in) :
              /\ l = <<l[1], l[2]>> /\ l[1] \in in.connections /\ l[1].type = "logicalContinuation"
              /\ l[2] \in 2..Len(l[1].participants)
              /\ BoundaryItem(in, l[1].participants[1])[1] = l[1].participants[1].route
              /\ BoundaryItem(in, l[1].participants[l[2]])[1] = l[1].participants[l[2]].route
<1>1. ASSUME NEW l \in Links(in)
      PROVE  /\ l = <<l[1], l[2]>> /\ l[1] \in in.connections /\ l[1].type = "logicalContinuation"
             /\ l[2] \in 2..Len(l[1].participants)
  <2>1. PICK c \in in.connections :
          c.type = "logicalContinuation" /\ l \in { <<c, i>> : i \in 2..Len(c.participants) }
    BY Zenon DEF Links
  <2>2. PICK i \in 2..Len(c.participants) : l = <<c, i>>
    BY <2>1
  <2> QED
    BY <2>1, <2>2
<1>2. \A p : BoundaryItem(in, p)[1] = p.route
  BY DEF BoundaryItem
<1>3. IsFiniteSet(Links(in))
  <2>1. IsFiniteSet(in.connections)
    BY ExtrasFit
  <2>2. 2 \in Int /\ 3 \in Int
    OBVIOUS
  <2>3. IsFiniteSet(2..3)
    BY <2>2, FS_Interval, Zenon
  <2>4. IsFiniteSet(in.connections \X (2..3))
    BY <2>1, <2>3, FS_Product
  <2>5. Links(in) \in SUBSET (in.connections \X (2..3))
    <3> SUFFICES ASSUME NEW l \in Links(in) PROVE l \in in.connections \X (2..3)
      OBVIOUS
    <3>1. l = <<l[1], l[2]>> /\ l[1] \in in.connections /\ l[2] \in 2..Len(l[1].participants)
      BY <1>1
    <3>2. Len(l[1].participants) \in {2, 3}
      BY <3>1, ConnectionFacts
    <3>3. l[2] \in 2..3
      <4>1. PICK n \in {2, 3} : n = Len(l[1].participants)
        BY <3>2
      <4>2. l[2] \in 2..n
        BY <3>1, <4>1
      <4> QED
        BY <4>2
    <3> QED
      BY <3>1, <3>3
  <2> QED
    BY <2>4, <2>5, FS_Subset
<1>4. ASSUME NEW c \in in.connections, NEW i \in 2..Len(c.participants), c.type = "logicalContinuation"
      PROVE  <<c, i>> \in Links(in)
  BY <1>4 DEF Links
<1> QED
  BY <1>1, <1>2, <1>3, <1>4

\* The places where runs are joined are counted apart.
LEMMA PlacesCount ==
  ASSUME NEW in, InputAccepted(in), NEW placed, IsFiniteSet(placed)
  PROVE  /\ IsFiniteSet(Places(in, placed))
         /\ Cardinality(Places(in, placed)) = Cardinality(Gaps(placed)) + Cardinality(Across(in, placed))
         /\ Cardinality(Gaps(placed)) \in Nat /\ Cardinality(Across(in, placed)) \in Nat
<1>1. PICK A, B : A = Gaps(placed) /\ B = Across(in, placed)
  OBVIOUS
<1>2. IsFiniteSet(A)
  <2>1. A \in SUBSET placed
    BY <1>1 DEF Gaps
  <2> QED
    BY <2>1, FS_Subset
<1>3. IsFiniteSet(B)
  <2>1. B \in SUBSET Links(in)
    BY <1>1 DEF Across
  <2> QED
    BY <2>1, LinkFacts, FS_Subset
<1>4. /\ IsFiniteSet({1}) /\ Cardinality({1}) = 1 /\ IsFiniteSet({2}) /\ Cardinality({2}) = 1
  BY FS_Singleton
<1>5. PICK P, Q : P = {1} \X A /\ Q = {2} \X B
  OBVIOUS
<1>6. Cardinality(A) \in Nat /\ Cardinality(B) \in Nat
  BY <1>2, <1>3, FS_CardinalityType
<1>7. IsFiniteSet(P) /\ Cardinality(P) = Cardinality(A) /\ IsFiniteSet(Q) /\ Cardinality(Q) = Cardinality(B)
  <2>1. /\ IsFiniteSet({1} \X A) /\ Cardinality({1} \X A) = Cardinality({1}) * Cardinality(A)
        /\ IsFiniteSet({2} \X B) /\ Cardinality({2} \X B) = Cardinality({2}) * Cardinality(B)
    BY <1>2, <1>3, <1>4, FS_Product
  <2> QED
    BY <1>4, <1>5, <1>6, <2>1
<1>8. P \cap Q = {}
  BY <1>5
<1>9. Cardinality({}) = 0
  BY FS_EmptySet
<1>10. IsFiniteSet(P \cup Q) /\ Cardinality(P \cup Q) = Cardinality(A) + Cardinality(B)
  <2>1. IsFiniteSet(P \cup Q) /\ Cardinality(P \cup Q) = Cardinality(P) + Cardinality(Q) - Cardinality(P \cap Q)
    BY <1>7, FS_Union
  <2>2. Cardinality(P \cap Q) = 0
    BY <1>8, <1>9
  <2> QED
    BY <1>6, <1>7, <2>1, <2>2
<1>11. Places(in, placed) = P \cup Q
  BY <1>1, <1>5 DEF Places
<1> QED
  BY <1>1, <1>6, <1>10, <1>11

LEMMA PairsAtPlaces ==
  ASSUME NEW in, InputAccepted(in), NEW placed
  PROVE  /\ \A i \in Places(in, placed) :
              \/ \E g \in Gaps(placed) : i = <<1, g>> /\ PairAt(in, placed)[i] = GapPair(g)
              \/ \E l \in Across(in, placed) : i = <<2, l>> /\ PairAt(in, placed)[i] = LinkEnds(in, l)
         /\ Adjacent(in, placed) = ValuesOf(PairAt(in, placed), Places(in, placed))
<1>1. ASSUME NEW i \in Places(in, placed)
      PROVE  \/ \E g \in Gaps(placed) : i = <<1, g>> /\ PairAt(in, placed)[i] = GapPair(g)
             \/ \E l \in Across(in, placed) : i = <<2, l>> /\ PairAt(in, placed)[i] = LinkEnds(in, l)
  <2>1. PairAt(in, placed)[i] = IF i[1] = 1 THEN GapPair(i[2]) ELSE LinkEnds(in, i[2])
    BY DEF PairAt
  <2>2. i \in {1} \X Gaps(placed) \/ i \in {2} \X Across(in, placed)
    BY DEF Places
  <2> QED
    BY <2>1, <2>2
<1>2. ASSUME NEW g \in Gaps(placed) PROVE GapPair(g) \in ValuesOf(PairAt(in, placed), Places(in, placed))
  <2>1. <<1, g>> \in Places(in, placed)
    BY DEF Places
  <2>2. PairAt(in, placed)[<<1, g>>] = GapPair(g)
    BY <2>1 DEF PairAt
  <2> QED
    BY <2>1, <2>2 DEF ValuesOf
<1>3. ASSUME NEW l \in Across(in, placed) PROVE LinkEnds(in, l) \in ValuesOf(PairAt(in, placed), Places(in, placed))
  <2>1. <<2, l>> \in Places(in, placed)
    BY DEF Places
  <2>2. PairAt(in, placed)[<<2, l>>] = LinkEnds(in, l)
    BY <2>1 DEF PairAt
  <2> QED
    BY <2>1, <2>2 DEF ValuesOf
<1> DEFINE In(q) == q \in { {g, h} : g, h \in placed }
           Linking(c, q) == \E j \in 2..Len(c.participants) :
                              /\ SameProduct(in, BoundaryItem(in, c.participants[1]), BoundaryItem(in, c.participants[j]))
                              /\ q = {BoundaryItem(in, c.participants[1]), BoundaryItem(in, c.participants[j])}
<1>4. \A q : q \in Adjacent(in, placed) <=>
               /\ In(q)
               /\ \/ \E g \in placed : q = GapPair(g)
                  \/ \E c \in in.connections : Continues(c) /\ Linking(c, q)
  <2>1. PICK steps : steps = { {g, <<g[1], g[2] + 1>>} : g \in placed }
    OBVIOUS
  <2>2. PICK links : links = UNION { { {BoundaryItem(in, c.participants[1]), BoundaryItem(in, c.participants[i])}
                     : i \in { j \in 2..Len(c.participants) :
                                 SameProduct(in, BoundaryItem(in, c.participants[1]),
                                             BoundaryItem(in, c.participants[j])) } }
                 : c \in { d \in in.connections : Continues(d) } }
    OBVIOUS
  <2>3. Adjacent(in, placed) = { {g, h} : g, h \in placed } \cap (steps \cup links)
    BY <2>1, <2>2 DEF Adjacent
  <2>4. \A q : q \in steps <=> \E g \in placed : q = GapPair(g)
    BY <2>1 DEF GapPair
  <2>5. \A q : q \in links <=> \E c \in in.connections : Continues(c) /\ Linking(c, q)
    BY <2>2
  <2> HIDE DEF Linking
  <2> QED
    BY <2>3, <2>4, <2>5
<1>5. ASSUME NEW q \in Adjacent(in, placed) PROVE q \in ValuesOf(PairAt(in, placed), Places(in, placed))
  <2>1. q \subseteq placed
    BY <1>4
  <2>2. CASE \E g \in placed : q = GapPair(g)
    <3>1. PICK g \in placed : q = GapPair(g)
      BY <2>2
    <3>2. g \in Gaps(placed)
      BY <2>1, <3>1 DEF GapPair, Gaps
    <3> QED
      BY <1>2, <3>1, <3>2
  <2>3. CASE \E c \in in.connections : Continues(c) /\ Linking(c, q)
    <3>1. PICK c \in in.connections : Continues(c) /\ Linking(c, q)
      BY <2>3
    <3>2. PICK j \in 2..Len(c.participants) :
            /\ SameProduct(in, BoundaryItem(in, c.participants[1]), BoundaryItem(in, c.participants[j]))
            /\ q = {BoundaryItem(in, c.participants[1]), BoundaryItem(in, c.participants[j])}
      BY <3>1
    <3>3. PICK l : l = <<c, j>>
      OBVIOUS
    <3>4. l \in Links(in) /\ l[1] = c /\ l[2] = j
      BY <3>1, <3>3, LinkFacts DEF Continues
    <3>5. l \in Across(in, placed) /\ q = LinkEnds(in, l)
      BY <2>1, <3>2, <3>4 DEF Across, LinkEnds
    <3> QED
      BY <1>3, <3>5
  <2> QED
    BY <1>4, <2>2, <2>3
<1>6. ASSUME NEW g \in Gaps(placed) PROVE GapPair(g) \in Adjacent(in, placed)
  <2>1. g \in placed /\ <<g[1], g[2] + 1>> \in placed
    BY DEF Gaps
  <2>2. In(GapPair(g))
    BY <2>1 DEF GapPair
  <2> QED
    BY <1>4, <2>1, <2>2
<1>7. ASSUME NEW l \in Across(in, placed) PROVE LinkEnds(in, l) \in Adjacent(in, placed)
  <2>1. l \in Links(in)
    BY DEF Across
  <2>2. PICK g, h : g = BoundaryItem(in, l[1].participants[1]) /\ h = BoundaryItem(in, l[1].participants[l[2]])
    OBVIOUS
  <2>3. {g, h} \subseteq placed /\ SameProduct(in, g, h) /\ LinkEnds(in, l) = {g, h}
    BY <2>2 DEF Across, LinkEnds
  <2>4. PICK c : c = l[1]
    OBVIOUS
  <2>5. c \in in.connections /\ Continues(c) /\ l[2] \in 2..Len(c.participants)
    BY <2>1, <2>4, LinkFacts, ConnectionFacts DEF Continues
  <2>6. Linking(c, {g, h})
    BY <2>2, <2>3, <2>4, <2>5
  <2>7. In({g, h})
    BY <2>3
  <2> HIDE DEF Linking, In
  <2> QED
    BY <1>4, <2>3, <2>5, <2>6, <2>7
<1>8. \A i \in Places(in, placed) : PairAt(in, placed)[i] \in Adjacent(in, placed)
  BY <1>1, <1>6, <1>7
<1>9. ValuesOf(PairAt(in, placed), Places(in, placed)) \subseteq Adjacent(in, placed)
  BY <1>8 DEF ValuesOf
<1>10. Adjacent(in, placed) = ValuesOf(PairAt(in, placed), Places(in, placed))
  BY <1>5, <1>9
<1> QED
  BY <1>1, <1>10

\* Of the joined places some close no ring: one of any of them is the only one to leave
\* the segments on one side of it.
LEMMA PlacesCloseNoRing ==
  ASSUME NEW in, InputAccepted(in), ~ClosesRing(in), NEW emitted, SectionsCounted(emitted),
         NEW placed, placed = SegmentsOf(in, emitted),
         NEW J \in SUBSET Places(in, placed), J # {}
  PROVE  CutsApart(placed, PairAt(in, placed), J)
<1> DEFINE pair == PairAt(in, placed)
           L == { l \in Across(in, placed) : <<2, l>> \in J }
<1>1. \A i \in J : \/ \E g \in Gaps(placed) : i = <<1, g>> /\ pair[i] = GapPair(g)
                   \/ \E l \in Across(in, placed) : i = <<2, l>> /\ pair[i] = LinkEnds(in, l)
  BY PairsAtPlaces
<1>2. \A g \in placed : g = <<g[1], g[2]>> /\ g[2] \in Nat
  BY PlacedFacts
<1>3. \A l \in Across(in, placed) : l \in Links(in)
  BY DEF Across
<1>4. \A g \in Gaps(placed) : g \in placed /\ <<g[1], g[2] + 1>> \in placed
  BY DEF Gaps
<1> HIDE DEF pair
<1>5. CASE L # {}
  <2>1. L \in (SUBSET Links(in)) \ {{}}
    BY <1>3, <1>5
  <2> HIDE DEF L
  <2>2. ~ \A l \in L : \A r \in Linked(l) : Linked(l) = {r} \/ \E k \in L \ {l} : r \in Linked(k)
    BY <2>1, Zenon DEF ClosesRing
  <2>3. PICK l \in L : ~ \A r \in Linked(l) : Linked(l) = {r} \/ \E k \in L \ {l} : r \in Linked(k)
    BY <2>2
  <2>4. PICK r \in Linked(l) : Linked(l) # {r} /\ \A k \in L \ {l} : r \notin Linked(k)
    BY <2>3
  <2>5. PICK T : T = { x \in placed : x[1] = r }
    OBVIOUS
  <2>6. \A k \in L : k \in Across(in, placed) /\ <<2, k>> \in J
    BY DEF L
  <2>7. \A k \in Across(in, placed) : \E g, h \in placed : LinkEnds(in, k) = {g, h} /\ Linked(k) = {g[1], h[1]}
    <3> TAKE k \in Across(in, placed)
    <3>1. PICK g, h : g = BoundaryItem(in, k[1].participants[1]) /\ h = BoundaryItem(in, k[1].participants[k[2]])
      OBVIOUS
    <3>2. {g, h} \subseteq placed
      BY <3>1 DEF Across
    <3>3. g[1] = k[1].participants[1].route /\ h[1] = k[1].participants[k[2]].route
      BY <1>3, <3>1, LinkFacts
    <3> QED
      BY <3>1, <3>2, <3>3 DEF LinkEnds, Linked
  <2>8. PICK j : j = <<2, l>>
    OBVIOUS
  <2>9. j \in J
    BY <2>6, <2>8
  <2>10. pair[j] = LinkEnds(in, l)
    BY <1>1, <2>8, <2>9
  <2>11. Cuts(T, pair[j])
    <3>1. PICK g \in placed, h \in placed : LinkEnds(in, l) = {g, h} /\ Linked(l) = {g[1], h[1]}
      BY <2>6, <2>7
    <3>2. (g[1] = r /\ h[1] # r) \/ (g[1] # r /\ h[1] = r)
      BY <2>4, <3>1
    <3>3. (g \in T <=> g[1] = r) /\ (h \in T <=> h[1] = r)
      BY <2>5
    <3> QED
      BY <2>10, <3>1, <3>2, <3>3 DEF Cuts
  <2>12. ASSUME NEW i \in J \ {j} PROVE pair[i] \subseteq T \/ pair[i] \cap T = {}
    <3>1. CASE \E g \in Gaps(placed) : i = <<1, g>> /\ pair[i] = GapPair(g)
      <4>1. PICK g \in Gaps(placed) : pair[i] = GapPair(g)
        BY <3>1
      <4>2. g \in T <=> <<g[1], g[2] + 1>> \in T
        BY <1>4, <2>5
      <4> QED
        BY <4>1, <4>2 DEF GapPair
    <3>2. CASE \E k \in Across(in, placed) : i = <<2, k>> /\ pair[i] = LinkEnds(in, k)
      <4>1. PICK k \in Across(in, placed) : i = <<2, k>> /\ pair[i] = LinkEnds(in, k)
        BY <3>2
      <4>2. k \in L \ {l}
        BY <2>8, <4>1 DEF L
      <4>3. PICK g \in placed, h \in placed : LinkEnds(in, k) = {g, h} /\ Linked(k) = {g[1], h[1]}
        BY <2>7
      <4>4. g \notin T /\ h \notin T
        BY <2>4, <2>5, <4>2, <4>3
      <4> QED
        BY <4>1, <4>3, <4>4
    <3> QED
      BY <1>1, <3>1, <3>2
  <2>13. Closed(T, ValuesOf(pair, J \ {j}))
    BY <2>12 DEF Closed, ValuesOf
  <2>14. T \in SUBSET placed
    BY <2>5
  <2> QED
    BY <2>9, <2>11, <2>13, <2>14, Zenon DEF pair, CutsApart
<1>6. CASE L = {}
  <2>1. \A i \in J : \E g \in Gaps(placed) : i = <<1, g>> /\ pair[i] = GapPair(g)
    BY <1>1, <1>6
  <2>2. PICK j \in J : TRUE
    OBVIOUS
  <2>3. PICK g \in Gaps(placed) : j = <<1, g>> /\ pair[j] = GapPair(g)
    BY <2>1
  <2>4. PICK r, n : r = g[1] /\ n = g[2]
    OBVIOUS
  <2>5. g = <<r, n>> /\ n \in Nat /\ g \in placed /\ <<r, n + 1>> \in placed
    BY <1>2, <1>4, <2>4
  <2>6. PICK T : T = { x \in placed : x[1] = r /\ x[2] <= n }
    OBVIOUS
  <2>7. g \in T /\ <<r, n + 1>> \notin T
    BY <2>5, <2>6
  <2>8. Cuts(T, pair[j])
    BY <2>3, <2>4, <2>7 DEF Cuts, GapPair
  <2>9. ASSUME NEW i \in J \ {j} PROVE pair[i] \subseteq T \/ pair[i] \cap T = {}
    <3>1. PICK h \in Gaps(placed) : i = <<1, h>> /\ pair[i] = GapPair(h)
      BY <2>1
    <3>2. PICK q, m : q = h[1] /\ m = h[2]
      OBVIOUS
    <3>3. h = <<q, m>> /\ m \in Nat /\ h \in placed /\ <<q, m + 1>> \in placed
      BY <1>2, <1>4, <3>2
    <3>4. h # g
      BY <2>3, <3>1
    <3>5. q # r \/ m # n
      BY <2>5, <3>3, <3>4
    <3>6. (h \in T <=> q = r /\ m <= n) /\ (<<q, m + 1>> \in T <=> q = r /\ m + 1 <= n)
      BY <2>6, <3>2, <3>3
    <3>7. q # r \/ (m <= n <=> m + 1 <= n)
      BY <2>5, <3>3, <3>5
    <3>8. h \in T <=> <<q, m + 1>> \in T
      BY <3>6, <3>7
    <3> QED
      BY <3>1, <3>2, <3>8 DEF GapPair
  <2>10. Closed(T, ValuesOf(pair, J \ {j}))
    BY <2>9 DEF Closed, ValuesOf
  <2>11. T \in SUBSET placed
    BY <2>6
  <2> QED
    BY <2>8, <2>10, <2>11, Zenon DEF pair, CutsApart
<1> QED
  BY <1>5, <1>6

\* Each joined place makes one run less.
LEMMA RunsAndPlaces ==
  ASSUME NEW in, InputAccepted(in), ~ClosesRing(in), NEW emitted, SectionsCounted(emitted),
         NEW placed, placed = SegmentsOf(in, emitted)
  PROVE  /\ IsFiniteSet(StraightRuns(in, placed))
         /\ Cardinality(StraightRuns(in, placed)) + Cardinality(Places(in, placed)) = Cardinality(placed)
<1>1. PICK I, pair, B : I = Places(in, placed) /\ pair = PairAt(in, placed) /\ B = StraightRuns(in, placed)
  OBVIOUS
<1>2. IsFiniteSet(placed)
  BY PlacedFacts
<1>3. IsFiniteSet(I)
  BY <1>1, <1>2, PlacesCount
<1>4. Adjacent(in, placed) = ValuesOf(pair, I)
  BY <1>1, PairsAtPlaces
<1>5. DividedBy(placed, ValuesOf(pair, I), B)
  BY <1>1, <1>4, RunsDivide
<1>6. ASSUME NEW i \in I PROVE \E a, b \in placed : pair[i] = {a, b}
  <2>1. pair[i] \in ValuesOf(pair, I)
    BY DEF ValuesOf
  <2>2. Adjacent(in, placed) \subseteq { {g, h} : g, h \in placed }
    <3> HIDE <1>1, <1>4
    <3> QED
      BY SMT DEF Adjacent
  <2> QED
    BY <1>4, <2>1, <2>2
<1>7. \A J \in SUBSET I : J # {} => CutsApart(placed, pair, J)
  BY <1>1, PlacesCloseNoRing
<1>8. IsFiniteSet(B) /\ Cardinality(B) + Cardinality(I) = Cardinality(placed)
  BY <1>2, <1>3, <1>5, <1>6, <1>7, Forest
<1> QED
  BY <1>1, <1>8

\* The joints of the runs: one less than their sections.
JointsOf(in, emitted, run) == Subtract(RunSections(in, emitted, run), One)

LEMMA LessOne ==
  ASSUME NEW x, NEW n \in Nat \ {0}, x = Whole(n)
  PROVE  /\ x \in Fractions /\ Subtract(x, One) \in Fractions /\ Add(Subtract(x, One), One) = x
         /\ One \in Fractions /\ (~Leq(x, One) <=> n # 1)
         /\ n = 1 => Subtract(x, One) = Zero
<1>1. PICK m \in Nat : m = n - 1 /\ n = m + 1
  OBVIOUS
<1>2. 1 \in Nat /\ 1 <= n
  OBVIOUS
<1>3. Subtract(x, One) = Whole(m)
  BY <1>1, <1>2, WholesAdd DEF One
<1>4. Add(Whole(m), One) = Whole(m + 1)
  BY <1>2, WholesAdd DEF One
<1>5. Leq(x, One) <=> n <= 1
  BY <1>2, WholesAdd DEF One
<1>6. x \in Fractions /\ Whole(m) \in Fractions /\ One \in Fractions
  BY <1>2, WholeFits DEF One
<1> QED
  BY <1>1, <1>2, <1>3, <1>4, <1>5, <1>6 DEF Zero

\* All runs together have one joint for each gap inside a segment and each joined place.
LEMMA JointsOfRuns ==
  ASSUME NEW in, InputAccepted(in), ~ClosesRing(in), NEW emitted, SectionsCounted(emitted),
         NEW placed, placed = SegmentsOf(in, emitted), NEW runs, runs = StraightRuns(in, placed)
  PROVE  SumOf([run \in runs |-> JointsOf(in, emitted, run)]) =
           Add(SumOf([g \in placed |-> Subtract(SectionOf(in, emitted, g).count, One)]),
               Whole(Cardinality(Gaps(placed)) + Cardinality(Across(in, placed))))
<1>1. PICK w : w = [run \in runs |-> JointsOf(in, emitted, run)]
  OBVIOUS
<1>2. PICK v : v = [g \in placed |-> SectionOf(in, emitted, g).count]
  OBVIOUS
<1>3. PICK f : f = [g \in placed |-> Subtract(SectionOf(in, emitted, g).count, One)]
  OBVIOUS
<1>4. PICK s : s = [run \in runs |-> RunSections(in, emitted, run)]
  OBVIOUS
<1>5. PICK one, each : one = [g \in placed |-> One] /\ each = [run \in runs |-> One]
  OBVIOUS
<1>6. /\ IsFiniteSet(placed) /\ IsFiniteSet(runs)
      /\ Cardinality(runs) + Cardinality(Places(in, placed)) = Cardinality(placed)
  BY PlacedFacts, RunsAndPlaces
<1>7. /\ UNION runs = placed /\ \A a, b \in runs : a # b => a \cap b = {}
  <2>1. DividedBy(placed, Adjacent(in, placed), runs)
    BY RunsDivide
  <2> QED
    BY <2>1, Zenon DEF DividedBy
<1>8. /\ DOMAIN v = placed /\ DOMAIN f = placed /\ DOMAIN one = placed
      /\ \A g \in placed : /\ v[g] \in Fractions /\ f[g] \in Fractions /\ one[g] = One
                           /\ One \in Fractions /\ v[g] = Add(f[g], one[g])
  <2>1. DOMAIN v = placed /\ DOMAIN f = placed /\ DOMAIN one = placed
    BY <1>2, <1>3, <1>5
  <2>2. ASSUME NEW g \in placed
        PROVE  /\ v[g] \in Fractions /\ f[g] \in Fractions /\ one[g] = One
               /\ One \in Fractions /\ v[g] = Add(f[g], one[g])
    <3>1. v[g] = SectionOf(in, emitted, g).count /\ one[g] = One /\ f[g] = Subtract(v[g], One)
      BY <1>2, <1>3, <1>5
    <3>2. PICK n \in Nat \ {0} : v[g] = Whole(n)
      BY <3>1, PlacedFacts
    <3> QED
      BY <3>1, <3>2, LessOne
  <2> QED
    BY <2>1, <2>2
<1>9. /\ DOMAIN s = runs /\ DOMAIN w = runs /\ DOMAIN each = runs
      /\ \A run \in runs : /\ s[run] \in Fractions /\ w[run] \in Fractions /\ each[run] = One
                           /\ One \in Fractions /\ s[run] = Add(w[run], each[run])
  <2>1. DOMAIN s = runs /\ DOMAIN w = runs /\ DOMAIN each = runs
    BY <1>1, <1>4, <1>5
  <2>2. ASSUME NEW run \in runs
        PROVE  /\ s[run] \in Fractions /\ w[run] \in Fractions /\ each[run] = One
               /\ One \in Fractions /\ s[run] = Add(w[run], each[run])
    <3>1. s[run] = RunSections(in, emitted, run) /\ each[run] = One /\ w[run] = Subtract(s[run], One)
      BY <1>1, <1>4, <1>5 DEF JointsOf
    <3>2. PICK n \in Nat \ {0} : s[run] = Whole(n)
      BY <3>1, RunFits
    <3> QED
      BY <3>1, <3>2, LessOne
  <2> QED
    BY <2>1, <2>2
<1>10. SumOf(s) = SumOf(v)
  <2>1. PICK at : at = [g \in placed |-> g]
    OBVIOUS
  <2>2. \A g \in DOMAIN v : at[g] \in UNION runs
    BY <1>7, <1>8, <2>1
  <2>3. ASSUME NEW run \in runs PROVE s[run] = SumOf(Restrict(v, { g \in DOMAIN v : at[g] \in run }))
    <3>1. { g \in DOMAIN v : at[g] \in run } = run
      BY <1>7, <1>8, <2>1
    <3>2. \A g \in run : v[g] = SectionOf(in, emitted, g).count
      BY <1>2, <1>7
    <3>3. Restrict(v, run) = [g \in run |-> SectionOf(in, emitted, g).count]
      BY <3>2 DEF Restrict
    <3>4. s[run] = SumOf([g \in run |-> SectionOf(in, emitted, g).count])
      BY <1>4, Zenon DEF RunSections, SumOver
    <3> QED
      BY <3>1, <3>3, <3>4
  <2>4. IsFiniteSet(DOMAIN v) /\ \A g \in DOMAIN v : v[g] \in Fractions
    BY <1>6, <1>8
  <2>5. IsFiniteSet(runs) /\ (\A a, b \in runs : a # b => a \cap b = {}) /\ DOMAIN s = runs
    BY <1>6, <1>7, <1>9
  <2>6. \A b \in runs : s[b] = SumOf(Restrict(v, { g \in DOMAIN v : at[g] \in b }))
    BY <2>3
  <2> QED
    BY <2>2, <2>4, <2>5, <2>6, SumByBlocks
<1>11. SumOf(v) = Add(SumOf(f), Whole(Cardinality(placed)))
  <2>1. SumOf(v) = Add(SumOf(f), SumOf(one))
    BY <1>6, <1>8, SumOfSums
  <2>2. SumOf(one) = Whole(Cardinality(placed))
    BY <1>6, <1>8, SumOfOnes
  <2> QED
    BY <2>1, <2>2
<1>12. SumOf(s) = Add(SumOf(w), Whole(Cardinality(runs)))
  <2>1. SumOf(s) = Add(SumOf(w), SumOf(each))
    BY <1>6, <1>9, SumOfSums
  <2>2. SumOf(each) = Whole(Cardinality(runs))
    BY <1>6, <1>9, SumOfOnes
  <2> QED
    BY <2>1, <2>2
<1>13. PICK k, m : k = Cardinality(Gaps(placed)) + Cardinality(Across(in, placed)) /\ m = Cardinality(runs)
  OBVIOUS
<1>14. k \in Nat /\ m \in Nat /\ Cardinality(placed) = k + m
  <2>1. m \in Nat
    BY <1>6, <1>13, FS_CardinalityType
  <2>2. k \in Nat /\ Cardinality(Places(in, placed)) = k
    BY <1>6, <1>13, PlacesCount
  <2> QED
    BY <1>6, <1>13, <2>1, <2>2
<1>15. SumOf(w) \in Fractions /\ SumOf(f) \in Fractions /\ Whole(k) \in Fractions /\ Whole(m) \in Fractions
  BY <1>6, <1>8, <1>9, <1>14, SumFits, WholeFits
<1>16. Whole(k + m) = Add(Whole(k), Whole(m))
  BY <1>14, WholesAdd
<1>17. Add(SumOf(w), Whole(m)) = Add(Add(SumOf(f), Whole(k)), Whole(m))
  BY <1>10, <1>11, <1>12, <1>13, <1>14, <1>15, <1>16, AddLaws
<1>18. Add(SumOf(f), Whole(k)) \in Fractions
  BY <1>15, AddLaws
<1>19. SumOf(w) = Add(SumOf(f), Whole(k))
  BY <1>15, <1>17, <1>18, AddCancels
<1> QED
  BY <1>1, <1>3, <1>13, <1>19

\* A joint that no warning is about is demanded.
LEMMA JointIsPlaced ==
  ASSUME NEW in, InputAccepted(in), NEW emitted, NEW run,
         ~Leq(RunSections(in, emitted, run), One), JointDemand(in, emitted, run).failures = {},
         \A w \in JointDemand(in, emitted, run).warnings : w[1] # "UNRESOLVED_JOINT_PRODUCT",
         \A r \in DOMAIN in.rules : in.rules[r].type = "internalJoint" => Available(in, in.rules[r].product)
  PROVE  \E r \in DOMAIN in.rules :
           /\ in.rules[r].type = "internalJoint" /\ MatchingJoints(in, emitted, run) = {r}
           /\ JointEvent(in, emitted, run, r) \in JointDemand(in, emitted, run).events
<1> DEFINE count == RunSections(in, emitted, run)
           subject == <<"straightRun", { Item(in, g).id : g \in run }>>
           matching == MatchingJoints(in, emitted, run)
           rule == CHOOSE q \in matching : TRUE
           quantity == Multiply(Subtract(count, One), Whole(in.rules[rule].quantity))
           demand == CountDemand(in, in.rules[rule].product, "connector", "connection", subject,
                                 quantity, in.rules[rule].confidence, rule)
           refused == Unresolved(in, {Warning("UNRESOLVED_JOINT_PRODUCT", subject)})
           out == JointDemand(in, emitted, run)
<1>1. out = IF Leq(count, One) THEN Emits({}) ELSE IF Cardinality(matching) # 1 THEN refused ELSE demand
  BY Zenon DEF JointDemand, MatchingJoints
<1>2. \E w \in refused.warnings : w[1] = "UNRESOLVED_JOINT_PRODUCT"
  <2> HIDE DEF subject
  <2>1. refused.warnings = {Warning("UNRESOLVED_JOINT_PRODUCT", subject)}
    BY OutParts DEF Unresolved
  <2>2. Warning("UNRESOLVED_JOINT_PRODUCT", subject)[1] = "UNRESOLVED_JOINT_PRODUCT"
    BY DEF Warning
  <2> QED
    BY <2>1, <2>2
<1>3. out.failures = {} /\ \A w \in out.warnings : w[1] # "UNRESOLVED_JOINT_PRODUCT"
  OBVIOUS
<1>4. ~Leq(count, One)
  OBVIOUS
<1>5. Cardinality(matching) = 1 /\ out = demand
  <2> HIDE DEF out, count, matching, refused, demand
  <2> QED
    BY <1>1, <1>2, <1>3, <1>4, Zenon
<1>6. matching = {rule} /\ rule \in DOMAIN in.rules /\ in.rules[rule].type = "internalJoint"
  <2>1. matching \in SUBSET DOMAIN in.rules /\ \A r \in matching : in.rules[r].type = "internalJoint"
    BY DEF MatchingJoints
  <2> HIDE DEF matching
  <2>2. IsFiniteSet(matching)
    BY <2>1, RuleFacts, FS_Subset
  <2>3. PICK x : matching = {x}
    BY <1>5, <2>2, FS_Singleton
  <2>4. rule = x
    BY <2>3
  <2> QED
    BY <2>1, <2>3, <2>4
<1> HIDE DEF rule, matching
<1>7. PICK p, status, n : p = in.rules[rule].product /\ status = in.rules[rule].confidence /\ n = quantity
  OBVIOUS
<1>8. PICK event : event = Event(in, <<"connector", subject, p, rule>>, p, "connector", n, status)
  OBVIOUS
<1>9. event = JointEvent(in, emitted, run, rule)
  BY <1>7, <1>8, Zenon DEF JointEvent
<1>10. out = IF p \in DOMAIN in.products
             THEN IF in.products[p].unit # "pcs" THEN Throws("SEMANTIC_INPUT_INVALID")
                  ELSE IF rule = None THEN IfCompatible(in, "connection", p, subject, event)
                  ELSE IF Available(in, p) THEN Emits({event}) ELSE Unresolved(in, {})
             ELSE Throws("INTERNAL_INVARIANT_FAILED")
  BY <1>5, <1>7, <1>8, Zenon DEF CountDemand, WithKnown
<1>11. rule # None /\ Available(in, p)
  <2>1. None \notin DOMAIN in.rules
    BY Zenon DEF InputAccepted, RulesAccepted
  <2> QED
    BY <1>6, <1>7, <2>1
<1>12. \A code : Throws(code).failures # {}
  BY OutParts DEF Throws
<1>13. out = Emits({event})
  <2> HIDE DEF out
  <2> QED
    BY <1>3, <1>10, <1>11, <1>12, Zenon
<1>14. out.events = {event}
  <2> HIDE DEF out
  <2> QED
    BY <1>13, OutParts DEF Emits
<1>15. JointEvent(in, emitted, run, rule) \in JointDemand(in, emitted, run).events
  BY <1>9, <1>14 DEF out
<1> QED
  BY <1>6, <1>15 DEF matching

IdsOf(in, run) == { Item(in, g).id : g \in run }

\* Runs with the same identifiers share a segment.
LEMMA RunsShare ==
  ASSUME NEW in, InputAccepted(in), NEW a \in SUBSET Items(in), NEW b \in SUBSET Items(in), a # {},
         IdsOf(in, a) = IdsOf(in, b)
  PROVE  a \cap b # {}
<1>1. \A g, h \in Items(in) : Item(in, g).id = Item(in, h).id => g = h
  <2>1. RoutesAccepted(in)
    BY DEF InputAccepted
  <2> QED
    BY <2>1, Zenon DEF RoutesAccepted, Distinct
<1>2. PICK g \in a : TRUE
  OBVIOUS
<1>3. Item(in, g).id \in { Item(in, h).id : h \in b }
  BY DEF IdsOf
<1>4. PICK h \in b : Item(in, g).id = Item(in, h).id
  BY <1>3
<1>5. g \in Items(in) /\ h \in Items(in)
  OBVIOUS
<1>6. g = h
  BY <1>1, <1>4, <1>5
<1> QED
  BY <1>2, <1>4, <1>6

\* If every run that needs them has its joints, their total is that of the runs.
LEMMA JointsAddUp ==
  ASSUME NEW in, InputAccepted(in), NEW emitted, SectionsCounted(emitted),
         NEW placed, placed = SegmentsOf(in, emitted), NEW runs, runs = StraightRuns(in, placed),
         \A r \in DOMAIN in.rules : in.rules[r].type = "internalJoint" => in.rules[r].quantity = 1,
         NEW joints, \A e \in joints : OfRun(in, emitted, e),
         \A run \in runs : ~Leq(RunSections(in, emitted, run), One) =>
           \E r \in DOMAIN in.rules :
             /\ in.rules[r].type = "internalJoint" /\ MatchingJoints(in, emitted, run) = {r}
             /\ JointEvent(in, emitted, run, r) \in joints
  PROVE  Total(joints) = SumOf([run \in runs |-> JointsOf(in, emitted, run)])
<1>1. PICK w : w = [run \in runs |-> JointsOf(in, emitted, run)]
  OBVIOUS
<1>2. PICK big, small : /\ big = { run \in runs : ~Leq(RunSections(in, emitted, run), One) }
                        /\ small = { run \in runs : Leq(RunSections(in, emitted, run), One) }
  OBVIOUS
<1>3. PICK f : f = [run \in big |-> JointEvent(in, emitted, run, CHOOSE r \in MatchingJoints(in, emitted, run) : TRUE)]
  OBVIOUS
<1>4. /\ {} \notin runs /\ UNION runs = placed /\ runs \subseteq SUBSET placed
      /\ \A a, b \in runs : a # b => a \cap b = {}
  <2>1. DividedBy(placed, Adjacent(in, placed), runs)
    BY RunsDivide
  <2> QED
    BY <2>1, Zenon DEF DividedBy
<1>5. IsFiniteSet(placed) /\ placed \subseteq Items(in)
  BY PlacedFacts
<1>6. IsFiniteSet(runs)
  <2>1. IsFiniteSet(SUBSET placed)
    BY <1>5, FS_SUBSET
  <2> QED
    BY <1>4, <2>1, FS_Subset
<1>7. big \in SUBSET runs /\ small \in SUBSET runs /\ big \cap small = {} /\ big \cup small = runs
  BY <1>2
<1>8. IsFiniteSet(big)
  BY <1>6, <1>7, FS_Subset
<1>9. ASSUME NEW run \in runs
      PROVE  /\ w[run] = JointsOf(in, emitted, run) /\ w[run] \in Fractions
             /\ run \in small => w[run] = Zero
  <2>1. w[run] = JointsOf(in, emitted, run)
    BY <1>1
  <2>2. PICK n \in Nat \ {0} : RunSections(in, emitted, run) = Whole(n)
    BY RunFits
  <2>3. /\ JointsOf(in, emitted, run) \in Fractions
        /\ Leq(RunSections(in, emitted, run), One) => JointsOf(in, emitted, run) = Zero
    BY <2>2, LessOne DEF JointsOf
  <2> QED
    BY <1>2, <2>1, <2>3
<1>10. DOMAIN w = runs /\ IsFiniteSet(DOMAIN w) /\ \A x \in DOMAIN w : w[x] \in Fractions
  BY <1>1, <1>6, <1>9
<1>11. PICK v : v = Restrict(w, big)
  OBVIOUS
<1>12. SumOf(w) = SumOf(v)
  <2>1. SumOf(Restrict(w, big \cup small)) = Add(SumOf(Restrict(w, big)), SumOf(Restrict(w, small)))
    BY <1>7, <1>10, SumsAdd
  <2>2. SumOf(Restrict(w, small)) = Zero
    <3>1. small \in SUBSET DOMAIN w /\ \A x \in small : w[x] = Zero
      BY <1>7, <1>9, <1>10
    <3> QED
      BY <1>10, <3>1, SumOfZeros
  <2>3. SumOf(Restrict(w, DOMAIN w)) = SumOf(w)
    BY <1>10, SumOfWhole
  <2>4. DOMAIN v = big /\ \A x \in big : v[x] = w[x]
    BY <1>11 DEF Restrict
  <2>5. SumOf(v) \in Fractions
    <3>1. IsFiniteSet(DOMAIN v) /\ \A x \in DOMAIN v : v[x] \in Fractions
      BY <1>7, <1>8, <1>9, <2>4
    <3> QED
      BY <3>1, SumFits
  <2>6. Add(SumOf(v), Zero) = SumOf(v)
    BY <2>5, AddLaws
  <2> QED
    BY <1>7, <1>10, <1>11, <2>1, <2>2, <2>3, <2>6
<1>13. ASSUME NEW run \in big
       PROVE  /\ f[run] \in joints /\ f[run].quantity = w[run]
              /\ f[run].from[2] = <<"straightRun", { Item(in, g).id : g \in run }>>
              /\ \A r : MatchingJoints(in, emitted, run) = {r} => f[run] = JointEvent(in, emitted, run, r)
  <2>1. run \in runs /\ ~Leq(RunSections(in, emitted, run), One)
    BY <1>2
  <2>2. PICK r \in DOMAIN in.rules :
          /\ in.rules[r].type = "internalJoint" /\ MatchingJoints(in, emitted, run) = {r}
          /\ JointEvent(in, emitted, run, r) \in joints
    BY <2>1
  <2>3. (CHOOSE q \in MatchingJoints(in, emitted, run) : TRUE) = r
    BY <2>2
  <2>4. f[run] = JointEvent(in, emitted, run, r)
    BY <1>3, <2>3
  <2>5. in.rules[r].quantity = 1
    BY <2>2
  <2>6. /\ f[run].from[2] = <<"straightRun", { Item(in, g).id : g \in run }>>
        /\ f[run].quantity = Multiply(JointsOf(in, emitted, run), Whole(1))
    <3>1. PICK e : e = JointEvent(in, emitted, run, r)
      OBVIOUS
    <3>2. /\ JointEvent(in, emitted, run, r).from[2] = <<"straightRun", { Item(in, g).id : g \in run }>>
          /\ JointEvent(in, emitted, run, r).quantity =
               Multiply(Subtract(RunSections(in, emitted, run), One), Whole(in.rules[r].quantity))
      BY JointEventFits
    <3> QED
      BY <2>4, <2>5, <3>2, Zenon DEF JointsOf
  <2>7. w[run] = JointsOf(in, emitted, run) /\ w[run] \in Fractions
    BY <1>9, <2>1
  <2>8. Multiply(w[run], One) = w[run]
    BY <2>7, MultiplyLaws
  <2> QED
    BY <2>2, <2>4, <2>6, <2>7, <2>8 DEF One
<1>14. DOMAIN f = big
  BY <1>3
<1>15. \A a, b \in big : f[a] = f[b] => a = b
  <2> SUFFICES ASSUME NEW a \in big, NEW b \in big, f[a] = f[b] PROVE a = b
    OBVIOUS
  <2>1. PICK s, t : s = IdsOf(in, a) /\ t = IdsOf(in, b)
    OBVIOUS
  <2>2. <<"straightRun", s>> = <<"straightRun", t>>
    BY <1>13, <2>1 DEF IdsOf
  <2>3. s = t
    BY <2>2
  <2>4. a \in runs /\ b \in runs
    BY <1>7
  <2> QED
    <3>1. IdsOf(in, a) = IdsOf(in, b)
      BY <2>1, <2>3
    <3>2. a \in SUBSET Items(in) /\ b \in SUBSET Items(in) /\ a # {}
      BY <1>4, <1>5, <2>4
    <3>3. a \cap b # {}
      BY <3>1, <3>2, RunsShare
    <3> QED
      BY <1>4, <2>4, <3>3
<1>16. joints = { f[run] : run \in DOMAIN f }
  <2>1. ASSUME NEW e \in joints PROVE e \in { f[run] : run \in DOMAIN f }
    <3>1. OfRun(in, emitted, e)
      OBVIOUS
    <3>2. PICK run \in StraightRuns(in, SegmentsOf(in, emitted)), r \in DOMAIN in.rules :
            /\ ~Leq(RunSections(in, emitted, run), One) /\ MatchingJoints(in, emitted, run) = {r}
            /\ e = JointEvent(in, emitted, run, r)
      BY <3>1, Zenon DEF OfRun
    <3>3. run \in big
      BY <1>2, <3>2
    <3>4. e = f[run]
      BY <1>13, <3>2, <3>3
    <3> QED
      BY <1>14, <3>3, <3>4
  <2>2. \A run \in DOMAIN f : f[run] \in joints
    BY <1>13, <1>14
  <2>3. joints \subseteq { f[run] : run \in DOMAIN f }
    BY <2>1
  <2>4. { f[run] : run \in DOMAIN f } \subseteq joints
    BY <2>2
  <2> QED
    BY <2>3, <2>4
<1>17. PICK x : x = [e \in joints |-> e.quantity]
  OBVIOUS
<1>18. DOMAIN v = big /\ \A run \in big : v[run] = w[run] /\ v[run] \in Fractions
  <2>1. DOMAIN v = big /\ \A run \in big : v[run] = w[run]
    BY <1>11 DEF Restrict
  <2> QED
    BY <1>7, <1>9, <2>1
<1>19. SumOf(x) = SumOf(v)
  <2>1. IsFiniteSet(DOMAIN v) /\ \A run \in DOMAIN v : v[run] \in Fractions
    BY <1>8, <1>18
  <2>2. \A a, b \in DOMAIN v : f[a] = f[b] => a = b
    BY <1>15, <1>18
  <2>3. DOMAIN x = { f[run] : run \in DOMAIN v }
    BY <1>14, <1>16, <1>17, <1>18
  <2>4. \A run \in DOMAIN v : x[f[run]] = v[run]
    BY <1>13, <1>17, <1>18
  <2> QED
    BY <2>1, <2>2, <2>3, <2>4, SumOfImage
<1>20. Total(joints) = SumOf(x)
  BY <1>17, Zenon DEF Total, SumOver
<1> QED
  BY <1>1, <1>12, <1>19, <1>20

LEMMA TopologyCountsJoints ==
  TopologyKept => JointsFillTheGaps
<1> DEFINE joints == { e \in events : e.from[2][1] = "straightRun" }
<1> SUFFICES ASSUME TopologyKept, Calculated, ~ClosesRing(input),
                    \A w \in warnings : w[1] # "UNRESOLVED_JOINT_PRODUCT",
                    \A r \in DOMAIN input.rules : input.rules[r].type = "internalJoint" =>
                      input.rules[r].quantity = 1 /\ Available(input, input.rules[r].product)
             PROVE  Total(joints) =
                      Add(SumOf([g \in SegmentsOf(input, sections) |-> Subtract(SectionOf(input, sections, g).count, One)]),
                          Whole(Cardinality(Gaps(SegmentsOf(input, sections)))
                                + Cardinality(Across(input, SegmentsOf(input, sections)))))
  BY Zenon DEF JointsFillTheGaps, SumOver, Gaps, Across
<1>1. /\ InputAccepted(input) /\ SectionsCounted(sections) /\ sections = SectionDemands(input).events
      /\ Kept(JointDemands(input, sections)) /\ \A e \in events : FromTopology(input, e)
  BY DEF TopologyKept, Original
<1>2. PICK placed, runs : placed = SegmentsOf(input, sections) /\ runs = StraightRuns(input, placed)
  OBVIOUS
<1>3. ASSUME NEW e \in joints PROVE OfRun(input, sections, e)
  BY <1>1 DEF FromTopology, Elsewhere
<1>4. ASSUME NEW run \in runs, ~Leq(RunSections(input, sections, run), One)
      PROVE  \E r \in DOMAIN input.rules :
               /\ input.rules[r].type = "internalJoint" /\ MatchingJoints(input, sections, run) = {r}
               /\ JointEvent(input, sections, run, r) \in joints
  <2>1. PICK out : out = JointDemand(input, sections, run)
    OBVIOUS
  <2>2. PICK outs : outs = { JointDemand(input, sections, q) : q \in runs }
    OBVIOUS
  <2>3. JointDemands(input, sections) = All(outs)
    BY <1>2, <2>2, Zenon DEF JointDemands
  <2>4. out \in outs
    BY <2>1, <2>2
  <2>5. /\ All(outs).events = UNION { o.events : o \in outs }
        /\ All(outs).warnings = UNION { o.warnings : o \in outs }
        /\ All(outs).failures = UNION { o.failures : o \in outs }
    BY OutParts DEF All
  <2>6. out.events \subseteq All(outs).events /\ out.warnings \subseteq All(outs).warnings
        /\ out.failures \subseteq All(outs).failures
    BY <2>4, <2>5
  <2>7. out.failures = {} /\ out.warnings \subseteq warnings /\ out.events \subseteq events
    BY <1>1, <2>3, <2>6 DEF Kept
  <2>8. PICK r \in DOMAIN input.rules :
          /\ input.rules[r].type = "internalJoint" /\ MatchingJoints(input, sections, run) = {r}
          /\ JointEvent(input, sections, run, r) \in out.events
    <3>1. \A w \in out.warnings : w[1] # "UNRESOLVED_JOINT_PRODUCT"
      BY <2>7
    <3>2. \A q \in DOMAIN input.rules : input.rules[q].type = "internalJoint" => Available(input, input.rules[q].product)
      OBVIOUS
    <3> QED
      BY <1>1, <1>4, <2>1, <2>7, <3>1, <3>2, JointIsPlaced
  <2>9. JointEvent(input, sections, run, r).from[2][1] = "straightRun"
    BY JointEventFits
  <2> QED
    BY <2>7, <2>8, <2>9
<1> HIDE DEF joints
<1>5. \A r \in DOMAIN input.rules : input.rules[r].type = "internalJoint" => input.rules[r].quantity = 1
  OBVIOUS
<1>6. Total(joints) = SumOf([run \in runs |-> JointsOf(input, sections, run)])
  BY <1>1, <1>2, <1>3, <1>4, <1>5, JointsAddUp
<1>7. SumOf([run \in runs |-> JointsOf(input, sections, run)]) =
        Add(SumOf([g \in placed |-> Subtract(SectionOf(input, sections, g).count, One)]),
            Whole(Cardinality(Gaps(placed)) + Cardinality(Across(input, placed))))
  BY <1>1, <1>2, JointsOfRuns
<1> QED
  BY <1>2, <1>6, <1>7, Zenon

LEMMA TopologyIsCounted ==
  AccountInv => CountsFollowTopology
<1>1. CASE Calculated
  BY <1>1, TopologyCountsSupports, TopologyCountsJoints DEF AccountInv, CountsFollowTopology
<1>2. CASE ~Calculated
  BY <1>2, Zenon DEF CountsFollowTopology, SupportsAreCountedOnce, JointsFillTheGaps
<1> QED
  BY <1>1, <1>2

\* What is counted follows the topology of the routes in every calculation, whatever the
\* input: supports once in one group, and a joint for every gap that is no splice
\* (support-groups.ts, supports.ts, straight-runs.ts).
THEOREM CountsAlwaysFollowTopology ==
  EngineSpec => []CountsFollowTopology
BY TopologyIsCounted, AccountInvariance, PTL

-----------------------------------------------------------------------------
(* What a support group is given.                                          *)

\* Only the demand of a group itself is about a support group.
Outside(out) == \A e \in out.events : e.from[2][1] # "supportGroup"

LEMMA NothingIsOutside ==
  ASSUME NEW in, NEW warned
  PROVE  /\ Outside(Emits({})) /\ Outside(Warns(warned)) /\ Outside(Unresolved(in, warned))
         /\ \A code : Outside(Throws(code))
  BY OutParts DEF Outside, Emits, Warns, Unresolved, Throws

LEMMA AllOutside ==
  ASSUME NEW outs, \A out \in outs : Outside(out)
  PROVE  Outside(All(outs))
<1>1. All(outs).events = UNION { o.events : o \in outs }
  BY OutParts DEF All
<1> QED
  BY <1>1 DEF Outside

LEMMA BothOutside ==
  ASSUME NEW a, NEW b, Outside(a), Outside(b)
  PROVE  Outside(Both(a, b))
<1>1. Both(a, b).events = a.events \cup b.events
  BY OutParts DEF Both
<1> QED
  BY <1>1 DEF Outside

LEMMA CompatibleOrNothing ==
  ASSUME NEW in, CompatibilityAccepted(in), NEW context, NEW p, NEW subject, NEW event
  PROVE  IfCompatible(in, context, p, subject, event).events \subseteq {event}
<1> DEFINE evidence == Evidence(in, context, p, subject)
           available == Available(in, p)
           warned == IF context = "anchor" THEN "ANCHOR_PRODUCT_INCOMPATIBLE"
                     ELSE "PRODUCT_SELECTION_INCOMPATIBLE"
           out == IfCompatible(in, context, p, subject, event)
<1>1. out = CASE evidence = BOOLEAN -> Throws("SEMANTIC_INPUT_INVALID")
              [] evidence # BOOLEAN /\ (~available \/ FALSE \in evidence) ->
                   Unresolved(in, {Warning(warned, subject)})
              [] evidence = {} /\ available ->
                   Unresolved(in, {Warning("MISSING_COMPATIBILITY_RULE", subject)})
              [] evidence = {TRUE} /\ available -> Emits({event})
  BY Zenon DEF IfCompatible
<1>2. evidence \subseteq BOOLEAN
  <2>1. \A c \in in.compatibility : c.allowed \in BOOLEAN
    BY Zenon DEF CompatibilityAccepted, Collection
  <2> QED
    BY <2>1 DEF Evidence
<1>3. available \in BOOLEAN
  BY DEF Available
<1>4. \/ evidence = BOOLEAN
      \/ evidence # BOOLEAN /\ (~available \/ FALSE \in evidence)
      \/ evidence = {} /\ available
      \/ evidence = {TRUE} /\ available
  <2> HIDE DEF evidence, available
  <2> QED
    BY <1>2
<1> HIDE DEF evidence, available, warned, out
<1>5. \/ out = Throws("SEMANTIC_INPUT_INVALID")
      \/ out = Unresolved(in, {Warning(warned, subject)})
      \/ out = Unresolved(in, {Warning("MISSING_COMPATIBILITY_RULE", subject)})
      \/ out = Emits({event})
  BY <1>1, <1>4
<1>6. out.events \subseteq {event}
  BY <1>5, OutParts DEF Throws, Unresolved, Emits
<1> QED
  BY <1>6 DEF out

LEMMA CountOutside ==
  ASSUME NEW in, CompatibilityAccepted(in), NEW p, NEW category, NEW context, NEW subject,
         subject[1] # "supportGroup", NEW quantity, NEW status, NEW rule
  PROVE  Outside(CountDemand(in, p, category, context, subject, quantity, status, rule))
<1>1. PICK event : event = Event(in, <<category, subject, p, rule>>, p, category, quantity, status)
  OBVIOUS
<1>2. PICK out : out = CountDemand(in, p, category, context, subject, quantity, status, rule)
  OBVIOUS
<1>3. PICK compatible : compatible = IfCompatible(in, context, p, subject, event)
  OBVIOUS
<1>4. out = IF p \in DOMAIN in.products
            THEN IF in.products[p].unit # "pcs" THEN Throws("SEMANTIC_INPUT_INVALID")
                 ELSE IF rule = None THEN compatible
                 ELSE IF Available(in, p) THEN Emits({event}) ELSE Unresolved(in, {})
            ELSE Throws("INTERNAL_INVARIANT_FAILED")
  BY <1>1, <1>2, <1>3, Zenon DEF CountDemand, WithKnown
<1>5. event.from[2][1] # "supportGroup"
  BY <1>1, EventFits
<1>6. Outside(compatible)
  BY <1>3, <1>5, CompatibleOrNothing DEF Outside
<1>7. Outside(Emits({event}))
  BY <1>5, OutParts DEF Outside, Emits
<1> QED
  BY <1>2, <1>4, <1>6, <1>7, NothingIsOutside, Zenon

LEMMA SectionsOutside ==
  ASSUME NEW in, InputAccepted(in)
  PROVE  Outside(SectionDemands(in))
<1> DEFINE refusals == { Throws("SEMANTIC_INPUT_INVALID")
                           : r \in { q \in Routes(in) : in.products[in.routes[q].product].unit = "kg" } }
<1>1. ASSUME NEW g \in Segments(in) PROVE Outside(SectionDemand(in, g))
  <2> DEFINE route == in.routes[g[1]]
             p == route.product
             item == Item(in, g)
             subject == <<"segment", item.id>>
             chosen == IF item.option = None THEN route.option ELSE item.option
             options == { o \in in.products[p].options : o.id = chosen /\ o.active /\ o.orderable }
             option == CHOOSE o \in options : TRUE
             rule == in.rules[option.rule]
             event == SectionEvent(in, route, item, option)
             compatible == IfCompatible(in, "straightSection", p, subject, event)
             refused == Unresolved(in, {Warning("UNRESOLVED_SECTION_SUPPLY_OPTION", subject)})
             out == SectionDemand(in, g)
  <2>1. out = IF options = {} THEN refused
              ELSE IF rule.type = "supplyOption" /\ rule.product = p /\ rule.option = option.id
              THEN compatible
              ELSE Throws("SEMANTIC_INPUT_INVALID")
    BY Zenon DEF SectionDemand
  <2>2. event.from = <<"linearSection", subject, p, None>>
    <3>1. PICK o : o = option
      OBVIOUS
    <3>2. PICK e : e = SectionEvent(in, route, item, o)
      OBVIOUS
    <3> HIDE DEF option, item, route
    <3>3. e.from = <<"linearSection", <<"segment", item.id>>, route.product, None>>
      BY <3>2, SectionEventIs
    <3> QED
      BY <3>1, <3>2, <3>3
  <2>3. subject[1] = "segment"
    OBVIOUS
  <2>4. CompatibilityAccepted(in)
    BY DEF InputAccepted
  <2> HIDE DEF event, subject, p
  <2>6. event.from[2][1] # "supportGroup"
    BY <2>2, <2>3
  <2>5. Outside(compatible)
    <3>1. compatible.events \subseteq {event}
      BY <2>4, CompatibleOrNothing
    <3> QED
      BY <2>6, <3>1 DEF Outside
  <2> HIDE DEF compatible, refused, rule, option, options, out
  <2>7. Outside(out)
    BY <2>1, <2>5, NothingIsOutside, Zenon DEF refused
  <2> QED
    BY <2>7 DEF out
<1>2. \A out \in refusals : Outside(out)
  BY NothingIsOutside
<1>3. SectionDemands(in) = All({ SectionDemand(in, g) : g \in Segments(in) } \cup refusals)
  BY Zenon DEF SectionDemands
<1> HIDE DEF refusals
<1>4. \A out \in { SectionDemand(in, g) : g \in Segments(in) } \cup refusals : Outside(out)
  BY <1>1, <1>2
<1> QED
  BY <1>3, <1>4, AllOutside

LEMMA JointsOutside ==
  ASSUME NEW in, InputAccepted(in), NEW emitted
  PROVE  Outside(JointDemands(in, emitted))
<1>1. ASSUME NEW run PROVE Outside(JointDemand(in, emitted, run))
  <2> DEFINE product == in.routes[(CHOOSE g \in run : TRUE)[1]].product
             options == { SectionOf(in, emitted, g).option : g \in run }
             count == RunSections(in, emitted, run)
             subject == <<"straightRun", { Item(in, g).id : g \in run }>>
             matching == { r \in DOMAIN in.rules :
                             /\ in.rules[r].type = "internalJoint"
                             /\ in.rules[r].straight = product
                             /\ in.rules[r].option = None \/ options = {in.rules[r].option} }
             rule == CHOOSE r \in matching : TRUE
             own == CountDemand(in, in.rules[rule].product, "connector", "connection", subject,
                                Multiply(Subtract(count, One), Whole(in.rules[rule].quantity)),
                                in.rules[rule].confidence, rule)
             refused == Unresolved(in, {Warning("UNRESOLVED_JOINT_PRODUCT", subject)})
             out == JointDemand(in, emitted, run)
  <2>1. out = IF Leq(count, One) THEN Emits({})
              ELSE IF Cardinality(matching) # 1 THEN refused ELSE own
    BY Zenon DEF JointDemand
  <2>2. subject[1] # "supportGroup"
    OBVIOUS
  <2>3. CompatibilityAccepted(in)
    BY DEF InputAccepted
  <2> HIDE DEF rule, subject, count, matching
  <2>4. Outside(own)
    BY <2>2, <2>3, CountOutside
  <2> HIDE DEF own, refused, out
  <2>5. Outside(out)
    BY <2>1, <2>4, NothingIsOutside, Zenon DEF refused
  <2> QED
    BY <2>5 DEF out
<1> QED
  BY <1>1, AllOutside DEF JointDemands

LEMMA FittingsOutside ==
  ASSUME NEW in, InputAccepted(in)
  PROVE  Outside(FittingDemands(in))
<1> USE DEF InputAccepted
<1>1. ASSUME NEW r, NEW p, NEW subject, subject[1] # "supportGroup", NEW corrections
      PROVE  Outside(RuleComponentDemand(in, r, p, subject, corrections))
  <2> DEFINE rule == in.rules[r]
             original == SumOver(LAMBDA c : Whole(c.quantity * c.sides), { c \in rule.components : c.product = p })
             correction == CHOOSE c \in corrections : c.product = p
             context == IF subject[1] = "fitting" THEN "fitting" ELSE "connection"
             warned == Warns({Overridden("MANUAL_QUANTITY_OVERRIDE", subject, correction.id)})
             asked == CountDemand(in, p, "connector", context, subject, original, rule.confidence, r)
             corrected == CountDemand(in, p, "connector", context, subject, Whole(correction.adjusted), "manual", r)
             out == RuleComponentDemand(in, r, p, subject, corrections)
  <2>1. out = IF \A c \in corrections : c.product # p THEN asked
              ELSE IF Whole(correction.original) # original THEN Throws("SEMANTIC_INPUT_INVALID")
              ELSE Both(warned, corrected)
    BY Zenon DEF RuleComponentDemand
  <2> HIDE DEF original, correction, context, rule
  <2>2. Outside(asked) /\ Outside(corrected)
    BY <1>1, CountOutside
  <2>3. Outside(warned) /\ Outside(Throws("SEMANTIC_INPUT_INVALID"))
    BY NothingIsOutside
  <2> HIDE DEF asked, corrected, warned, out
  <2>4. Outside(Both(warned, corrected))
    BY <2>2, <2>3, BothOutside
  <2>5. Outside(out)
    BY <2>1, <2>2, <2>3, <2>4, Zenon
  <2> QED
    BY <2>5 DEF out
<1>2. ASSUME NEW r, NEW subject, subject[1] # "supportGroup", NEW corrections
      PROVE  Outside(RuleDemand(in, r, subject, corrections))
  <2> DEFINE outs == { RuleComponentDemand(in, r, p, subject, corrections)
                         : p \in { c.product : c \in in.rules[r].components } }
  <2>1. RuleDemand(in, r, subject, corrections) = All(outs)
    BY Zenon DEF RuleDemand
  <2>2. \A out \in outs : Outside(out)
    BY <1>1, <1>2
  <2> HIDE DEF outs
  <2> QED
    BY <2>1, <2>2, AllOutside
<1>3. ASSUME NEW g PROVE Outside(FittingDemand(in, g))
  <2> DEFINE item == Item(in, g)
             subject == <<"fitting", item.id>>
             r == item.connectionRule
             body == CountDemand(in, item.product, "fitting", "fitting", subject, One, "catalogConfirmed", None)
             first == IF item.product = None THEN Emits({}) ELSE body
             refused == Unresolved(in, {Warning("UNRESOLVED_FITTING_CONNECTION", subject)})
             joined == RuleDemand(in, r, subject, {})
             second == IF r = None THEN refused
                       ELSE IF in.rules[r].type = "fittingConnection" /\ in.rules[r].owner = item.id
                       THEN joined ELSE Throws("SEMANTIC_INPUT_INVALID")
             out == FittingDemand(in, g)
  <2>1. out = Both(first, second)
    BY Zenon DEF FittingDemand
  <2>2. subject[1] # "supportGroup"
    OBVIOUS
  <2>3. Outside(Emits({})) /\ Outside(refused) /\ Outside(Throws("SEMANTIC_INPUT_INVALID"))
    BY NothingIsOutside
  <2> HIDE DEF subject
  <2>4. Outside(body)
    BY <2>2, CountOutside
  <2>5. Outside(joined)
    BY <1>2, <2>2
  <2> HIDE DEF body, joined, refused, out
  <2>6. Outside(first) /\ Outside(second)
    BY <2>3, <2>4, <2>5
  <2> HIDE DEF first, second
  <2>7. Outside(out)
    BY <2>1, <2>6, BothOutside
  <2> QED
    BY <2>7 DEF out
<1>4. ASSUME NEW c PROVE Outside(ConnectionDemand(in, c))
  <2> DEFINE subject == <<"connection", c.id>>
             r == c.rule
             refused == Unresolved(in, {Warning("UNRESOLVED_FITTING_CONNECTION", subject)})
             joined == RuleDemand(in, r, subject, c.corrections)
             out == ConnectionDemand(in, c)
  <2>1. out = IF c.type = "logicalContinuation" THEN Emits({})
              ELSE IF r = None THEN refused
              ELSE IF in.rules[r].type = "physicalConnection" /\ in.rules[r].owner = c.id THEN joined
              ELSE Throws("SEMANTIC_INPUT_INVALID")
    BY Zenon DEF ConnectionDemand
  <2>2. subject[1] # "supportGroup"
    OBVIOUS
  <2>3. Outside(Emits({})) /\ Outside(refused) /\ Outside(Throws("SEMANTIC_INPUT_INVALID"))
    BY NothingIsOutside
  <2> HIDE DEF subject
  <2>4. Outside(joined)
    BY <1>2, <2>2
  <2> HIDE DEF joined, refused, out
  <2>5. Outside(out)
    BY <2>1, <2>3, <2>4, Zenon
  <2> QED
    BY <2>5 DEF out
<1>5. \A out \in { FittingDemand(in, g) : g \in Fittings(in) } \cup { ConnectionDemand(in, c) : c \in in.connections } :
        Outside(out)
  BY <1>3, <1>4
<1> QED
  BY <1>5, AllOutside DEF FittingDemands

LEMMA EndpointsOutside ==
  ASSUME NEW in, InputAccepted(in)
  PROVE  Outside(EndpointDemands(in))
<1>1. CompatibilityAccepted(in)
  BY DEF InputAccepted
<1>2. ASSUME NEW end PROVE Outside(EndpointDemand(in, end))
  <2> DEFINE subject == <<"endpoint", end.id>>
             rule == in.rules[end.rule]
             refused == Unresolved(in, {Warning("UNRESOLVED_ENDPOINT_MATERIAL", subject)})
             own == CountDemand(in, rule.product, "endpointMaterial", "endpoint", subject,
                                Whole(rule.quantity), rule.confidence, end.rule)
             out == EndpointDemand(in, end)
  <2>1. out = IF ~OwnsMaterial(end) THEN Emits({})
              ELSE IF end.rule = None THEN refused
              ELSE IF rule.type = "endpointMaterial" /\ rule.owner = end.id THEN own
              ELSE Throws("SEMANTIC_INPUT_INVALID")
    BY Zenon DEF EndpointDemand
  <2>2. subject[1] # "supportGroup"
    OBVIOUS
  <2>3. Outside(Emits({})) /\ Outside(refused) /\ Outside(Throws("SEMANTIC_INPUT_INVALID"))
    BY NothingIsOutside
  <2> HIDE DEF subject, rule
  <2>4. Outside(own)
    BY <1>1, <2>2, CountOutside
  <2> HIDE DEF own, refused, out
  <2>5. Outside(out)
    BY <2>1, <2>3, <2>4, Zenon
  <2> QED
    BY <2>5 DEF out
<1>3. ASSUME NEW p PROVE Outside(AccessoryDemand(in, p))
  <2>1. in.project[1] # "supportGroup"
    BY DEF InputAccepted
  <2> QED
    BY <1>1, <2>1, CountOutside DEF AccessoryDemand
<1>4. \A out \in { EndpointDemand(in, end) : end \in Ends(in) } \cup { AccessoryDemand(in, p) : p \in in.accessories } :
        Outside(out)
  BY <1>2, <1>3
<1> QED
  BY <1>4, AllOutside DEF EndpointDemands

LEMMA ManualsOutside ==
  ASSUME NEW in, InputAccepted(in)
  PROVE  Outside(ManualDemands(in))
<1>1. CompatibilityAccepted(in)
  BY DEF InputAccepted
<1>2. ASSUME NEW m PROVE Outside(ManualDemand(in, m))
  <2> DEFINE subject == <<"manualInput", m.id>>
             policies == Policies(in, m.product, m.id, m.reserve, m.packaging)
             quantity == IF m.override = None THEN m.quantity ELSE m.adjusted
             event == [ from |-> <<"manual", subject, m.product, None>>, product |-> m.product,
                        manual |-> m.id, category |-> "manual", quantity |-> quantity, unit |-> m.unit,
                        option |-> None, length |-> Zero, count |-> Zero,
                        reserve |-> policies.reserve, packaging |-> policies.packaging,
                        boundary |-> <<m.id, policies.boundary>>, status |-> "manual",
                        eligible |-> FALSE, traced |-> quantity ]
             warned == { Overridden("MANUAL_PACKAGE_OVERRIDE", subject, w[3])
                           : w \in { x \in {policies.packaging} : x[1] = "incrementOverride" } }
                       \cup { Overridden("MANUAL_QUANTITY_OVERRIDE", subject, w[3])
                           : w \in { x \in {policies.reserve} : x[1] # "projectDefault" } }
                       \cup { Overridden("MANUAL_QUANTITY_OVERRIDE", subject, w)
                           : w \in {m.override} \ {None} }
             compatible == IfCompatible(in, "manualCatalog", m.product, subject, event)
             demand == IF m.product = None THEN Emits({event}) ELSE compatible
             last == IF demand.events = {} THEN Emits({}) ELSE Warns(warned)
             out == ManualDemand(in, m)
  <2>1. out = IF m.product # None /\ (~m.named \/ in.products[m.product].unit # m.unit)
              THEN Throws("SEMANTIC_INPUT_INVALID")
              ELSE IF Cardinality(MatchingPolicies(in, m.product, m.id)) > 1 /\ demand.failures = {}
                      /\ demand.events # {}
              THEN Throws("AMBIGUOUS_LINE_POLICY")
              ELSE Both(demand, last)
    BY Zenon DEF ManualDemand
  <2>2. event.from[2][1] # "supportGroup"
    OBVIOUS
  <2> HIDE DEF event, subject, warned
  <2>3. Outside(compatible) /\ Outside(Emits({event}))
    BY <1>1, <2>2, CompatibleOrNothing, OutParts DEF Outside, Emits
  <2> HIDE DEF compatible
  <2>4. Outside(demand) /\ Outside(last)
    BY <2>3, NothingIsOutside
  <2>5. Outside(Throws("SEMANTIC_INPUT_INVALID")) /\ Outside(Throws("AMBIGUOUS_LINE_POLICY"))
    BY NothingIsOutside
  <2> HIDE DEF demand, last, out
  <2>6. Outside(Both(demand, last))
    BY <2>4, BothOutside
  <2>7. Outside(out)
    BY <2>1, <2>5, <2>6, Zenon
  <2> QED
    BY <2>7 DEF out
<1>3. \A out \in { ManualDemand(in, m) : m \in in.manualItems } : Outside(out)
  BY <1>2
<1> QED
  BY <1>3, AllOutside DEF ManualDemands

\* Whatever is about a support group is demanded for that group.
Assembled(in, e) ==
  e.from[2][1] = "supportGroup" => \E group \in SupportGroups(in) : e \in SupportDemand(in, group).events
AssembledInv == \A e \in events : Assembled(input, e)

LEMMA EmitAssembles ==
  ASSUME AssembledInv, NEW out, NEW next, Emit(out, next), \A e \in out.events : Assembled(input, e)
  PROVE  AssembledInv'
<1>1. input' = input /\ (events' = events \/ events' = events \cup out.events)
  BY DEF Emit, Refuse
<1> QED
  BY <1>1 DEF AssembledInv

LEMMA OutsideAssembles ==
  ASSUME NEW in, NEW out, Outside(out)
  PROVE  \A e \in out.events : Assembled(in, e)
  BY DEF Outside, Assembled

LEMMA StagesAssemble ==
  EngineInv /\ AssembledInv /\ [Calculate]_engineVars => AssembledInv'
<1> SUFFICES ASSUME EngineInv, AssembledInv, [Calculate]_engineVars PROVE AssembledInv'
  OBVIOUS
<1>1. CASE UNCHANGED <<input, events>>
  BY <1>1 DEF AssembledInv
<1>2. ASSUME stage \notin {"parse", "done"} PROVE InputAccepted(input)
  BY <1>2 DEF EngineInv, ParsePast, Past
<1>3. CASE Parse
  <2>1. CASE InputAccepted(input)
    <3>1. PICK out : out = Warns(IF input.load THEN {} ELSE {Warning("MISSING_CABLE_LOAD", input.project)})
      OBVIOUS
    <3>2. Emit(out, "sections")
      BY <1>3, <2>1, <3>1 DEF Parse
    <3>3. Outside(out)
      BY <3>1, NothingIsOutside
    <3> QED
      BY <3>2, <3>3, OutsideAssembles, EmitAssembles
  <2>2. CASE ~InputAccepted(input)
    <3>1. UNCHANGED <<input, events>>
      BY <1>3, <2>2 DEF Parse, Refuse
    <3> QED
      BY <1>1, <3>1
  <2> QED
    BY <2>1, <2>2
<1>4. CASE EmitSections
  <2>1. Outside(SectionDemands(input)) /\ stage = "sections"
    BY <1>2, <1>4, SectionsOutside DEF EmitSections
  <2>2. input' = input /\ (events' = events \/ events' = SectionDemands(input).events)
    BY <1>4, Zenon DEF EmitSections, Refuse
  <2>3. \A e \in SectionDemands(input).events : Assembled(input, e)
    BY <2>1, OutsideAssembles
  <2> QED
    BY <2>2, <2>3 DEF AssembledInv
<1>5. CASE GroupSupports
  <2>1. UNCHANGED <<input, events>>
    BY <1>5 DEF GroupSupports, Refuse
  <2> QED
    BY <1>1, <2>1
<1>6. CASE EmitJoints
  <2>1. stage = "joints" /\ Emit(JointDemands(input, sections), "fittings")
    BY <1>6, Zenon DEF EmitJoints, JointDemands
  <2>2. Outside(JointDemands(input, sections))
    BY <1>2, <2>1, JointsOutside
  <2> QED
    BY <2>1, <2>2, OutsideAssembles, EmitAssembles
<1>7. CASE EmitFittings
  <2>1. stage = "fittings" /\ Emit(FittingDemands(input), "supports")
    BY <1>7, Zenon DEF EmitFittings, FittingDemands
  <2>2. Outside(FittingDemands(input))
    BY <1>2, <2>1, FittingsOutside
  <2> QED
    BY <2>1, <2>2, OutsideAssembles, EmitAssembles
<1>8. CASE EmitSupports
  <2>1. stage = "supports" /\ Emit(SupportDemands(input, groups), "endpoints")
    BY <1>8, Zenon DEF EmitSupports, SupportDemands
  <2>2. groups = SupportGroups(input)
    BY <2>1 DEF EngineInv, GroupsPast, Past
  <2>3. PICK outs : outs = { SupportDemand(input, group) : group \in groups }
    OBVIOUS
  <2>6. All(outs).events = UNION { o.events : o \in outs }
    BY OutParts DEF All
  <2>7. SupportDemands(input, groups) = All(outs)
    BY <2>3, Zenon DEF SupportDemands
  <2>4. \A e \in SupportDemands(input, groups).events : \E group \in groups : e \in SupportDemand(input, group).events
    BY <2>3, <2>6, <2>7
  <2>5. \A e \in SupportDemands(input, groups).events : Assembled(input, e)
    BY <2>2, <2>4 DEF Assembled
  <2> QED
    BY <2>1, <2>5, EmitAssembles
<1>9. CASE EmitEndpoints
  <2>1. stage = "endpoints" /\ Emit(EndpointDemands(input), "manualItems")
    BY <1>9, Zenon DEF EmitEndpoints, EndpointDemands
  <2>2. Outside(EndpointDemands(input))
    BY <1>2, <2>1, EndpointsOutside
  <2> QED
    BY <2>1, <2>2, OutsideAssembles, EmitAssembles
<1>10. CASE EmitManualItems
  <2>1. PICK out : out = Both(ManualDemands(input), Warns(EngineeringChecks(input, events \cup ManualDemands(input).events)))
    OBVIOUS
  <2>2. stage = "manualItems" /\ Emit(out, "suppress")
    BY <1>10, <2>1, Zenon DEF EmitManualItems, ManualDemands
  <2>3. Outside(ManualDemands(input))
    BY <1>2, <2>2, ManualsOutside
  <2>4. Outside(out)
    BY <2>1, <2>3, BothOutside, NothingIsOutside
  <2> QED
    BY <2>2, <2>4, OutsideAssembles, EmitAssembles
<1>11. CASE Suppress
  <2>1. UNCHANGED <<input, events>>
    BY <1>11, Zenon DEF Suppress
  <2> QED
    BY <1>1, <2>1
<1>12. CASE Build
  <2>1. UNCHANGED <<input, events>>
    BY <1>12, Zenon DEF Build, Refuse
  <2> QED
    BY <1>1, <2>1
<1>13. engineVars' = engineVars => UNCHANGED <<input, events>>
  BY DEF engineVars
<1> QED
  BY <1>1, <1>3, <1>4, <1>5, <1>6, <1>7, <1>8, <1>9, <1>10, <1>11, <1>12, <1>13 DEF Calculate

\* What a clean rule of a group gives: one demand, for the group, of the product it is asked for.
Asks(out, group, category, p, quantity) ==
  \E e : /\ out.events = {e}
         /\ e.from[2] = GroupSubject(group) /\ e.category = category /\ e.product = p
         /\ e.quantity = quantity

LEMMA GroupDemandAsks ==
  ASSUME NEW in, InputAccepted(in), NEW group, NEW p, NEW context, NEW category, NEW quantity,
         NEW status, NEW source,
         Clean(GroupDemand(in, group, p, context, category, quantity, status, source))
  PROVE  Asks(GroupDemand(in, group, p, context, category, quantity, status, source), group, category, p, quantity)
<1>1. PICK event : event = Event(in, <<category, GroupSubject(group), p, source>>, p, category, quantity, status)
  OBVIOUS
<1>2. PICK out : out = GroupDemand(in, group, p, context, category, quantity, status, source)
  OBVIOUS
<1>3. /\ event.from[2] = GroupSubject(group) /\ event.category = category /\ event.product = p
      /\ event.quantity = quantity
  BY <1>1 DEF Event
<1>4. out = Emits({event})
  BY <1>1, <1>2, GroupDemandIsEmitted
<1>5. out.events = {event}
  BY <1>4, OutParts DEF Emits
<1> QED
  BY <1>2, <1>3, <1>5, Zenon DEF Asks

\* The clamps that a support carries.
ClampsPer(s) == CASE s.wstbMode = "one" -> 1 [] s.wstbMode = "two" -> 2 [] s.wstbMode = "custom" -> s.wstbQuantity

\* The anchors that a support may carry: those of a row for the anchor, or of the override.
AnchorsPer(s, template) ==
  IF s.anchorOverride = 0
  THEN { c.quantity : c \in { d \in template.components : d.role = "anchor" /\ d.product = s.anchor } }
  ELSE {Whole(s.anchorOverride)}

LEMMA AnchorAsks ==
  ASSUME NEW in, InputAccepted(in), NEW group, NEW supports, NEW template,
         Clean(AnchorDemand(in, group, template, supports))
  PROVE  LET s == Configuration(in, group)
         IN s.anchor # None /\ \E n \in AnchorsPer(s, template) :
              Asks(AnchorDemand(in, group, template, supports), group, "anchor", s.anchor, Multiply(supports, n))
<1> DEFINE s == Configuration(in, group)
           p == s.anchor
           rows == { c \in template.components : c.role = "anchor" /\ c.product = p }
           row == CHOOSE c \in rows : TRUE
           perAxis == IF s.anchorOverride = 0 THEN row.quantity ELSE Whole(s.anchorOverride)
           review == in.products[p].review \/ template.review
           Missing(code) == Unresolved(in, {Warning(code, GroupSubject(group))})
           warned == Warns((IF s.anchorOverride = 0 THEN {} ELSE
                              {Overridden("MANUAL_ANCHOR_OVERRIDE", GroupSubject(group), p)})
                           \cup (IF review THEN
                              {Warning("ANCHOR_ENGINEERING_CHECK_REQUIRED", <<"product", p>>)}
                              ELSE {}))
           quantity == Multiply(supports, perAxis)
           status == IF review THEN "engineeringReview" ELSE "calculated"
           demand == GroupDemand(in, group, p, "anchor", "anchor", quantity, status, None)
           noRow == rows = {} \/ row.mode # "perSupport" \/ row.unit # "pcs"
           known == IF p \in DOMAIN in.products
                    THEN IF noRow THEN Missing("ASSEMBLY_TEMPLATE_MISSING") ELSE Both(warned, demand)
                    ELSE Throws("INTERNAL_INVARIANT_FAILED")
           out == AnchorDemand(in, group, template, supports)
<1>1. out = CASE s.substrate = None -> Missing("MISSING_SUBSTRATE_OR_BASE")
              [] s.substrate = "unknown" -> Missing("UNKNOWN_SUBSTRATE")
              [] s.substrate \notin {None, "unknown"} /\ p = None -> Missing("MISSING_ANCHOR_SELECTION")
              [] s.substrate \notin {None, "unknown"} /\ p # None -> known
  BY Zenon DEF AnchorDemand, WithKnown
<1>2. \A code \in Blocking : ~Clean(Missing(code))
  BY CodeBlocks
<1>3. {"MISSING_SUBSTRATE_OR_BASE", "UNKNOWN_SUBSTRATE", "MISSING_ANCHOR_SELECTION", "ASSEMBLY_TEMPLATE_MISSING"}
        \subseteq Blocking
  BY DEF Blocking
<1>4. Clean(out)
  OBVIOUS
<1>5. noRow \/ row \in rows
  BY Zenon
<1>6. row \in rows => perAxis \in AnchorsPer(s, template)
  BY DEF AnchorsPer
<1> HIDE DEF Missing, known, out, p, s, warned, demand, noRow, perAxis, quantity, rows, row
<1>7. out = known /\ p # None
  BY <1>1, <1>2, <1>3, <1>4 DEF None
<1>8. ~noRow /\ known = Both(warned, demand)
  BY <1>2, <1>3, <1>4, <1>7, NotClean DEF known
<1>9. Clean(demand)
  BY <1>4, <1>7, <1>8, BothClean
<1>10. Asks(demand, group, "anchor", p, quantity)
  BY <1>9, GroupDemandAsks DEF demand
<1>11. out.events = warned.events \cup demand.events /\ warned.events = {}
  BY <1>7, <1>8, OutParts DEF Both, Warns, warned
<1>12. Asks(out, group, "anchor", p, quantity)
  BY <1>10, <1>11 DEF Asks
<1>13. perAxis \in AnchorsPer(s, template)
  BY <1>5, <1>6, <1>8
<1> QED
  BY <1>7, <1>12, <1>13 DEF out, p, s, quantity

LEMMA WstbAsks ==
  ASSUME NEW in, InputAccepted(in), NEW group, NEW supports, NEW template,
         Clean(WstbDemand(in, group, template, supports))
  PROVE  LET s == Configuration(in, group)
             out == WstbDemand(in, group, template, supports)
         IN IF s.wstb = None THEN out.events = {}
            ELSE Asks(out, group, "wstb", s.wstb, Multiply(supports, Whole(ClampsPer(s))))
<1> DEFINE s == Configuration(in, group)
           p == s.wstb
           perSupport == CASE s.wstbMode = "one" -> 1 [] s.wstbMode = "two" -> 2
                           [] s.wstbMode = "custom" -> s.wstbQuantity
           conflicts == { c \in template.components :
                            /\ c.role = "wstb"
                            /\ \/ c.product # p \/ c.mode # "perSupport"
                               \/ c.quantity # Whole(perSupport) }
           warned == Warns({Warning("WSTB_PROJECT_RULE_UNCONFIRMED", GroupSubject(group))}
                       \cup { Overridden("MANUAL_QUANTITY_OVERRIDE", GroupSubject(group), m)
                                : m \in {s.wstbMode} \cap {"custom"} }
                       \cup { Warning("WSTB_TEMPLATE_RULE_CONFLICT", <<"templateComponent", c.id>>)
                                : c \in conflicts })
           quantity == Multiply(supports, Whole(perSupport))
           demand == GroupDemand(in, group, p, "wstb", "wstb", quantity, "projectRule", s.wstbRule)
           out == WstbDemand(in, group, template, supports)
<1>1. out = IF p = None THEN Emits({})
            ELSE IF p \in DOMAIN in.products
            THEN IF s.wstbMode # "custom" /\ in.rules[s.wstbRule].quantity # perSupport
                 THEN Throws("SEMANTIC_INPUT_INVALID")
                 ELSE Both(warned, demand)
            ELSE Throws("INTERNAL_INVARIANT_FAILED")
  BY Zenon DEF WstbDemand, WithKnown
<1>2. perSupport = ClampsPer(s)
  BY Zenon DEF ClampsPer
<1>3. warned.events = {} /\ Emits({}).events = {}
  BY OutParts DEF Warns, Emits
<1>4. Clean(out)
  OBVIOUS
<1> HIDE DEF warned, demand, out, p, perSupport, s
<1>5. CASE p = None
  BY <1>1, <1>3, <1>5 DEF out, p, s
<1>6. CASE p # None
  <2>1. out = Both(warned, demand)
    BY <1>1, <1>4, <1>6, NotClean, Zenon
  <2>2. Clean(demand)
    BY <1>4, <2>1, BothClean
  <2>3. Asks(demand, group, "wstb", p, quantity)
    BY <2>2, GroupDemandAsks DEF demand
  <2>4. out.events = demand.events
    BY <1>3, <2>1, OutParts DEF Both
  <2>5. Asks(out, group, "wstb", p, quantity)
    BY <2>3, <2>4 DEF Asks
  <2> QED
    BY <1>2, <1>6, <2>5 DEF out, p, s
<1> QED
  BY <1>5, <1>6

LEMMA ComponentAsks ==
  ASSUME NEW in, InputAccepted(in), NEW group, NEW template, NEW c, NEW supports,
         Clean(ComponentDemand(in, group, template, c, supports)),
         NEW e \in ComponentDemand(in, group, template, c, supports).events
  PROVE  /\ ~Dedicated(Configuration(in, group), c)
         /\ e.from[2] = GroupSubject(group) /\ e.category = ComponentCategory(c) /\ e.product = c.product
<1> DEFINE s == Configuration(in, group)
           subject == <<"templateComponent", c.id>>
           p == c.product
           category == ComponentCategory(c)
           quantities == ComponentQuantities(in, group, c, supports)
           quantity == CHOOSE q \in quantities : TRUE
           status == IF template.review THEN "engineeringReview" ELSE "calculated"
           demand == GroupDemand(in, group, p, category, category, quantity, status, c.id)
           manual == IF c.mode = "manual"
                     THEN {Overridden("MANUAL_QUANTITY_OVERRIDE", subject, c.id)} ELSE {}
           refused == Warns({Warning("TEMPLATE_COMPONENT_MANUAL_VALUE_REQUIRED", subject)})
           marked == { [d EXCEPT !.eligible = c.suppress] : d \in demand.events }
           emitted == Out(marked, demand.warnings \cup manual, demand.failures)
           out == ComponentDemand(in, group, template, c, supports)
<1>1. out = IF Dedicated(s, c) THEN Emits({})
            ELSE IF p \in DOMAIN in.products
            THEN IF c.unit # in.products[p].unit THEN Throws("SEMANTIC_INPUT_INVALID")
                 ELSE IF quantities = {} THEN refused ELSE emitted
            ELSE Throws("INTERNAL_INVARIANT_FAILED")
  BY Zenon DEF ComponentDemand, WithKnown
<1>2. Emits({}).events = {} /\ refused.events = {} /\ \A code : Throws(code).events = {}
  BY OutParts DEF Emits, Warns, Throws
<1>3. e \in out.events
  OBVIOUS
<1>4. emitted.events = marked /\ emitted.warnings = demand.warnings \cup manual /\ emitted.failures = demand.failures
  <2> HIDE DEF demand, marked, manual
  <2> QED
    BY OutParts
<1> HIDE DEF out, refused, emitted, quantities, status, category
<1>5. ~Dedicated(s, c) /\ out = emitted
  BY <1>1, <1>2, <1>3
<1>6. Clean(demand)
  <2>1. Clean(out)
    BY DEF out
  <2> HIDE DEF demand, marked, manual
  <2> QED
    BY <1>4, <1>5, <2>1 DEF Clean
<1>7. PICK d \in demand.events : e = [d EXCEPT !.eligible = c.suppress]
  BY <1>3, <1>4, <1>5
<1>8. d.from[2] = GroupSubject(group) /\ d.category = category /\ d.product = p
  BY <1>6, <1>7, GroupDemandAsks DEF Asks
<1>9. e.from = d.from /\ e.category = d.category /\ e.product = d.product
  BY <1>7
<1> QED
  BY <1>5, <1>8, <1>9 DEF category

\* The demand of a rule in a category, for a product.
DemandOf(out, category, p) == { e \in out.events : e.category = category /\ e.product = p }

LEMMA AskedOnly ==
  ASSUME NEW out, NEW group, NEW category, NEW p, NEW quantity, Asks(out, group, category, p, quantity)
  PROVE  /\ \A e \in out.events : e.from[2] = GroupSubject(group) /\ e.category = category /\ e.product = p
         /\ \E e : out.events = {e} /\ e.quantity = quantity
  BY DEF Asks

LEMMA CountEmitsNothing ==
  ASSUME NEW in, NEW group
  PROVE  SupportCountOut(in, group).events = {}
<1> DEFINE fitted == { IF Item(in, g).supportRule = None
                       THEN Warns({Warning("FITTING_ADDITIONAL_SUPPORT_UNRESOLVED", <<"fitting", Item(in, g).id>>)})
                       ELSE IF LET rule == in.rules[Item(in, g).supportRule]
                               IN rule.type = "fittingAdditionalSupport" /\ rule.owner = Item(in, g).id
                       THEN Emits({}) ELSE Throws("SEMANTIC_INPUT_INVALID")
                         : g \in GroupFittings(in, group) }
           manual == { Warns({Overridden("MANUAL_EXTRA_SUPPORT", <<"manualSupport", r>>, r)})
                         : r \in { q \in group : in.routes[q].supports.extra > 0 } }
<1>1. SupportCountOut(in, group) = All(fitted \cup manual)
  BY Zenon DEF SupportCountOut
<1>2. /\ \A warned : Warns(warned).events = {}
      /\ Emits({}).events = {} /\ \A code : Throws(code).events = {}
  BY OutParts DEF Emits, Warns, Throws
<1>3. \A o \in fitted : o.events = {}
  BY <1>2
<1>4. \A o \in manual : o.events = {}
  BY <1>2
<1> HIDE DEF fitted, manual
<1>5. All(fitted \cup manual).events = UNION { o.events : o \in fitted \cup manual }
  BY OutParts DEF All
<1>6. PICK S : S = fitted \cup manual
  OBVIOUS
<1>7. \A o \in S : o.events = {}
  BY <1>3, <1>4, <1>6
<1>8. UNION { o.events : o \in S } = {}
  BY <1>7
<1> QED
  BY <1>1, <1>5, <1>6, <1>8

\* All that a group is given is for that group, and what each support carries is demanded once.
LEMMA GroupIsServed ==
  ASSUME NEW in, InputAccepted(in), NEW group, Clean(SupportDemand(in, group)),
         NEW s, s = Configuration(in, group), NEW supports, supports = SupportCount(in, group),
         NEW out, out = SupportDemand(in, group)
  PROVE  /\ \A e \in out.events : e.from[2] = GroupSubject(group)
         /\ s.template # None
         /\ s.product # None =>
              \E e : DemandOf(out, "support", s.product) = {e} /\ e.quantity = supports
         /\ s.wstb # None =>
              \E e : DemandOf(out, "wstb", s.wstb) = {e} /\ e.quantity = Multiply(supports, Whole(ClampsPer(s)))
         /\ \E e : /\ DemandOf(out, "anchor", s.anchor) = {e}
                   /\ \E n \in AnchorsPer(s, in.templates[s.template]) : e.quantity = Multiply(supports, n)
<1> DEFINE subject == GroupSubject(group)
           template == in.templates[s.template]
           body == GroupDemand(in, group, s.product, "support", "support", supports, "calculated", None)
           support == IF s.product = None THEN Emits({})
                      ELSE IF s.product \in DOMAIN in.products THEN body
                      ELSE Throws("INTERNAL_INVARIANT_FAILED")
           refused == Unresolved(in, {Warning("ASSEMBLY_TEMPLATE_MISSING", subject)})
           rows == { ComponentDemand(in, group, template, c, supports) : c \in template.components }
           anchor == AnchorDemand(in, group, template, supports)
           wstb == WstbDemand(in, group, template, supports)
           assembly == IF s.template = None THEN refused ELSE All(rows \cup {anchor, wstb})
           counted == SupportCountOut(in, group)
           outs == {counted, support, assembly}
<1>1. out = All(outs)
  BY Zenon DEF SupportDemand, WithKnown
<1>2. ~Clean(refused)
  <2>1. "ASSEMBLY_TEMPLATE_MISSING" \in Blocking
    BY DEF Blocking
  <2> QED
    BY <2>1, CodeBlocks
<1>3. Clean(support) /\ Clean(assembly)
  <2>1. Clean(out)
    OBVIOUS
  <2>2. support \in outs /\ assembly \in outs
    OBVIOUS
  <2> HIDE DEF outs, support, assembly
  <2> QED
    BY <1>1, <2>1, <2>2, AllClean
<1>4. counted.events = {}
  BY CountEmitsNothing
<1> HIDE DEF refused, rows, anchor, wstb, body, counted
<1>5. s.template # None /\ assembly = All(rows \cup {anchor, wstb})
  BY <1>2, <1>3
<1>6. Clean(anchor) /\ Clean(wstb) /\ \A row \in rows : Clean(row)
  <2>1. anchor \in rows \cup {anchor, wstb} /\ wstb \in rows \cup {anchor, wstb}
    OBVIOUS
  <2>2. \A row \in rows : row \in rows \cup {anchor, wstb}
    OBVIOUS
  <2> HIDE DEF assembly, support
  <2> QED
    BY <1>3, <1>5, <2>1, <2>2, AllClean
<1>7. assembly.events = (UNION { row.events : row \in rows }) \cup anchor.events \cup wstb.events
  <2>1. All(rows \cup {anchor, wstb}).events = UNION { o.events : o \in rows \cup {anchor, wstb} }
    BY OutParts DEF All
  <2> QED
    BY <1>5, <2>1
<1>8. out.events = support.events \cup (UNION { row.events : row \in rows }) \cup anchor.events \cup wstb.events
  <2>2. outs = {counted, support, assembly}
    OBVIOUS
  <2> HIDE DEF outs, support, assembly
  <2>1. All(outs).events = UNION { o.events : o \in outs }
    BY OutParts DEF All
  <2> QED
    BY <1>1, <1>4, <1>7, <2>1, <2>2
<1>9. IF s.product = None THEN support.events = {} ELSE Asks(support, group, "support", s.product, supports)
  <2>1. CASE s.product = None
    BY <2>1, OutParts DEF Emits
  <2>2. CASE s.product # None
    <3>1. support = body
      BY <1>3, <2>2, NotClean
    <3>2. Clean(body)
      BY <1>3, <3>1
    <3>3. Asks(body, group, "support", s.product, supports)
      BY <3>2, GroupDemandAsks DEF body
    <3> QED
      BY <2>2, <3>1, <3>3
  <2> QED
    BY <2>1, <2>2
<1> HIDE DEF support, assembly
<1>10. ASSUME NEW row \in rows, NEW e \in row.events
       PROVE  /\ e.from[2] = subject /\ e.category \in {"structure", "support", "accessory"}
              /\ e.category = "support" => e.product # s.product
  <2>1. PICK c \in template.components : row = ComponentDemand(in, group, template, c, supports)
    BY <1>10 DEF rows
  <2>2. Clean(row)
    BY <1>6
  <2>3. /\ ~Dedicated(s, c)
        /\ e.from[2] = subject /\ e.category = ComponentCategory(c) /\ e.product = c.product
    <3>1. PICK t : t = template
      OBVIOUS
    <3> HIDE DEF template
    <3> QED
      BY <2>1, <2>2, <3>1, ComponentAsks
  <2>4. ComponentCategory(c) \in {"structure", "support", "accessory"}
    BY DEF ComponentCategory
  <2>5. ComponentCategory(c) = "support" => c.role = "support"
    BY DEF ComponentCategory
  <2>6. c.role = "support" => c.product # s.product
    BY <2>3 DEF Dedicated
  <2> QED
    BY <2>3, <2>4, <2>5, <2>6
<1>11. /\ s.anchor # None
       /\ \E n \in AnchorsPer(s, template) : Asks(anchor, group, "anchor", s.anchor, Multiply(supports, n))
  <2>1. PICK t : t = template
    OBVIOUS
  <2> HIDE DEF template
  <2> QED
    BY <1>6, <2>1, AnchorAsks DEF anchor
<1>12. IF s.wstb = None THEN wstb.events = {}
       ELSE Asks(wstb, group, "wstb", s.wstb, Multiply(supports, Whole(ClampsPer(s))))
  <2>1. PICK t : t = template
    OBVIOUS
  <2> HIDE DEF template
  <2> QED
    BY <1>6, <2>1, WstbAsks DEF wstb
<1>13. /\ \A e \in support.events : e.from[2] = subject /\ e.category = "support" /\ e.product = s.product
       /\ \A e \in anchor.events : e.from[2] = subject /\ e.category = "anchor" /\ e.product = s.anchor
       /\ \A e \in wstb.events : e.from[2] = subject /\ e.category = "wstb" /\ e.product = s.wstb
  <2>1. \A e \in support.events : e.from[2] = subject /\ e.category = "support" /\ e.product = s.product
    BY <1>9, AskedOnly
  <2>2. \A e \in anchor.events : e.from[2] = subject /\ e.category = "anchor" /\ e.product = s.anchor
    <3>1. PICK n : Asks(anchor, group, "anchor", s.anchor, Multiply(supports, n))
      BY <1>11
    <3> QED
      BY <3>1, AskedOnly
  <2>3. \A e \in wstb.events : e.from[2] = subject /\ e.category = "wstb" /\ e.product = s.wstb
    BY <1>12, AskedOnly
  <2> QED
    BY <2>1, <2>2, <2>3
<1> HIDE DEF subject
<1>14. \A e \in out.events : e.from[2] = subject
  BY <1>8, <1>10, <1>13
<1>15. ASSUME s.product # None
       PROVE  \E e : DemandOf(out, "support", s.product) = {e} /\ e.quantity = supports
  <2>1. PICK e : support.events = {e} /\ e.quantity = supports
    BY <1>9, <1>15, AskedOnly
  <2>2. DemandOf(out, "support", s.product) = {e}
    BY <1>8, <1>10, <1>13, <2>1 DEF DemandOf
  <2> QED
    BY <2>1, <2>2
<1>16. ASSUME s.wstb # None
       PROVE  \E e : DemandOf(out, "wstb", s.wstb) = {e} /\ e.quantity = Multiply(supports, Whole(ClampsPer(s)))
  <2>1. PICK e : wstb.events = {e} /\ e.quantity = Multiply(supports, Whole(ClampsPer(s)))
    BY <1>12, <1>16, AskedOnly
  <2>2. DemandOf(out, "wstb", s.wstb) = {e}
    BY <1>8, <1>10, <1>13, <2>1 DEF DemandOf
  <2> QED
    BY <2>1, <2>2
<1>17. \E e : /\ DemandOf(out, "anchor", s.anchor) = {e}
              /\ \E n \in AnchorsPer(s, template) : e.quantity = Multiply(supports, n)
  <2>1. PICK n \in AnchorsPer(s, template) : Asks(anchor, group, "anchor", s.anchor, Multiply(supports, n))
    BY <1>11
  <2>2. PICK e : anchor.events = {e} /\ e.quantity = Multiply(supports, n)
    BY <2>1, AskedOnly
  <2>3. DemandOf(out, "anchor", s.anchor) = {e}
    BY <1>8, <1>10, <1>13, <2>2 DEF DemandOf
  <2> QED
    BY <2>2, <2>3
<1> QED
  BY <1>5, <1>14, <1>15, <1>16, <1>17 DEF subject

LEMMA TotalOfOne ==
  ASSUME NEW e, e.quantity \in Fractions
  PROVE  Total({e}) = e.quantity
<1>1. PICK f : f = [x \in {e} |-> x.quantity]
  OBVIOUS
<1>2. DOMAIN f = {e} /\ f[e] = e.quantity
  BY <1>1
<1>3. IsFiniteSet(DOMAIN f) /\ \A x \in DOMAIN f : f[x] \in Fractions
  BY <1>2, FS_Singleton
<1>4. PICK S : S = {e}
  OBVIOUS
<1>5. S \in SUBSET DOMAIN f /\ e \in S /\ S \ {e} = {}
  BY <1>2, <1>4
<1>6. SumOf(Restrict(f, S)) = Add(f[e], SumOf(Restrict(f, S \ {e})))
  BY <1>3, <1>5, SumTakes
<1>7. SumOf(Restrict(f, S \ {e})) = Zero
  BY <1>3, <1>5, SumsOfParts
<1>8. Restrict(f, S) = f
  BY <1>1, <1>4 DEF Restrict
<1>9. SumOf(f) = e.quantity
  BY <1>2, <1>3, <1>6, <1>7, <1>8, AddLaws
<1> QED
  BY <1>1, <1>9, Zenon DEF Total, SumOver

\* The demand of one category that a support group has for a product.
OfGroup(group, category, p) ==
  { e \in events : e.from[2] = GroupSubject(group) /\ e.category = category /\ e.product = p }

\* What is demanded for a group that has so many supports, when it selects s: the selected
\* support, WSTB and anchor, in the number per support.
IsServed(group, s, supports, clamps, anchors) ==
  /\ s.product # None => Total(OfGroup(group, "support", s.product)) = supports
  /\ s.wstb # None => Total(OfGroup(group, "wstb", s.wstb)) = Multiply(supports, Whole(clamps))
  /\ \E n \in anchors : Total(OfGroup(group, "anchor", s.anchor)) = Multiply(supports, n)

\* A result that is ready has asked every group for what its configuration says.
LEMMA ReadyGroupIsServed ==
  ASSUME EngineInv, AccountInv, AssembledInv, Calculated, result.ready, NEW group \in groups,
         NEW s, s = Configuration(input, group), NEW supports, supports = SupportCount(input, group)
  PROVE  /\ s.template # None
         /\ IsServed(group, s, supports, ClampsPer(s), AnchorsPer(s, input.templates[s.template]))
<1>1. /\ InputAccepted(input)
      /\ \A w \in warnings : w[1] \notin Blocking
      /\ groups = SupportGroups(input)
      /\ Kept(SupportDemands(input, groups))
  BY DEF EngineInv, Verdict, ParsePast, GroupsPast, SupportsPast, Past
<1>2. \A e \in events : Original(input, e)
  BY DEF AccountInv, TopologyKept
<1>3. PICK outs : outs = { SupportDemand(input, g) : g \in groups }
  OBVIOUS
<1>4. PICK out : out = SupportDemand(input, group)
  OBVIOUS
<1>5. Kept(All(outs)) /\ out \in outs
  <2>1. SupportDemands(input, groups) = All(outs)
    BY <1>3, Zenon DEF SupportDemands
  <2> QED
    BY <1>1, <1>3, <1>4, <2>1
<1>6. Clean(out)
  BY <1>1, <1>5, KeptIsDemanded
<1>7. /\ \A e \in out.events : e.from[2] = GroupSubject(group)
      /\ s.template # None
      /\ s.product # None =>
           \E e : DemandOf(out, "support", s.product) = {e} /\ e.quantity = supports
      /\ s.wstb # None =>
           \E e : DemandOf(out, "wstb", s.wstb) = {e} /\ e.quantity = Multiply(supports, Whole(ClampsPer(s)))
      /\ \E e : /\ DemandOf(out, "anchor", s.anchor) = {e}
                /\ \E n \in AnchorsPer(s, input.templates[s.template]) : e.quantity = Multiply(supports, n)
  BY <1>1, <1>4, <1>6, GroupIsServed
<1>8. out.events \subseteq events
  <2>1. All(outs).events = UNION { o.events : o \in outs }
    BY OutParts DEF All
  <2> QED
    BY <1>5, <2>1 DEF Kept
<1>9. ASSUME NEW e \in events, e.from[2] = GroupSubject(group) PROVE e \in out.events
  <2>1. e.from[2][1] = "supportGroup"
    BY <1>9 DEF GroupSubject
  <2>2. PICK g \in SupportGroups(input) : e \in SupportDemand(input, g).events
    BY <2>1 DEF AssembledInv, Assembled
  <2>3. PICK other : other = SupportDemand(input, g)
    OBVIOUS
  <2>4. Clean(other)
    <3>1. other \in outs
      BY <1>1, <1>3, <2>3
    <3> QED
      BY <1>1, <1>5, <3>1, KeptIsDemanded
  <2>5. PICK t, n : t = Configuration(input, g) /\ n = SupportCount(input, g)
    OBVIOUS
  <2>6. \A d \in other.events : d.from[2] = GroupSubject(g)
    BY <1>1, <2>3, <2>4, <2>5, GroupIsServed
  <2>7. GroupSubject(g) = GroupSubject(group)
    BY <1>9, <2>2, <2>3, <2>6
  <2>8. g = group
    BY <2>7 DEF GroupSubject
  <2> QED
    BY <1>4, <2>2, <2>8
<1>10. ASSUME NEW category, NEW p PROVE OfGroup(group, category, p) = DemandOf(out, category, p)
  <2>1. OfGroup(group, category, p) \subseteq DemandOf(out, category, p)
    BY <1>9 DEF OfGroup, DemandOf
  <2>2. DemandOf(out, category, p) \subseteq OfGroup(group, category, p)
    BY <1>7, <1>8 DEF OfGroup, DemandOf
  <2> QED
    BY <2>1, <2>2
<1>11. ASSUME NEW category, NEW p, NEW e, DemandOf(out, category, p) = {e}
       PROVE  Total(OfGroup(group, category, p)) = e.quantity
  <2>1. e \in events
    BY <1>8, <1>11 DEF DemandOf
  <2>2. Measured(e)
    BY <1>2, <2>1 DEF Original, Sound
  <2>3. e.quantity \in Fractions
    BY <2>2 DEF Measured
  <2> QED
    BY <1>10, <1>11, <2>3, TotalOfOne
<1>12. ASSUME s.product # None PROVE Total(OfGroup(group, "support", s.product)) = supports
  BY <1>7, <1>11, <1>12
<1>13. ASSUME s.wstb # None
       PROVE  Total(OfGroup(group, "wstb", s.wstb)) = Multiply(supports, Whole(ClampsPer(s)))
  BY <1>7, <1>11, <1>13
<1>14. \E n \in AnchorsPer(s, input.templates[s.template]) :
         Total(OfGroup(group, "anchor", s.anchor)) = Multiply(supports, n)
  BY <1>7, <1>11
<1> QED
  BY <1>7, <1>12, <1>13, <1>14 DEF IsServed

\* A result that is ready has sections for the whole length of every segment.
LEMMA ReadySegmentIsCovered ==
  ASSUME EngineInv, result.ready, NEW g \in Segments(input)
  PROVE  \E e \in sections :
           /\ e.from[2] = <<"segment", Item(input, g).id>> /\ e.product = input.routes[g[1]].product
           /\ Leq(Item(input, g).length, Multiply(e.count, e.length))
<1>1. /\ InputAccepted(input)
      /\ \A w \in warnings : w[1] \notin Blocking
      /\ Kept(SectionDemands(input)) /\ sections = SectionDemands(input).events
  BY DEF EngineInv, Verdict, ParsePast, SectionsPast, Past
<1>2. PICK outs : outs = { SectionDemand(input, h) : h \in Segments(input) }
                    \cup { Throws("SEMANTIC_INPUT_INVALID")
                             : r \in { q \in Routes(input) : input.products[input.routes[q].product].unit = "kg" } }
  OBVIOUS
<1>3. SectionDemands(input) = All(outs)
  BY <1>2, Zenon DEF SectionDemands
<1>4. Kept(All(outs)) /\ SectionDemand(input, g) \in outs
  BY <1>1, <1>2, <1>3
<1>5. Clean(SectionDemand(input, g))
  BY <1>1, <1>4, KeptIsDemanded
<1>6. PICK e : /\ SectionDemand(input, g).events = {e}
               /\ e.from = <<"linearSection", <<"segment", Item(input, g).id>>, input.routes[g[1]].product, None>>
               /\ e.product = input.routes[g[1]].product
               /\ Leq(Item(input, g).length, Multiply(e.count, e.length))
  BY <1>1, <1>5, SectionIsEmitted
<1>7. All(outs).events = UNION { o.events : o \in outs }
  BY OutParts DEF All
<1>8. e \in sections
  BY <1>1, <1>3, <1>4, <1>6, <1>7
<1> QED
  BY <1>6, <1>8

LEMMA LeaderLeads ==
  ASSUME NEW in, InputAccepted(in), NEW group \in SupportGroups(in)
  PROVE  Leader(group) \in group
<1>1. group \in SUBSET Nat /\ group # {}
  BY GroupFits, RouteFacts
<1>2. \E r \in group : \A q \in group : r <= q
  BY <1>1, Smallest
<1> QED
  BY <1>2, Zenon DEF Leader

\* All routes of a support group are configured alike, whichever of them comes first.
LEMMA GroupShares ==
  ASSUME NEW in, InputAccepted(in), NEW group \in SupportGroups(in), NEW r \in group
  PROVE  SupportKey(in.routes[r].supports) = SupportKey(Configuration(in, group))
<1>1. group \subseteq Routes(in)
  BY GroupFits
<1>2. Leader(group) \in group
  BY LeaderLeads
<1>3. PICK apart : apart = { q \in Routes(in) : SupportKey(in.routes[q].supports) = SupportKey(in.routes[r].supports) }
  OBVIOUS
<1>4. ASSUME NEW c \in Sharing(in) PROVE RoutesOf(c) \subseteq apart \/ RoutesOf(c) \cap apart = {}
  <2>1. Compatible(in, c) /\ RoutesOf(c) \subseteq Routes(in)
    BY ConnectionFacts DEF Sharing
  <2>2. PICK keys : keys = { SupportKey(in.routes[q].supports) : q \in RoutesOf(c) }
    OBVIOUS
  <2>3. Cardinality(keys) = 1
    BY <2>1, <2>2 DEF Compatible
  <2>4. IsFiniteSet(keys)
    <3>1. IsFiniteSet(RoutesOf(c))
      BY <2>1, RouteFacts, FS_Subset
    <3>2. PICK f : f = [q \in RoutesOf(c) |-> SupportKey(in.routes[q].supports)]
      OBVIOUS
    <3>3. f \in Surjection(RoutesOf(c), keys)
      BY <2>2, <3>2 DEF Surjection
    <3> QED
      BY <3>1, <3>3, FS_Surjection
  <2>5. PICK key : keys = {key}
    BY <2>3, <2>4, FS_Singleton
  <2>6. \A q \in RoutesOf(c) : SupportKey(in.routes[q].supports) = key
    BY <2>2, <2>5
  <2> QED
    BY <1>3, <2>1, <2>6
<1>5. apart \in SUBSET Routes(in)
  BY <1>3
<1>6. group \subseteq apart \/ group \cap apart = {}
  BY <1>4, <1>5, GroupsDivide
<1>7. r \in apart
  BY <1>1, <1>3
<1>8. Leader(group) \in apart
  BY <1>2, <1>6, <1>7
<1> QED
  BY <1>3, <1>8 DEF Configuration
=============================================================================
