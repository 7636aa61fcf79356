----------------------- MODULE ProjectCalculationProofs -----------------------
(***************************************************************************)
(* A calculation that a project, the editor or another caller asks for     *)
(* keeps what the engine keeps: the engine's invariants hold while it      *)
(* runs, and nothing before it leaves a result or demand.  What the editor *)
(* makes of a draft, in any number of edits, holds together, is offered    *)
(* for calculation only when the preflight passes it, and can be stored.   *)
(* Last, a result that is ready for approval has what every route selects. *)
(***************************************************************************)
EXTENDS ProjectCalculation, CalculationEngineProofs

\* Before the engine is called there is no result and no demand; while it runs, its
\* invariants hold.
NothingYet == stage \in {"edit", "prepare"} => ~result.ready /\ events = {}
EngineKept == stage \in Stages => EngineInv /\ AccountInv
CalculationInv == NothingYet /\ EngineKept

\* What the engine's invariants say depends on the engine's variables only.
LEMMA EngineUnchanged ==
  ASSUME EngineInv, AccountInv, UNCHANGED engineVars
  PROVE  EngineInv' /\ AccountInv'
BY StagesKeep, StagesAccount

\* The engine is called, and starts with nothing.
Called == stage = "parse" /\ ~result.ready /\ events = {}

LEMMA ParseStarts ==
  Called => EngineInv /\ AccountInv
<1> SUFFICES ASSUME Called PROVE EngineInv /\ AccountInv
  OBVIOUS
<1>1. EngineInv
  BY DEF Called, EngineInv, Stages, Verdict, Past, ParsePast, SectionsPast, GroupsPast, JointsPast,
         FittingsPast, SupportsPast, EndpointsPast, ManualItemsPast
<1>2. IsFiniteSet({})
  BY FS_EmptySet
<1> QED
  BY <1>1, <1>2 DEF Called, AccountInv, SuppressionIsExact, Calculated

LEMMA StartsWithNothing ==
  Init => CalculationInv
<1> SUFFICES ASSUME Init PROVE CalculationInv
  OBVIOUS
<1>1. ~result.ready /\ events = {} /\ stage \in {"edit", "prepare", "parse"}
  BY DEF Init, NothingComputed, NoResult, RequestStarts, EditorStarts, EngineStarts
<1>2. ASSUME stage = "parse" PROVE EngineInv /\ AccountInv
  BY <1>1, <1>2, ParseStarts DEF Called
<1> QED
  BY <1>1, <1>2 DEF CalculationInv, NothingYet, EngineKept, Stages

LEMMA RequestsKeep ==
  CalculationInv /\ [Next]_vars => CalculationInv'
<1> SUFFICES ASSUME CalculationInv, [Next]_vars PROVE CalculationInv'
  OBVIOUS
<1>1. CASE UNCHANGED engineVars
  <2>1. UNCHANGED <<stage, result, events>>
    BY <1>1 DEF engineVars
  <2> QED
    BY <1>1, <2>1, EngineUnchanged DEF CalculationInv, NothingYet, EngineKept
<1>2. CASE Submit
  BY <1>2 DEF Submit, CalculationInv, NothingYet, EngineKept, Stages
<1>3. CASE Prepare
  <2>1. UNCHANGED <<result, events>> /\ stage = "prepare" /\ stage' \in {"answered", "parse"}
    BY <1>3 DEF Prepare
  <2>2. ~result'.ready /\ events' = {}
    BY <2>1 DEF CalculationInv, NothingYet
  <2>3. ASSUME stage' = "parse" PROVE EngineInv' /\ AccountInv'
    <3>1. Called'
      BY <2>2, <2>3 DEF Called
    <3> QED
      BY <3>1, ParseStarts, PTL
  <2> QED
    BY <2>1, <2>2, <2>3 DEF CalculationInv, NothingYet, EngineKept, Stages
<1>4. CASE Calculate
  <2>1. stage \in Stages
    BY <1>4 DEF Stages, Calculate, Parse, EmitSections, GroupSupports, EmitJoints, EmitFittings,
                EmitSupports, EmitEndpoints, EmitManualItems, Suppress, Build
  <2>2. EngineInv' /\ AccountInv'
    BY <1>4, <2>1, StagesKeep, StagesAccount DEF CalculationInv, EngineKept
  <2>3. stage' \notin {"edit", "prepare"}
    BY <2>2 DEF EngineInv, Stages
  <2> QED
    BY <2>2, <2>3 DEF CalculationInv, NothingYet, EngineKept
<1>5. CASE Respond
  BY <1>5 DEF Respond, CalculationInv, NothingYet, EngineKept, Stages
<1>6. vars' = vars => UNCHANGED engineVars
  BY DEF vars
<1> QED
  BY <1>1, <1>2, <1>3, <1>4, <1>5, <1>6 DEF Next

LEMMA CalculationInvariance ==
  Spec => []CalculationInv
BY StartsWithNothing, RequestsKeep, PTL DEF Spec

\* Whoever asks for a calculation, the page, a validation, a calculation of a stored draft or
\* a caller of the engine, and whatever the draft, the catalog and the input are: a result
\* that is ready for approval leaves no material out (result-builder.ts, project-service.ts).
THEOREM CalculationsAreComplete ==
  Spec => []ReadyLeavesNothingOut
<1>1. CalculationInv => ReadyLeavesNothingOut
  <2> SUFFICES ASSUME CalculationInv, stage = "done" PROVE ReadyLeavesNothingOut
    BY DEF ReadyLeavesNothingOut, Calculated
  <2> QED
    BY NothingIsLeftOut DEF CalculationInv, EngineKept, Stages
<1> QED
  BY <1>1, CalculationInvariance, PTL

\* The same for the bill of material: whoever asks, the lines of the result add up to the
\* demand that is left and what is ordered covers it with its reserve, in whole packages
\* and pieces and no more of them than that takes (aggregation.ts, policies.ts).
THEOREM CalculationsAccountForDemand ==
  Spec => []LinesAccountForDemand
<1>1. CalculationInv => LinesAccountForDemand
  <2> SUFFICES ASSUME CalculationInv, stage = "done" PROVE LinesAccountForDemand
    BY DEF LinesAccountForDemand, Calculated
  <2> QED
    BY AccountingParts DEF CalculationInv, EngineKept, Stages, AccountInv
<1> QED
  BY <1>1, CalculationInvariance, PTL

\* The same for suppression: whoever asks, it takes of each product what other products
\* include, once, and no demand that may not be suppressed (included-items.ts).
THEOREM CalculationsSuppressExactly ==
  Spec => []SuppressionIsExact
<1>1. CalculationInv => SuppressionIsExact
  <2> SUFFICES ASSUME CalculationInv, stage = "build" PROVE SuppressionIsExact
    BY DEF SuppressionIsExact
  <2> QED
    BY DEF CalculationInv, EngineKept, Stages, AccountInv
<1> QED
  BY <1>1, CalculationInvariance, PTL

\* The same for what is counted: whoever asks, supports are counted once in one group and
\* joints fill the gaps of the straight runs (support-groups.ts, straight-runs.ts).
THEOREM CalculationsFollowTopology ==
  Spec => []CountsFollowTopology
<1>1. CalculationInv => CountsFollowTopology
  <2>1. stage \notin Stages => CountsFollowTopology
    BY DEF Stages, Calculated, CountsFollowTopology, SupportsAreCountedOnce, JointsFillTheGaps
  <2> QED
    BY <2>1, TopologyIsCounted, Zenon DEF CalculationInv, EngineKept
<1> QED
  BY <1>1, CalculationInvariance, PTL

---------------------------------------------------------------------------
(* Sequences and the identifiers that are drawn.                                          *)

LEMMA SequenceParts ==
  ASSUME NEW s, IsSequence(s)
  PROVE  Len(s) \in Nat /\ DOMAIN s = 1..Len(s) /\ s = [i \in 1..Len(s) |-> s[i]]
<1>1. PICK S : s \in Seq(S)
  BY DEF IsSequence
<1> QED
  BY <1>1

LEMMA SequenceOf ==
  ASSUME NEW s, NEW n \in Nat, s = [i \in 1..n |-> s[i]]
  PROVE  IsSequence(s) /\ Len(s) = n /\ DOMAIN s = 1..n
<1> DEFINE S == { s[i] : i \in 1..n }
<1>1. s \in [1..n -> S]
  OBVIOUS
<1>2. s \in Seq(S) /\ Len(s) = n
  BY <1>1
<1>3. DOMAIN s = 1..n
  BY <1>1
<1> QED
  BY <1>2, <1>3 DEF IsSequence

LEMMA AppendParts ==
  ASSUME NEW s, IsSequence(s), NEW x
  PROVE  /\ IsSequence(Append(s, x)) /\ DOMAIN Append(s, x) = 1..(Len(s) + 1)
         /\ \A i \in DOMAIN s : Append(s, x)[i] = s[i]
         /\ Append(s, x)[Len(s) + 1] = x
<1> DEFINE S == { s[i] : i \in DOMAIN s } \cup {x}
           t == Append(s, x)
<1>1. Len(s) \in Nat /\ DOMAIN s = 1..Len(s)
  BY SequenceParts
<1>2. s \in Seq(S)
  <2>1. s = [i \in 1..Len(s) |-> s[i]]
    BY SequenceParts
  <2>2. s \in [1..Len(s) -> S]
    BY <1>1, <2>1
  <2> QED
    BY <1>1, <2>2
<1>3. t \in Seq(S) /\ Len(t) = Len(s) + 1
  BY <1>2
<1>4. DOMAIN t = 1..(Len(s) + 1) /\ t = [i \in 1..(Len(s) + 1) |-> t[i]]
  <2> HIDE DEF t
  <2> QED
    BY <1>3
<1>6. \A i \in DOMAIN s : t[i] = s[i]
  BY <1>1, <1>2
<1>7. t[Len(s) + 1] = x
  BY <1>2
<1> HIDE DEF t
<1>5. IsSequence(t)
  <2>1. Len(s) + 1 \in Nat
    BY <1>1
  <2> QED
    BY <2>1, <1>4, SequenceOf
<1> QED
  BY <1>4, <1>5, <1>6, <1>7 DEF t

\* Identifiers that are drawn are new, and different ones.
LEMMA NewIdsAreNew ==
  ASSUME NEW n \in Nat, Unused(n) # {}
  PROVE  /\ \A i \in 1..n : NewIds(n)[i] \notin Identifiers
         /\ \A i, j \in 1..n : NewIds(n)[i] = NewIds(n)[j] => i = j
<1>1. Len(Uuids) \in Nat /\ DOMAIN Uuids = 1..Len(Uuids)
  BY EditorAssumption, SequenceParts
<1>2. PICK k \in Unused(n) : k = (CHOOSE l \in Unused(n) : TRUE)
  OBVIOUS
<1>3. k \in 0..(Len(Uuids) - n) /\ \A i \in 1..n : Uuids[k + i] \notin Identifiers
  BY DEF Unused
<1>4. \A i \in 1..n : NewIds(n)[i] = Uuids[k + i]
  BY <1>2 DEF NewIds
<1>5. \A i \in 1..n : k + i \in DOMAIN Uuids
  BY <1>1, <1>3
<1>6. \A i, j \in 1..n : Uuids[k + i] = Uuids[k + j] => k + i = k + j
  BY <1>5, EditorAssumption
<1>7. k \in Int /\ \A i \in 1..n : i \in Int
  BY <1>3
<1>8. \A i, j \in 1..n : NewIds(n)[i] = NewIds(n)[j] => i = j
  BY <1>4, <1>6, <1>7
<1> QED
  BY <1>3, <1>4, <1>8

LEMMA NewIdIsNew ==
  ASSUME Unused(1) # {}
  PROVE  NewId \notin Identifiers
BY NewIdsAreNew DEF NewId

---------------------------------------------------------------------------
(* How the parts of a draft refer to each other, said of each part.                       *)

EndId(d, r, j) == d.routes[r].ends[j].id
AtEnd(d, p, r, j) == r \in DOMAIN d.routes /\ j \in 1..2 /\ p = [route |-> r, endpoint |-> EndId(d, r, j)]
MayJoin(type) == CASE type = "tee" -> {3} [] type = "custom" -> {2, 3} [] type \notin {"tee", "custom"} -> {2}

EndsDiffer(d) ==
  \A r, q \in DOMAIN d.routes, j, k \in 1..2 : EndId(d, r, j) = EndId(d, q, k) => r = q /\ j = k

\* A connection joins ends of different routes, one after the other.
Joins(d, x) ==
  /\ Len(x.participants) \in MayJoin(x.type)
  /\ \A i \in DOMAIN x.participants : \E r \in DOMAIN d.routes, j \in 1..2 : AtEnd(d, x.participants[i], r, j)
  /\ \A i, k \in DOMAIN x.participants : x.participants[i].route = x.participants[k].route => i = k
  /\ Len(x.participants) = 2 =>
       \A r, q \in DOMAIN d.routes, j \in 1..2 : ~(AtEnd(d, x.participants[1], r, j) /\ AtEnd(d, x.participants[2], q, j))
  /\ Distinct(x.corrections, LAMBDA k : k.product)

LEMMA JoinedAt ==
  ASSUME NEW d, IsDraft(d), NEW x, NEW e
  PROVE  e \in Joined(d, x) <=>
           /\ e = <<e[1], e[2]>>
           /\ \E i \in DOMAIN x.participants : AtEnd(d, x.participants[i], e[1], e[2])
BY DEF Joined, EndsOf, AtEnd, EndId

\* The routes that are joined are as many as the participants if each participant is one of
\* them and no two are of one route.
LEMMA JoinsRoutes ==
  ASSUME NEW d, IsDraft(d), EndsDiffer(d), NEW x, IsConnection(x)
  PROVE  Cardinality({ e[1] : e \in Joined(d, x) }) = Len(x.participants) <=>
           /\ \A i \in DOMAIN x.participants : \E r \in DOMAIN d.routes, j \in 1..2 : AtEnd(d, x.participants[i], r, j)
           /\ \A i, k \in DOMAIN x.participants : x.participants[i].route = x.participants[k].route => i = k
<1> DEFINE p == x.participants
           J == Joined(d, x)
           Q == { e[1] : e \in J }
           I == { p[i].route : i \in DOMAIN p }
           f == [i \in DOMAIN p |-> p[i].route]
<1>1. PICK n \in Nat : n = Len(p) /\ DOMAIN p = 1..n
  BY SequenceParts DEF IsConnection
<1>2. IsFiniteSet(1..n) /\ Cardinality(1..n) = n
  BY <1>1, FS_Interval
<1>3. f \in Surjection(1..n, I)
  BY <1>1 DEF Surjection
<1>4. IsFiniteSet(I) /\ Cardinality(I) <= n /\ (Cardinality(I) = n <=> f \in Injection(1..n, I))
  BY <1>2, <1>3, FS_Surjection
<1>5. f \in Injection(1..n, I) <=> \A i, k \in DOMAIN p : p[i].route = p[k].route => i = k
  <2>1. DOMAIN p = 1..n /\ f \in [1..n -> I] /\ \A i \in 1..n : f[i] = p[i].route
    BY <1>1
  <2> HIDE DEF f, I, p
  <2>2. f \in Injection(1..n, I) <=> \A i, k \in 1..n : f[i] = f[k] => i = k
    BY <2>1, Zenon DEF Injection, IsInjective
  <2> QED
    BY <2>1, <2>2
<1>6. ASSUME NEW e \in J
      PROVE  \E i \in DOMAIN p : AtEnd(d, p[i], e[1], e[2]) /\ p[i].route = e[1]
  BY <1>6, JoinedAt DEF AtEnd
<1>7. Q \subseteq I
  BY <1>6
<1>8. IsFiniteSet(Q) /\ Cardinality(Q) <= Cardinality(I) /\ (Cardinality(I) = Cardinality(Q) => I = Q)
  BY <1>4, <1>7, FS_Subset
<1>9. ASSUME Cardinality(Q) = n
      PROVE  /\ \A i \in DOMAIN p : \E r \in DOMAIN d.routes, j \in 1..2 : AtEnd(d, p[i], r, j)
             /\ \A i, k \in DOMAIN p : p[i].route = p[k].route => i = k
  <2>1. Cardinality(I) = n /\ I = Q
    <3> HIDE DEF I, Q
    <3>1. Cardinality(I) \in Nat /\ Cardinality(Q) \in Nat
      BY <1>4, <1>8, FS_CardinalityType
    <3> QED
      BY <1>4, <1>8, <1>9, <3>1
  <2>2. \A i, k \in DOMAIN p : p[i].route = p[k].route => i = k
    BY <2>1, <1>4, <1>5
  <2>3. ASSUME NEW i \in DOMAIN p
        PROVE  \E r \in DOMAIN d.routes, j \in 1..2 : AtEnd(d, p[i], r, j)
    <3>1. PICK e \in J : e[1] = p[i].route
      BY <2>1, <2>3
    <3>2. PICK k \in DOMAIN p : AtEnd(d, p[k], e[1], e[2]) /\ p[k].route = e[1]
      BY <1>6
    <3>3. k = i
      BY <2>2, <3>1, <3>2
    <3> QED
      BY <3>2, <3>3 DEF AtEnd
  <2> QED
    BY <2>2, <2>3
<1>10. ASSUME \A i \in DOMAIN p : \E r \in DOMAIN d.routes, j \in 1..2 : AtEnd(d, p[i], r, j),
              \A i, k \in DOMAIN p : p[i].route = p[k].route => i = k
       PROVE  Cardinality(Q) = n
  <2>1. ASSUME NEW i \in DOMAIN p
        PROVE  p[i].route \in Q
    <3>1. PICK r \in DOMAIN d.routes, j \in 1..2 : AtEnd(d, p[i], r, j)
      BY <1>10
    <3>2. <<r, j>> \in J /\ p[i].route = r
      BY <3>1, JoinedAt DEF AtEnd
    <3> QED
      BY <3>2
  <2>2. I = Q
    BY <1>7, <2>1
  <2>3. Cardinality(I) = n
    BY <1>4, <1>5, <1>10
  <2> QED
    BY <2>2, <2>3
<1> HIDE DEF p, J, Q, I, f
<1> QED
  BY <1>1, <1>9, <1>10 DEF p, Q, J

LEMMA JoinsIsJoins ==
  ASSUME NEW d, IsDraft(d), EndsDiffer(d), NEW x, IsConnection(x)
  PROVE  ConnectionJoins(d, x) <=> Joins(d, x)
<1> DEFINE p == x.participants
           J == Joined(d, x)
           Placed == \A i \in DOMAIN p : \E r \in DOMAIN d.routes, j \in 1..2 : AtEnd(d, p[i], r, j)
           Routed == \A i, k \in DOMAIN p : p[i].route = p[k].route => i = k
           Opposite == \A r, q \in DOMAIN d.routes, j \in 1..2 : ~(AtEnd(d, p[1], r, j) /\ AtEnd(d, p[2], q, j))
<1>1. Cardinality({ e[1] : e \in J }) = Len(p) <=> Placed /\ Routed
  BY JoinsRoutes
<1>2. Len(p) \in Nat /\ DOMAIN p = 1..Len(p)
  BY SequenceParts DEF IsConnection
<1>3. ASSUME Placed, Len(p) = 2, { e[2] : e \in J } = {1, 2}
      PROVE  Opposite
  <2> SUFFICES ASSUME NEW r \in DOMAIN d.routes, NEW q \in DOMAIN d.routes, NEW j \in 1..2,
                      AtEnd(d, p[1], r, j), AtEnd(d, p[2], q, j)
               PROVE  FALSE
    OBVIOUS
  <2>1. ASSUME NEW e \in J
        PROVE  e[2] = j
    <3>1. PICK i \in DOMAIN p : AtEnd(d, p[i], e[1], e[2])
      BY JoinedAt
    <3>2. i = 1 \/ i = 2
      BY <1>2, <1>3
    <3>3. AtEnd(d, p[i], r, j) \/ AtEnd(d, p[i], q, j)
      BY <3>2
    <3> QED
      BY <3>1, <3>3 DEF AtEnd, EndsDiffer
  <2>2. { e[2] : e \in J } \subseteq {j}
    BY <2>1
  <2> QED
    BY <1>3, <2>2
<1>4. ASSUME Placed, Len(p) = 2, Opposite
      PROVE  { e[2] : e \in J } = {1, 2}
  <2>1. 1 \in DOMAIN p /\ 2 \in DOMAIN p
    BY <1>2, <1>4
  <2>2. PICK r \in DOMAIN d.routes, j \in 1..2 : AtEnd(d, p[1], r, j)
    BY <1>4, <2>1
  <2>3. PICK q \in DOMAIN d.routes, k \in 1..2 : AtEnd(d, p[2], q, k)
    BY <1>4, <2>1
  <2>4. j # k
    BY <1>4, <2>2, <2>3
  <2>5. <<r, j>> \in J /\ <<q, k>> \in J
    BY <2>1, <2>2, <2>3, JoinedAt
  <2>6. {j, k} \subseteq { e[2] : e \in J }
    BY <2>5
  <2>7. { e[2] : e \in J } \subseteq 1..2
    BY JoinedAt DEF AtEnd
  <2> QED
    BY <2>4, <2>6, <2>7
<1>5. Len(p) \in (CASE x.type = "tee" -> {3} [] x.type = "custom" -> {2, 3} [] x.type \notin {"tee", "custom"} -> {2})
        <=> Len(p) \in MayJoin(x.type)
  BY DEF MayJoin
<1>6. ConnectionJoins(d, x) <=> /\ Len(p) \in MayJoin(x.type)
                                /\ Placed /\ Routed
                                /\ Len(p) = 2 => { e[2] : e \in J } = {1, 2}
                                /\ Distinct(x.corrections, LAMBDA k : k.product)
  BY <1>1, <1>5 DEF ConnectionJoins
<1>7. Joins(d, x) <=> /\ Len(p) \in MayJoin(x.type)
                      /\ Placed /\ Routed
                      /\ Len(p) = 2 => Opposite
                      /\ Distinct(x.corrections, LAMBDA k : k.product)
  BY DEF Joins
<1> QED
  BY <1>3, <1>4, <1>6, <1>7

---------------------------------------------------------------------------
(* What every change keeps of a draft, part by part.                                      *)

ItemId(d, r, i) == d.routes[r].geometry[i].id
ItemsDiffer(d) ==
  \A r, q \in DOMAIN d.routes : \A i \in DOMAIN d.routes[r].geometry, k \in DOMAIN d.routes[q].geometry :
    ItemId(d, r, i) = ItemId(d, q, k) => r = q /\ i = k

SupportsHold(s, ids, products, templates) ==
  /\ IsSupports(s)
  /\ Distinct(s.manualValues, LAMBDA v : v.component)
  /\ Distinct(s.extras, LAMBDA x : x.id)
  /\ { x.of : x \in s.extras } \ {"route"} \subseteq ids
  /\ s.template \in templates \cup {None} /\ s.anchor \in products \cup {None}

ItemHolds(item, products) == IsItem(item) /\ (~Straight(item) => item.product \in products \cup {None})
EndHolds(end, products) == IsEnd(end) /\ end.product \in products \cup {None}
ItemIds(route) == { route.geometry[i].id : i \in DOMAIN route.geometry }

RouteHolds(route, products, templates) ==
  /\ {"code", "selection", "straight", "option", "geometry", "ends", "supports"} \subseteq DOMAIN route
  /\ DOMAIN route.selection = 1..4
  /\ IsSequence(route.geometry) /\ \A i \in DOMAIN route.geometry : ItemHolds(route.geometry[i], products)
  /\ DOMAIN route.ends = 1..2 /\ \A j \in 1..2 : EndHolds(route.ends[j], products)
  /\ SupportsHold(route.supports, ItemIds(route), products, templates)

ConnectionHolds(d, x, products) == IsConnection(x) /\ Joins(d, x) /\ x.material \in products \cup {None}
ConnectionsHold(d, products) ==
  /\ \A x \in d.connections : ConnectionHolds(d, x, products)
  /\ \A x, y \in d.connections : x # y => x.id # y.id /\ ParticipantEnds(x) \cap ParticipantEnds(y) = {}

ManualItemsHold(d, products) ==
  /\ Distinct(d.manualItems, LAMBDA m : m.id)
  /\ \A m \in d.manualItems : m.product \in products \cup {None}

DraftFields == {"routes", "connections", "accessories", "manualItems", "reserve", "load"}

DraftHolds(d, products, templates) ==
  /\ DraftFields \subseteq DOMAIN d
  /\ IsSequence(d.routes) /\ \A r \in DOMAIN d.routes : RouteHolds(d.routes[r], products, templates)
  /\ EndsDiffer(d) /\ ItemsDiffer(d)
  /\ ConnectionsHold(d, products) /\ ManualItemsHold(d, products)

LEMMA EndsAreDistinct ==
  ASSUME NEW d
  PROVE  Distinct(EndsOf(d), LAMBDA e : d.routes[e[1]].ends[e[2]].id) <=> EndsDiffer(d)
<1>1. ASSUME Distinct(EndsOf(d), LAMBDA e : d.routes[e[1]].ends[e[2]].id)
      PROVE  EndsDiffer(d)
  <2> SUFFICES ASSUME NEW r \in DOMAIN d.routes, NEW q \in DOMAIN d.routes, NEW j \in 1..2, NEW k \in 1..2,
                      EndId(d, r, j) = EndId(d, q, k)
               PROVE  r = q /\ j = k
    BY DEF EndsDiffer
  <2>1. <<r, j>> \in EndsOf(d) /\ <<q, k>> \in EndsOf(d)
    BY DEF EndsOf
  <2>2. <<r, j>> = <<q, k>>
    BY <1>1, <2>1 DEF Distinct, EndId
  <2> QED
    BY <2>2
<1>2. ASSUME EndsDiffer(d)
      PROVE  Distinct(EndsOf(d), LAMBDA e : d.routes[e[1]].ends[e[2]].id)
  BY <1>2 DEF Distinct, EndsOf, EndsDiffer, EndId
<1> QED
  BY <1>1, <1>2

LEMMA ItemsAreDistinct ==
  ASSUME NEW d
  PROVE  Distinct(ItemsOf(d), LAMBDA g : d.routes[g[1]].geometry[g[2]].id) <=> ItemsDiffer(d)
<1>0. \A g : g \in ItemsOf(d) <=> \E r \in DOMAIN d.routes : \E i \in DOMAIN d.routes[r].geometry : g = <<r, i>>
  BY DEF ItemsOf
<1>1. ASSUME Distinct(ItemsOf(d), LAMBDA g : d.routes[g[1]].geometry[g[2]].id)
      PROVE  ItemsDiffer(d)
  <2> SUFFICES ASSUME NEW r \in DOMAIN d.routes, NEW q \in DOMAIN d.routes,
                      NEW i \in DOMAIN d.routes[r].geometry, NEW k \in DOMAIN d.routes[q].geometry,
                      ItemId(d, r, i) = ItemId(d, q, k)
               PROVE  r = q /\ i = k
    BY DEF ItemsDiffer
  <2>1. <<r, i>> \in ItemsOf(d) /\ <<q, k>> \in ItemsOf(d)
    BY <1>0
  <2>2. <<r, i>> = <<q, k>>
    BY <1>1, <2>1 DEF Distinct, ItemId
  <2> QED
    BY <2>2
<1>2. ASSUME ItemsDiffer(d)
      PROVE  Distinct(ItemsOf(d), LAMBDA g : d.routes[g[1]].geometry[g[2]].id)
  BY <1>0, <1>2 DEF Distinct, ItemsDiffer, ItemId
<1> QED
  BY <1>1, <1>2

\* What holds of a draft is its schema's references, its fields and its foreign keys.
LEMMA DraftHoldsMeans ==
  ASSUME NEW d, NEW products, NEW templates
  PROVE  DraftHolds(d, products, templates)
           <=> IsDraft(d) /\ DraftReferencesAccepted(d) /\ OnRecord(d, products, templates)
<1>1. (\A r \in DOMAIN d.routes : RouteHolds(d.routes[r], products, templates))
        <=> /\ \A r \in DOMAIN d.routes : IsRoute(d.routes[r])
            /\ \A r \in DOMAIN d.routes :
                 LET route == d.routes[r]
                 IN /\ Distinct(route.supports.manualValues, LAMBDA v : v.component)
                    /\ Distinct(route.supports.extras, LAMBDA x : x.id)
                    /\ { x.of : x \in route.supports.extras } \ {"route"}
                         \subseteq { route.geometry[i].id : i \in DOMAIN route.geometry }
            /\ \A e \in EndsOf(d) : d.routes[e[1]].ends[e[2]].product \in products \cup {None}
            /\ \A g \in ItemsOf(d) : LET item == d.routes[g[1]].geometry[g[2]]
                                    IN ~Straight(item) => item.product \in products \cup {None}
            /\ \A r \in DOMAIN d.routes : LET s == d.routes[r].supports
                                         IN s.template \in templates \cup {None} /\ s.anchor \in products \cup {None}
  <2>1. (\A e \in EndsOf(d) : d.routes[e[1]].ends[e[2]].product \in products \cup {None})
          <=> \A r \in DOMAIN d.routes, j \in 1..2 : d.routes[r].ends[j].product \in products \cup {None}
    <3>1. \A r \in DOMAIN d.routes, j \in 1..2 : <<r, j>> \in EndsOf(d)
      BY DEF EndsOf
    <3>2. \A e \in EndsOf(d) : e[1] \in DOMAIN d.routes /\ e[2] \in 1..2
      BY DEF EndsOf
    <3> QED
      BY <3>1, <3>2
  <2>2. (\A g \in ItemsOf(d) : LET item == d.routes[g[1]].geometry[g[2]]
                              IN ~Straight(item) => item.product \in products \cup {None})
          <=> \A r \in DOMAIN d.routes : \A i \in DOMAIN d.routes[r].geometry :
                ~Straight(d.routes[r].geometry[i]) => d.routes[r].geometry[i].product \in products \cup {None}
    <3>1. \A r \in DOMAIN d.routes : \A i \in DOMAIN d.routes[r].geometry : <<r, i>> \in ItemsOf(d)
      BY DEF ItemsOf
    <3>2. \A g \in ItemsOf(d) : g[1] \in DOMAIN d.routes /\ g[2] \in DOMAIN d.routes[g[1]].geometry
      BY DEF ItemsOf
    <3> QED
      BY <3>1, <3>2
  <2>3. \A r \in DOMAIN d.routes :
          RouteHolds(d.routes[r], products, templates)
            <=> /\ IsRoute(d.routes[r])
                /\ Distinct(d.routes[r].supports.manualValues, LAMBDA v : v.component)
                /\ Distinct(d.routes[r].supports.extras, LAMBDA x : x.id)
                /\ { x.of : x \in d.routes[r].supports.extras } \ {"route"}
                     \subseteq { d.routes[r].geometry[i].id : i \in DOMAIN d.routes[r].geometry }
                /\ \A j \in 1..2 : d.routes[r].ends[j].product \in products \cup {None}
                /\ \A i \in DOMAIN d.routes[r].geometry :
                     ~Straight(d.routes[r].geometry[i]) => d.routes[r].geometry[i].product \in products \cup {None}
                /\ d.routes[r].supports.template \in templates \cup {None}
                /\ d.routes[r].supports.anchor \in products \cup {None}
    BY Zenon DEF RouteHolds, IsRoute, ItemHolds, EndHolds, SupportsHold, ItemIds
  <2> QED
    BY <2>1, <2>2, <2>3
<1>2. IsDraft(d) => /\ EndsDiffer(d) => \A x \in d.connections : ConnectionJoins(d, x) <=> Joins(d, x)
  BY JoinsIsJoins DEF IsDraft
<1>3. ASSUME DraftHolds(d, products, templates)
      PROVE  IsDraft(d) /\ DraftReferencesAccepted(d) /\ OnRecord(d, products, templates)
  <2>1. IsDraft(d)
    <3>1. \A r \in DOMAIN d.routes : IsRoute(d.routes[r])
      <4>1. \A r \in DOMAIN d.routes : RouteHolds(d.routes[r], products, templates)
        BY <1>3 DEF DraftHolds
      <4> QED
        BY <4>1, Zenon DEF RouteHolds, ItemHolds, EndHolds, SupportsHold, IsRoute
    <3>2. \A x \in d.connections : IsConnection(x)
      BY <1>3, Zenon DEF DraftHolds, ConnectionsHold, ConnectionHolds
    <3> QED
      BY <1>3, <3>1, <3>2, Zenon DEF DraftHolds, IsDraft, DraftFields
  <2>2. DraftReferencesAccepted(d)
    <3>1. /\ Distinct(EndsOf(d), LAMBDA e : d.routes[e[1]].ends[e[2]].id)
          /\ Distinct(ItemsOf(d), LAMBDA g : d.routes[g[1]].geometry[g[2]].id)
          /\ Distinct(d.manualItems, LAMBDA m : m.id)
      <4>1. EndsDiffer(d) /\ ItemsDiffer(d) /\ ManualItemsHold(d, products)
        BY <1>3 DEF DraftHolds
      <4>2. Distinct(d.manualItems, LAMBDA m : m.id)
        BY <4>1 DEF ManualItemsHold
      <4> QED
        BY <4>1, <4>2, EndsAreDistinct, ItemsAreDistinct DEF Distinct
    <3>2. /\ \A x \in d.connections : ConnectionJoins(d, x)
          /\ \A x, y \in d.connections : x # y => x.id # y.id /\ ParticipantEnds(x) \cap ParticipantEnds(y) = {}
      BY <1>2, <1>3, <2>1 DEF DraftHolds, ConnectionsHold, ConnectionHolds
    <3>3. \A r \in DOMAIN d.routes : RouteHolds(d.routes[r], products, templates)
      BY <1>3 DEF DraftHolds
    <3> QED
      BY <1>1, <3>1, <3>2, <3>3, Zenon DEF DraftReferencesAccepted
  <2>3. OnRecord(d, products, templates)
    BY <1>1, <1>3 DEF DraftHolds, OnRecord, ConnectionsHold, ConnectionHolds, ManualItemsHold
  <2> QED
    BY <2>1, <2>2, <2>3
<1>4. ASSUME IsDraft(d), DraftReferencesAccepted(d), OnRecord(d, products, templates)
      PROVE  DraftHolds(d, products, templates)
  <2>1. EndsDiffer(d) /\ ItemsDiffer(d)
    BY <1>4, EndsAreDistinct, ItemsAreDistinct DEF DraftReferencesAccepted
  <2>2. \A r \in DOMAIN d.routes : RouteHolds(d.routes[r], products, templates)
    BY <1>1, <1>4 DEF IsDraft, DraftReferencesAccepted, OnRecord
  <2>3. ConnectionsHold(d, products)
    BY <1>2, <1>4, <2>1 DEF IsDraft, DraftReferencesAccepted, OnRecord, ConnectionsHold, ConnectionHolds
  <2>4. ManualItemsHold(d, products)
    BY <1>4 DEF DraftReferencesAccepted, OnRecord, ManualItemsHold
  <2> QED
    BY <1>4, <2>1, <2>2, <2>3, <2>4 DEF DraftHolds, IsDraft, DraftFields
<1> QED
  BY <1>3, <1>4

---------------------------------------------------------------------------
(* Changes that leave the identifiers alone.                                              *)

SameIds(route, new) ==
  /\ DOMAIN new.geometry = DOMAIN route.geometry
  /\ \A i \in DOMAIN route.geometry : new.geometry[i].id = route.geometry[i].id
  /\ \A j \in 1..2 : new.ends[j].id = route.ends[j].id

LEMMA SameReferences ==
  ASSUME NEW d, NEW products, NEW templates, DraftHolds(d, products, templates),
         NEW new, DraftFields \subseteq DOMAIN new, IsSequence(new.routes), DOMAIN new.routes = DOMAIN d.routes,
         \A r \in DOMAIN d.routes : SameIds(d.routes[r], new.routes[r]) /\ RouteHolds(new.routes[r], products, templates),
         new.connections = d.connections, new.manualItems = d.manualItems
  PROVE  DraftHolds(new, products, templates)
<1>1. EndsDiffer(new) /\ ItemsDiffer(new)
  BY DEF DraftHolds, EndsDiffer, ItemsDiffer, SameIds, EndId, ItemId
<1>2. \A p, r, j : AtEnd(new, p, r, j) <=> AtEnd(d, p, r, j)
  BY DEF AtEnd, EndId, SameIds
<1>3. \A x : Joins(new, x) <=> Joins(d, x)
  BY <1>2 DEF Joins
<1>4. ConnectionsHold(new, products)
  BY <1>3 DEF DraftHolds, ConnectionsHold, ConnectionHolds
<1>5. ManualItemsHold(new, products)
  BY DEF DraftHolds, ManualItemsHold
<1> QED
  BY <1>1, <1>4, <1>5 DEF DraftHolds

LEMMA RouteReplaced ==
  ASSUME NEW d, NEW products, NEW templates, DraftHolds(d, products, templates),
         NEW r \in DOMAIN d.routes, NEW route, SameIds(d.routes[r], route), RouteHolds(route, products, templates)
  PROVE  DraftHolds([d EXCEPT !.routes[r] = route], products, templates)
<1> DEFINE new == [d EXCEPT !.routes[r] = route]
<1>1. /\ DraftFields \subseteq DOMAIN new /\ new.routes = [d.routes EXCEPT ![r] = route]
      /\ new.connections = d.connections /\ new.manualItems = d.manualItems
  BY DEF DraftHolds, DraftFields
<1>2. IsSequence(new.routes) /\ DOMAIN new.routes = DOMAIN d.routes
  <2>1. Len(d.routes) \in Nat /\ DOMAIN d.routes = 1..Len(d.routes) /\ d.routes = [i \in 1..Len(d.routes) |-> d.routes[i]]
    BY SequenceParts DEF DraftHolds
  <2>2. PICK n, q : n \in Nat /\ n = Len(d.routes) /\ q = [d.routes EXCEPT ![r] = route]
    BY <2>1
  <2>3. q = [i \in 1..n |-> q[i]] /\ DOMAIN q = 1..n
    BY <2>1, <2>2
  <2> QED
    BY <1>1, <2>1, <2>2, <2>3, SequenceOf
<1>3. \A q \in DOMAIN d.routes : new.routes[q] = IF q = r THEN route ELSE d.routes[q]
  BY <1>1
<1>4. \A q \in DOMAIN d.routes : SameIds(d.routes[q], new.routes[q]) /\ RouteHolds(new.routes[q], products, templates)
  BY <1>3 DEF DraftHolds, SameIds
<1> HIDE DEF new
<1>5. DraftHolds(new, products, templates)
  BY <1>1, <1>2, <1>4, SameReferences
<1> QED
  BY <1>5 DEF new

---------------------------------------------------------------------------
(* The page of a draft, and what an edit makes of it.                                     *)

Recorded == ProductsOnRecord(catalog)
RecordedTemplates == TemplatesOnRecord(catalog)
Page == DraftHolds(draft, Recorded, RecordedTemplates) /\ shown = EditorCatalog(catalog)
Edited ==
  /\ \E d : DraftHolds(d, Recorded, RecordedTemplates) /\ draft' = Reconciled(d)
  /\ form' \in {form, NoForm} /\ UNCHANGED <<catalog, shown>>

LEMMA ChangeEdits ==
  ASSUME NEW d, DraftHolds(d, Recorded, RecordedTemplates), Change(d)
  PROVE  Edited
BY DEF Change, Edited

LEMMA RouteEdits ==
  ASSUME Page, NEW r \in DOMAIN draft.routes, NEW route, SameIds(RouteAt(r), route),
         RouteHolds(route, Recorded, RecordedTemplates), ChangeRoute(r, route)
  PROVE  Edited
<1>1. DraftHolds([draft EXCEPT !.routes[r] = route], Recorded, RecordedTemplates)
  BY RouteReplaced DEF Page, RouteAt
<1> QED
  BY <1>1, ChangeEdits DEF ChangeRoute

LEMMA RouteOfPage ==
  ASSUME Page, NEW r \in DOMAIN draft.routes
  PROVE  RouteHolds(RouteAt(r), Recorded, RecordedTemplates)
BY DEF Page, DraftHolds, RouteAt

\* What the page offers is on record.
LEMMA OfferedIsRecorded ==
  ASSUME Page
  PROVE  /\ Selectable \subseteq Recorded /\ DOMAIN shown.templates \subseteq RecordedTemplates
         /\ \A t, s : AnchorProducts(t, s) \subseteq Recorded
         /\ \A t, role : ComponentProducts(t, role) \subseteq Recorded
<1>1. DOMAIN shown.products \subseteq DOMAIN catalog.products
  BY DEF Page, EditorCatalog, Known
<1>2. DOMAIN shown.templates \subseteq DOMAIN catalog.templates
  BY DEF Page, EditorCatalog, UsableTemplates
<1> QED
  BY <1>1, <1>2 DEF Selectable, Recorded, RecordedTemplates, ProductsOnRecord, TemplatesOnRecord,
                    AnchorProducts, ComponentProducts

---------------------------------------------------------------------------
(* SupportsSection.                                                                       *)

SupportsFit(r, s) == SupportsHold(s, ItemIds(RouteAt(r)), Recorded, RecordedTemplates)

LEMMA SupportsEdits ==
  ASSUME Page, NEW r \in DOMAIN draft.routes, NEW s, SupportsFit(r, s), ChangeSupports(r, s)
  PROVE  Edited
<1>1. PICK route, new : route = RouteAt(r) /\ new = [route EXCEPT !.supports = s]
  OBVIOUS
<1>2. RouteHolds(route, Recorded, RecordedTemplates)
  BY <1>1, RouteOfPage
<1>3. /\ DOMAIN new = DOMAIN route /\ new.selection = route.selection /\ new.geometry = route.geometry
      /\ new.ends = route.ends /\ new.supports = s
  BY <1>1, <1>2 DEF RouteHolds
<1>4. SameIds(route, new) /\ ItemIds(new) = ItemIds(route)
  BY <1>3 DEF SameIds, ItemIds
<1>5. RouteHolds(new, Recorded, RecordedTemplates)
  BY <1>1, <1>2, <1>3, <1>4 DEF RouteHolds, SupportsFit
<1> QED
  BY <1>1, <1>4, <1>5, RouteEdits DEF ChangeSupports

LEMMA SupportsOfPage ==
  ASSUME Page, NEW r \in DOMAIN draft.routes
  PROVE  SupportsFit(r, SupportsAt(r))
BY RouteOfPage DEF RouteHolds, SupportsFit, SupportsAt

LEMMA LengthsAreFractions ==
  Lengths \cup {Zero} \subseteq Fractions
BY EditorAssumption, ZeroIsLeast, WholeFits DEF Positives, Zero

LEMMA PlainSupportEdits ==
  ASSUME Page, NEW r \in DOMAIN draft.routes,
         \/ \E spacing \in Lengths \cup {Zero} : SetSpacing(r, spacing)
         \/ \E type \in SupportTypes \cup {None} : ChooseType(r, type)
         \/ \E substrate \in Substrates \cup {None} : ChooseSubstrate(r, substrate)
         \/ \E mode \in {"one", "two", "custom", None} : ChooseWstbMode(r, mode)
         \/ \E n \in Counts : \/ SetLevels(r, n) \/ SetWstbQuantity(r, n) \/ SetAnchorOverride(r, n)
         \/ ChooseTemplate(r) \/ ChooseSupport(r) \/ ChooseAnchor(r) \/ ChooseWstb(r) \/ OverrideAnchors(r)
  PROVE  Edited
<1> DEFINE Alike(s, t) ==
      /\ DOMAIN t = DOMAIN s
      /\ t.extras = s.extras /\ t.manualValues = s.manualValues
      /\ t.spacing \in Fractions /\ t.type \in SupportTypes \cup {None} /\ t.substrate \in SubstrateTypes \cup {None}
      /\ t.wstbMode \in {"one", "two", "custom", None} /\ t.wstbQuantity \in Nat /\ t.anchorOverride \in Nat \cup {Blank}
      /\ t.template \in RecordedTemplates \cup {None} /\ t.anchor \in Recorded \cup {None}
<1>1. PICK s : s = SupportsAt(r)
  OBVIOUS
<1>2. SupportsFit(r, s)
  BY <1>1, SupportsOfPage
<1>3. Alike(s, s) /\ {"spacing", "type", "product", "template", "levels", "substrate", "anchor", "anchorOverride", "wstb",
                     "wstbMode", "wstbQuantity", "extras", "manualValues"} \subseteq DOMAIN s
  BY <1>2 DEF SupportsFit, SupportsHold, IsSupports
<1>4. ASSUME NEW t, Alike(s, t) PROVE SupportsFit(r, t)
  BY <1>2, <1>4, Zenon DEF SupportsFit, SupportsHold, IsSupports
<1>5. ASSUME NEW t, Alike(s, t), ChangeSupports(r, t) PROVE Edited
  BY <1>4, <1>5, SupportsEdits
<1>6. \A n \in Counts : n \in Nat
  BY EditorAssumption
<1>7. CASE \E spacing \in Lengths \cup {Zero} : SetSpacing(r, spacing)
  <2>1. PICK spacing \in Lengths \cup {Zero} : ChangeSupports(r, [s EXCEPT !.spacing = spacing])
    BY <1>1, <1>7 DEF SetSpacing
  <2>2. Alike(s, [s EXCEPT !.spacing = spacing])
    BY <1>3, LengthsAreFractions
  <2> QED
    BY <1>5, <2>1, <2>2
<1>8. CASE \E type \in SupportTypes \cup {None} : ChooseType(r, type)
  <2>1. PICK type \in SupportTypes \cup {None} : ChangeSupports(r, [s EXCEPT !.type = type])
    BY <1>1, <1>8 DEF ChooseType
  <2>2. Alike(s, [s EXCEPT !.type = type])
    BY <1>3
  <2> QED
    BY <1>5, <2>1, <2>2
<1>9. CASE \E substrate \in Substrates \cup {None} : ChooseSubstrate(r, substrate)
  <2>1. PICK substrate \in Substrates \cup {None} : ChangeSupports(r, [s EXCEPT !.substrate = substrate])
    BY <1>1, <1>9 DEF ChooseSubstrate
  <2>2. Alike(s, [s EXCEPT !.substrate = substrate])
    BY <1>3, EditorAssumption
  <2> QED
    BY <1>5, <2>1, <2>2
<1>10. CASE \E mode \in {"one", "two", "custom", None} : ChooseWstbMode(r, mode)
  <2>1. PICK mode \in {"one", "two", "custom", None} :
          ChangeSupports(r, [s EXCEPT !.wstbMode = mode, !.wstbQuantity = 0])
    BY <1>1, <1>10 DEF ChooseWstbMode
  <2>2. Alike(s, [s EXCEPT !.wstbMode = mode, !.wstbQuantity = 0])
    BY <1>3
  <2> QED
    BY <1>5, <2>1, <2>2
<1>11. CASE \E n \in Counts : SetLevels(r, n)
  <2>1. PICK n \in Counts : ChangeSupports(r, [s EXCEPT !.levels = n])
    BY <1>1, <1>11 DEF SetLevels
  <2>2. Alike(s, [s EXCEPT !.levels = n])
    BY <1>3
  <2> QED
    BY <1>5, <2>1, <2>2
<1>12. CASE \E n \in Counts : SetWstbQuantity(r, n)
  <2>1. PICK n \in Counts : ChangeSupports(r, [s EXCEPT !.wstbQuantity = n])
    BY <1>1, <1>12 DEF SetWstbQuantity
  <2>2. Alike(s, [s EXCEPT !.wstbQuantity = n])
    BY <1>3, <1>6
  <2> QED
    BY <1>5, <2>1, <2>2
<1>13. CASE \E n \in Counts : SetAnchorOverride(r, n)
  <2>1. PICK n \in Counts : ChangeSupports(r, [s EXCEPT !.anchorOverride = n])
    BY <1>1, <1>13 DEF SetAnchorOverride
  <2>2. Alike(s, [s EXCEPT !.anchorOverride = n])
    BY <1>3, <1>6
  <2> QED
    BY <1>5, <2>1, <2>2
<1>14. CASE ChooseTemplate(r)
  <2>1. PICK t \in (DOMAIN shown.templates) \cup {None} : ChangeSupports(r, [s EXCEPT !.template = t])
    BY <1>1, <1>14 DEF ChooseTemplate
  <2>2. Alike(s, [s EXCEPT !.template = t])
    BY <1>3, OfferedIsRecorded
  <2> QED
    BY <1>5, <2>1, <2>2
<1>15. CASE ChooseSupport(r)
  <2>1. PICK p : ChangeSupports(r, [s EXCEPT !.product = p])
    BY <1>1, <1>15 DEF ChooseSupport
  <2>2. Alike(s, [s EXCEPT !.product = p])
    BY <1>3
  <2> QED
    BY <1>5, <2>1, <2>2
<1>16. CASE ChooseAnchor(r)
  <2>1. PICK p \in AnchorProducts(s.template, s.substrate) \cup {None} : ChangeSupports(r, [s EXCEPT !.anchor = p])
    BY <1>1, <1>16 DEF ChooseAnchor
  <2>2. p \in Recorded \cup {None}
    BY OfferedIsRecorded
  <2>3. Alike(s, [s EXCEPT !.anchor = p])
    BY <1>3, <2>2
  <2> QED
    BY <1>5, <2>1, <2>3
<1>17. CASE ChooseWstb(r)
  <2>1. PICK p : ChangeSupports(r, [s EXCEPT !.wstb = p])
    BY <1>1, <1>17 DEF ChooseWstb
  <2>2. Alike(s, [s EXCEPT !.wstb = p])
    BY <1>3
  <2> QED
    BY <1>5, <2>1, <2>2
<1>18. CASE OverrideAnchors(r)
  <2>1. PICK n \in {0, Blank} : ChangeSupports(r, [s EXCEPT !.anchorOverride = n])
    <3>1. PICK n : n = (IF s.anchorOverride = 0 THEN Blank ELSE 0)
      OBVIOUS
    <3>2. [s EXCEPT !.anchorOverride = IF @ = 0 THEN Blank ELSE 0] = [s EXCEPT !.anchorOverride = n]
      BY <3>1
    <3> QED
      BY <1>1, <1>18, <3>1, <3>2 DEF OverrideAnchors
  <2>2. Alike(s, [s EXCEPT !.anchorOverride = n])
    BY <1>3
  <2> QED
    BY <1>5, <2>1, <2>2
<1> QED
  BY <1>7, <1>8, <1>9, <1>10, <1>11, <1>12, <1>13, <1>14, <1>15, <1>16, <1>17, <1>18
\* A support configuration with other manual values or other additional supports.
LEMMA SupportsWith ==
  ASSUME NEW s, NEW ids, NEW products, NEW templates, SupportsHold(s, ids, products, templates),
         NEW values, Distinct(values, LAMBDA v : v.component),
         NEW extras, Collection(extras, LAMBDA x : {"id", "of", "quantity"} \subseteq DOMAIN x),
         Distinct(extras, LAMBDA x : x.id), { x.of : x \in extras } \ {"route"} \subseteq ids
  PROVE  /\ SupportsHold([s EXCEPT !.manualValues = values, !.extras = extras], ids, products, templates)
         /\ [s EXCEPT !.manualValues = values, !.extras = extras].manualValues = values
         /\ [s EXCEPT !.manualValues = values, !.extras = extras].extras = extras
<1>1. PICK t : t = [s EXCEPT !.manualValues = values, !.extras = extras]
  OBVIOUS
<1>2. /\ DOMAIN t = DOMAIN s /\ t.manualValues = values /\ t.extras = extras
      /\ t.spacing = s.spacing /\ t.type = s.type /\ t.substrate = s.substrate /\ t.wstbMode = s.wstbMode
      /\ t.wstbQuantity = s.wstbQuantity /\ t.anchorOverride = s.anchorOverride
      /\ t.template = s.template /\ t.anchor = s.anchor
  BY <1>1 DEF SupportsHold, IsSupports
<1>3. IsSupports(t)
  BY <1>2 DEF SupportsHold, IsSupports
<1>4. Distinct(t.manualValues, LAMBDA v : v.component) /\ Distinct(t.extras, LAMBDA x : x.id)
  BY <1>2 DEF Distinct
<1>5. SupportsHold(t, ids, products, templates)
  BY <1>2, <1>3, <1>4 DEF SupportsHold
<1> QED
  BY <1>1, <1>2, <1>5

LEMMA ListSupportEdits ==
  ASSUME Page, NEW r \in DOMAIN draft.routes,
         \/ \E n \in Counts : SetManualValue(r, n)
         \/ \E n \in Counts \cup {Blank} : AddExtra(r, n)
         \/ \E x \in SupportsAt(r).extras : RemoveExtra(r, x)
  PROVE  Edited
<1> DEFINE Accepted(extras) == /\ Collection(extras, LAMBDA x : {"id", "of", "quantity"} \subseteq DOMAIN x)
                               /\ Distinct(extras, LAMBDA x : x.id)
                               /\ { x.of : x \in extras } \ {"route"} \subseteq ItemIds(RouteAt(r))
           Single(values) == Distinct(values, LAMBDA v : v.component)
<1>1. PICK s : s = SupportsAt(r)
  OBVIOUS
<1>2. SupportsFit(r, s)
  BY <1>1, SupportsOfPage
<1>3. Accepted(s.extras) /\ Single(s.manualValues) /\ {"extras", "manualValues"} \subseteq DOMAIN s
  BY <1>2 DEF SupportsFit, SupportsHold, IsSupports
<1>4. ASSUME NEW values, NEW extras, Single(values), Accepted(extras)
      PROVE  SupportsFit(r, [s EXCEPT !.manualValues = values, !.extras = extras])
  BY <1>2, <1>4, SupportsWith DEF SupportsFit
<1>5. ASSUME NEW values, Single(values), ChangeSupports(r, [s EXCEPT !.manualValues = values])
      PROVE  Edited
  <2>1. [s EXCEPT !.manualValues = values, !.extras = s.extras] = [s EXCEPT !.manualValues = values]
    BY <1>3
  <2> QED
    BY <1>3, <1>4, <1>5, <2>1, SupportsEdits
<1>6. ASSUME NEW extras, Accepted(extras), ChangeSupports(r, [s EXCEPT !.extras = extras])
      PROVE  Edited
  <2>1. [s EXCEPT !.manualValues = s.manualValues, !.extras = extras] = [s EXCEPT !.extras = extras]
    BY <1>3
  <2> QED
    BY <1>3, <1>4, <1>6, <2>1, SupportsEdits
<1>7. CASE \E n \in Counts : SetManualValue(r, n)
  <2>1. PICK n, x, values :
          /\ n \in Counts /\ x \in ManualComponents(s.template)
          /\ values = { v \in s.manualValues : v.component # x.id }
                        \cup {[component |-> x.id, quantity |-> Whole(n), unit |-> x.unit]}
          /\ ChangeSupports(r, [s EXCEPT !.manualValues = values])
    BY <1>1, <1>7 DEF SetManualValue
  <2>2. Single(values)
    BY <1>3, <2>1 DEF Distinct
  <2> QED
    BY <1>5, <2>1, <2>2
<1>8. CASE \E n \in Counts \cup {Blank} : AddExtra(r, n)
  <2>1. PICK n, new, extras :
          /\ n \in Counts \cup {Blank}
          /\ Unused(1) # {} /\ new = [id |-> NewId, of |-> "route", quantity |-> n]
          /\ extras = s.extras \cup {new}
          /\ ChangeSupports(r, [s EXCEPT !.extras = extras])
    BY <1>1, <1>8 DEF AddExtra
  <2>2. ASSUME NEW x \in s.extras PROVE x.id # NewId
    <3>1. x.id \in Identifiers
      BY <1>1, <2>2 DEF Identifiers, SupportsAt
    <3> QED
      BY <2>1, <3>1, NewIdIsNew
  <2>3. Distinct(extras, LAMBDA x : x.id)
    BY <1>3, <2>1, <2>2 DEF Distinct
  <2>4. Collection(extras, LAMBDA x : {"id", "of", "quantity"} \subseteq DOMAIN x)
    BY <1>3, <2>1, FS_AddElement DEF Collection
  <2>5. { x.of : x \in extras } \ {"route"} \subseteq ItemIds(RouteAt(r))
    BY <1>3, <2>1
  <2> QED
    BY <1>6, <2>1, <2>3, <2>4, <2>5
<1>9. CASE \E x \in s.extras : RemoveExtra(r, x)
  <2>1. PICK x, extras : x \in s.extras /\ extras = s.extras \ {x} /\ ChangeSupports(r, [s EXCEPT !.extras = extras])
    BY <1>1, <1>9 DEF RemoveExtra
  <2>2. Collection(extras, LAMBDA y : {"id", "of", "quantity"} \subseteq DOMAIN y)
    BY <1>3, <2>1, FS_Subset DEF Collection
  <2>3. Distinct(extras, LAMBDA y : y.id) /\ { y.of : y \in extras } \ {"route"} \subseteq ItemIds(RouteAt(r))
    BY <1>3, <2>1 DEF Distinct
  <2> QED
    BY <1>6, <2>1, <2>2, <2>3
<1> QED
  BY <1>1, <1>7, <1>8, <1>9
---------------------------------------------------------------------------
(* The route and its geometry.                                                            *)

LEMMA RouteFieldEdits ==
  ASSUME Page, NEW r \in DOMAIN draft.routes,
         \/ ChooseStraight(r) \/ ChooseSupply(r)
         \/ \E code \in RouteCodes \cup {None} : SetCode(r, code)
         \/ \E k \in 1..4 : ChoosePart(r, k)
  PROVE  Edited
<1> DEFINE Alike(route, new) ==
      /\ DOMAIN new = DOMAIN route /\ DOMAIN new.selection = 1..4
      /\ new.geometry = route.geometry /\ new.ends = route.ends /\ new.supports = route.supports
<1>1. PICK route : route = RouteAt(r)
  OBVIOUS
<1>2. RouteHolds(route, Recorded, RecordedTemplates)
  BY <1>1, RouteOfPage
<1>3. Alike(route, route) /\ {"code", "selection", "straight", "option"} \subseteq DOMAIN route
  BY <1>2 DEF RouteHolds
<1>4. ASSUME NEW new, Alike(route, new), ChangeRoute(r, new) PROVE Edited
  <2>1. RouteHolds(new, Recorded, RecordedTemplates)
    BY <1>2, <1>4, Zenon DEF RouteHolds, ItemIds
  <2>2. SameIds(RouteAt(r), new)
    BY <1>1, <1>4 DEF SameIds
  <2> QED
    BY <1>4, <2>1, <2>2, RouteEdits
<1>5. CASE ChooseStraight(r)
  <2>1. PICK p, o : ChangeRoute(r, [route EXCEPT !.straight = p, !.option = o])
    <3>1. PICK p : ChangeRoute(r, [route EXCEPT !.straight = p, !.option = Keep(@, OptionsShown(p))])
      BY <1>1, <1>5 DEF ChooseStraight
    <3>2. PICK o : o = Keep(route.option, OptionsShown(p))
      OBVIOUS
    <3>3. [route EXCEPT !.straight = p, !.option = Keep(@, OptionsShown(p))] = [route EXCEPT !.straight = p, !.option = o]
      BY <3>2
    <3> QED
      BY <3>1, <3>3
  <2>2. Alike(route, [route EXCEPT !.straight = p, !.option = o])
    BY <1>3
  <2> QED
    BY <1>4, <2>1, <2>2
<1>6. CASE ChooseSupply(r)
  <2>1. PICK o : ChangeRoute(r, [route EXCEPT !.option = o])
    BY <1>1, <1>6 DEF ChooseSupply
  <2>2. Alike(route, [route EXCEPT !.option = o])
    BY <1>3
  <2> QED
    BY <1>4, <2>1, <2>2
<1>7. CASE \E code \in RouteCodes \cup {None} : SetCode(r, code)
  <2>1. PICK code : ChangeRoute(r, [route EXCEPT !.code = code])
    BY <1>1, <1>7 DEF SetCode
  <2>2. Alike(route, [route EXCEPT !.code = code])
    BY <1>3
  <2> QED
    BY <1>4, <2>1, <2>2
<1>8. CASE \E k \in 1..4 : ChoosePart(r, k)
  <2>1. PICK k, x : k \in 1..4 /\ ChangeRoute(r, [route EXCEPT !.selection[k] = x])
    BY <1>1, <1>8 DEF ChoosePart
  <2>2. Alike(route, [route EXCEPT !.selection[k] = x])
    BY <1>3
  <2> QED
    BY <1>4, <2>1, <2>2
<1> QED
  BY <1>5, <1>6, <1>7, <1>8

\* An item that is changed stays the item that it is.
LEMMA ItemEdits ==
  ASSUME Page, NEW r \in DOMAIN draft.routes, NEW i \in DOMAIN RouteAt(r).geometry,
         NEW item, ItemHolds(item, Recorded), item.id = GeometryItem(r, i).id, ChangeItem(r, i, item)
  PROVE  Edited
<1>1. PICK route, new : route = RouteAt(r) /\ new = [route EXCEPT !.geometry[i] = item]
  OBVIOUS
<1>2. RouteHolds(route, Recorded, RecordedTemplates)
  BY <1>1, RouteOfPage
<1>3. /\ DOMAIN new = DOMAIN route /\ new.selection = route.selection
      /\ new.ends = route.ends /\ new.supports = route.supports
      /\ new.geometry = [route.geometry EXCEPT ![i] = item]
  BY <1>1, <1>2 DEF RouteHolds
<1>4. /\ IsSequence(new.geometry) /\ DOMAIN new.geometry = DOMAIN route.geometry
      /\ \A k \in DOMAIN route.geometry : new.geometry[k] = IF k = i THEN item ELSE route.geometry[k]
  <2>1. /\ Len(route.geometry) \in Nat /\ DOMAIN route.geometry = 1..Len(route.geometry)
        /\ route.geometry = [k \in 1..Len(route.geometry) |-> route.geometry[k]]
    BY <1>2, SequenceParts DEF RouteHolds
  <2>2. PICK n, q : n \in Nat /\ n = Len(route.geometry) /\ q = [route.geometry EXCEPT ![i] = item]
    BY <2>1
  <2>3. /\ q = [k \in 1..n |-> q[k]] /\ DOMAIN q = 1..n
        /\ \A k \in 1..n : q[k] = IF k = i THEN item ELSE route.geometry[k]
    BY <2>1, <2>2
  <2> QED
    BY <1>3, <2>1, <2>2, <2>3, SequenceOf
<1>5. SameIds(route, new) /\ ItemIds(new) = ItemIds(route)
  BY <1>1, <1>3, <1>4 DEF SameIds, ItemIds, GeometryItem
<1>6. \A k \in DOMAIN new.geometry : ItemHolds(new.geometry[k], Recorded)
  BY <1>2, <1>4 DEF RouteHolds
<1>7. RouteHolds(new, Recorded, RecordedTemplates)
  BY <1>2, <1>3, <1>4, <1>5, <1>6, Zenon DEF RouteHolds
<1> QED
  BY <1>1, <1>5, <1>7, RouteEdits DEF ChangeItem

LEMMA PlainItemEdits ==
  ASSUME Page, NEW r \in DOMAIN draft.routes, NEW i \in DOMAIN RouteAt(r).geometry,
         \/ \E length \in Lengths : SetLength(r, i, length)
         \/ \E type \in FittingTypes : SetFittingType(r, i, type)
         \/ ChooseItemSupply(r, i) \/ ClearFitting(r, i) \/ DescribeFitting(r, i)
  PROVE  Edited
<1>1. PICK item : item = GeometryItem(r, i)
  OBVIOUS
<1>2. ItemHolds(item, Recorded)
  BY <1>1, RouteOfPage DEF RouteHolds, GeometryItem
<1>3. ASSUME NEW new, DOMAIN new = DOMAIN item, new.kind = item.kind, new.id = item.id,
             ~Straight(item) => new.product \in Recorded \cup {None}, ChangeItem(r, i, new)
      PROVE  Edited
  <2>1. ItemHolds(new, Recorded)
    BY <1>2, <1>3 DEF ItemHolds, IsItem, Straight
  <2> QED
    BY <1>1, <1>3, <2>1, ItemEdits
<1>4. ~Straight(item) => item.product \in Recorded \cup {None}
  BY <1>2 DEF ItemHolds
<1>5. CASE \E length \in Lengths : SetLength(r, i, length)
  <2>1. PICK length, new : new = [item EXCEPT !.length = length] /\ ChangeItem(r, i, new) /\ Straight(item)
    BY <1>1, <1>5 DEF SetLength
  <2>2. DOMAIN new = DOMAIN item /\ new.kind = item.kind /\ new.id = item.id
    BY <2>1
  <2> QED
    BY <1>3, <2>1, <2>2
<1>6. CASE \E type \in FittingTypes : SetFittingType(r, i, type)
  <2>1. PICK type, described, new :
          new = [item EXCEPT !.type = type, !.described = described] /\ ChangeItem(r, i, new)
    <3>1. PICK type : ChangeItem(r, i, [item EXCEPT !.type = type, !.described = @ /\ type = "custom"])
      BY <1>1, <1>6 DEF SetFittingType
    <3>2. PICK described : described = (item.described /\ type = "custom")
      OBVIOUS
    <3>3. [item EXCEPT !.type = type, !.described = @ /\ type = "custom"] = [item EXCEPT !.type = type, !.described = described]
      BY <3>2
    <3> QED
      BY <3>1, <3>3
  <2>2. DOMAIN new = DOMAIN item /\ new.kind = item.kind /\ new.id = item.id /\ new.product = item.product
    BY <2>1
  <2> QED
    BY <1>3, <1>4, <2>1, <2>2
<1>7. CASE ChooseItemSupply(r, i)
  <2>1. PICK o, new : new = [item EXCEPT !.option = o] /\ ChangeItem(r, i, new) /\ Straight(item)
    BY <1>1, <1>7 DEF ChooseItemSupply
  <2>2. DOMAIN new = DOMAIN item /\ new.kind = item.kind /\ new.id = item.id
    BY <2>1
  <2> QED
    BY <1>3, <2>1, <2>2
<1>8. CASE ClearFitting(r, i)
  <2>1. PICK new : new = [item EXCEPT !.product = None] /\ ChangeItem(r, i, new) /\ ~Straight(item)
    BY <1>1, <1>8 DEF ClearFitting
  <2>2. "product" \in DOMAIN item
    BY <1>2, <2>1 DEF ItemHolds, IsItem, Straight
  <2>3. DOMAIN new = DOMAIN item /\ new.kind = item.kind /\ new.id = item.id /\ new.product = None
    BY <2>1, <2>2
  <2> QED
    BY <1>3, <2>1, <2>3
<1>9. CASE DescribeFitting(r, i)
  <2>1. PICK described, new : new = [item EXCEPT !.described = described] /\ ChangeItem(r, i, new)
    <3>1. PICK described : described = ~item.described
      OBVIOUS
    <3>2. [item EXCEPT !.described = ~@] = [item EXCEPT !.described = described]
      BY <3>1
    <3> QED
      BY <1>1, <1>9, <3>2 DEF DescribeFitting
  <2>2. DOMAIN new = DOMAIN item /\ new.kind = item.kind /\ new.id = item.id /\ new.product = item.product
    BY <2>1
  <2> QED
    BY <1>3, <1>4, <2>1, <2>2
<1> QED
  BY <1>5, <1>6, <1>7, <1>8, <1>9
\* The items of a route in another order, fewer of them, or some that are new.
LEMMA RouteRearranged ==
  ASSUME NEW d, NEW products, NEW templates, DraftHolds(d, products, templates),
         NEW r \in DOMAIN d.routes, NEW route, RouteHolds(route, products, templates),
         \A j \in 1..2 : route.ends[j].id = d.routes[r].ends[j].id,
         \A i, k \in DOMAIN route.geometry : route.geometry[i].id = route.geometry[k].id => i = k,
         \A i \in DOMAIN route.geometry :
           \/ \E k \in DOMAIN d.routes[r].geometry : route.geometry[i].id = d.routes[r].geometry[k].id
           \/ \A q \in DOMAIN d.routes : \A k \in DOMAIN d.routes[q].geometry : route.geometry[i].id # ItemId(d, q, k)
  PROVE  DraftHolds([d EXCEPT !.routes[r] = route], products, templates)
<1>1. PICK new : new = [d EXCEPT !.routes[r] = route]
  OBVIOUS
<1>2. /\ DraftFields \subseteq DOMAIN new /\ new.routes = [d.routes EXCEPT ![r] = route]
      /\ new.connections = d.connections /\ new.manualItems = d.manualItems
  BY <1>1 DEF DraftHolds, DraftFields
<1>3. IsSequence(new.routes) /\ DOMAIN new.routes = DOMAIN d.routes
  <2>1. Len(d.routes) \in Nat /\ DOMAIN d.routes = 1..Len(d.routes) /\ d.routes = [i \in 1..Len(d.routes) |-> d.routes[i]]
    BY SequenceParts DEF DraftHolds
  <2>2. PICK n, q : n \in Nat /\ n = Len(d.routes) /\ q = [d.routes EXCEPT ![r] = route]
    BY <2>1
  <2>3. q = [i \in 1..n |-> q[i]] /\ DOMAIN q = 1..n
    BY <2>1, <2>2
  <2> QED
    BY <1>2, <2>1, <2>2, <2>3, SequenceOf
<1>4. \A q \in DOMAIN d.routes : new.routes[q] = IF q = r THEN route ELSE d.routes[q]
  BY <1>2
<1>5. \A q \in DOMAIN new.routes : RouteHolds(new.routes[q], products, templates)
  BY <1>3, <1>4 DEF DraftHolds
<1>6. \A q \in DOMAIN d.routes, j \in 1..2 : EndId(new, q, j) = EndId(d, q, j)
  BY <1>4 DEF EndId
<1>7. EndsDiffer(new)
  BY <1>3, <1>6 DEF DraftHolds, EndsDiffer
<1>8. ItemsDiffer(new)
  <2>1. ASSUME NEW q \in DOMAIN d.routes, q # r, NEW i \in DOMAIN route.geometry, NEW k \in DOMAIN d.routes[q].geometry
        PROVE  route.geometry[i].id # d.routes[q].geometry[k].id
    BY <2>1 DEF DraftHolds, ItemsDiffer, ItemId
  <2>2. ASSUME NEW p \in DOMAIN d.routes, NEW q \in DOMAIN d.routes,
               NEW i \in DOMAIN new.routes[p].geometry, NEW k \in DOMAIN new.routes[q].geometry,
               new.routes[p].geometry[i].id = new.routes[q].geometry[k].id
        PROVE  p = q /\ i = k
    <3>1. CASE p = r /\ q = r
      BY <1>4, <2>2, <3>1
    <3>2. CASE p = r /\ q # r
      BY <1>4, <2>1, <2>2, <3>2
    <3>3. CASE p # r /\ q = r
      BY <1>4, <2>1, <2>2, <3>3
    <3>4. CASE p # r /\ q # r
      BY <1>4, <2>2, <3>4 DEF DraftHolds, ItemsDiffer, ItemId
    <3> QED
      BY <3>1, <3>2, <3>3, <3>4
  <2> QED
    BY <1>3, <2>2 DEF ItemsDiffer, ItemId
<1>9. \A p, q, j : AtEnd(new, p, q, j) <=> AtEnd(d, p, q, j)
  BY <1>3, <1>6 DEF AtEnd
<1>10. \A x : Joins(new, x) <=> Joins(d, x)
  BY <1>3, <1>9 DEF Joins
<1>11. ConnectionsHold(new, products)
  BY <1>2, <1>10 DEF DraftHolds, ConnectionsHold, ConnectionHolds
<1>12. ManualItemsHold(new, products)
  BY <1>2 DEF DraftHolds, ManualItemsHold
<1>13. DraftHolds(new, products, templates)
  BY <1>2, <1>3, <1>5, <1>7, <1>8, <1>11, <1>12, Zenon DEF DraftHolds
<1> QED
  BY <1>1, <1>13

LEMMA ItemsAreIdentified ==
  ASSUME NEW r \in DOMAIN draft.routes, NEW i \in DOMAIN draft.routes[r].geometry
  PROVE  ItemId(draft, r, i) \in Identifiers
<1>1. PICK g \in ItemsOf(draft) : g[1] = r /\ g[2] = i
  <2>1. <<r, i>> \in ItemsOf(draft)
    BY DEF ItemsOf
  <2> QED
    BY <2>1
<1>2. ItemId(draft, r, i) = RouteAt(g[1]).geometry[g[2]].id
  BY <1>1 DEF ItemId, RouteAt
<1>3. ItemId(draft, r, i) \in { RouteAt(e[1]).geometry[e[2]].id : e \in ItemsOf(draft) }
  BY <1>2
<1> QED
  BY <1>3, Zenon DEF Identifiers

\* What a page makes of the items of a route, with what refers to them.
LEMMA GeometryEdits ==
  ASSUME Page, NEW r \in DOMAIN draft.routes, NEW new, RouteHolds(new, Recorded, RecordedTemplates),
         new.ends = RouteAt(r).ends,
         \A i, k \in DOMAIN new.geometry : new.geometry[i].id = new.geometry[k].id => i = k,
         \A i \in DOMAIN new.geometry :
           \/ \E k \in DOMAIN RouteAt(r).geometry : new.geometry[i].id = RouteAt(r).geometry[k].id
           \/ new.geometry[i].id \notin Identifiers,
         ChangeRoute(r, new)
  PROVE  Edited
<1>1. \A q \in DOMAIN draft.routes : \A k \in DOMAIN draft.routes[q].geometry : ItemId(draft, q, k) \in Identifiers
  BY ItemsAreIdentified
<1>2. \A i \in DOMAIN new.geometry :
        \/ \E k \in DOMAIN draft.routes[r].geometry : new.geometry[i].id = draft.routes[r].geometry[k].id
        \/ \A q \in DOMAIN draft.routes : \A k \in DOMAIN draft.routes[q].geometry : new.geometry[i].id # ItemId(draft, q, k)
  BY <1>1 DEF RouteAt
<1>3. \A j \in 1..2 : new.ends[j].id = draft.routes[r].ends[j].id
  BY DEF RouteAt
<1>4. DraftHolds([draft EXCEPT !.routes[r] = new], Recorded, RecordedTemplates)
  BY <1>2, <1>3, RouteRearranged DEF Page
<1> QED
  BY <1>4, ChangeEdits DEF ChangeRoute

LEMMA ItemListEdits ==
  ASSUME Page, NEW r \in DOMAIN draft.routes,
         \/ \E kind \in {"straight", "fitting"} : AddItem(r, kind)
         \/ \E i \in DOMAIN RouteAt(r).geometry : MoveDown(r, i) \/ RemoveItem(r, i)
  PROVE  Edited
<1>1. PICK route, g, s : route = RouteAt(r) /\ g = route.geometry /\ s = route.supports
  OBVIOUS
<1>2. RouteHolds(route, Recorded, RecordedTemplates)
  BY <1>1, RouteOfPage
<1>3. PICK n \in Nat : n = Len(g) /\ DOMAIN g = 1..n
  BY <1>1, <1>2, SequenceParts DEF RouteHolds
<1>4. \A i \in DOMAIN g : ItemHolds(g[i], Recorded)
  BY <1>1, <1>2 DEF RouteHolds
<1>5. \A i, k \in DOMAIN g : g[i].id = g[k].id => i = k
  BY <1>1 DEF Page, DraftHolds, ItemsDiffer, ItemId, RouteAt
<1>6. SupportsHold(s, ItemIds(route), Recorded, RecordedTemplates)
  BY <1>1, <1>2 DEF RouteHolds
<1>7. \A i \in DOMAIN g : GeometryItem(r, i) = g[i]
  BY <1>1 DEF GeometryItem
<1> DEFINE Fits(items) ==
      /\ IsSequence(items) /\ \A i \in DOMAIN items : ItemHolds(items[i], Recorded)
      /\ \A i, k \in DOMAIN items : items[i].id = items[k].id => i = k
      /\ \A i \in DOMAIN items : (\E k \in DOMAIN g : items[i].id = g[k].id) \/ items[i].id \notin Identifiers
<1>8. ASSUME NEW new, NEW items, Fits(items),
             DOMAIN new = DOMAIN route, new.selection = route.selection, new.ends = route.ends, new.geometry = items,
             SupportsHold(new.supports, { items[i].id : i \in DOMAIN items }, Recorded, RecordedTemplates),
             ChangeRoute(r, new)
      PROVE  Edited
  <2>1. RouteHolds(new, Recorded, RecordedTemplates)
    BY <1>2, <1>8 DEF RouteHolds, ItemIds
  <2> QED
    BY <1>1, <1>8, <2>1, GeometryEdits
<1> HIDE DEF Fits
<1>13. ASSUME NEW items, Fits(items), ChangeRoute(r, [route EXCEPT !.geometry = items]),
              \A i \in DOMAIN g : \E k \in DOMAIN items : items[k].id = g[i].id
       PROVE  Edited
  <2>1. PICK new : new = [route EXCEPT !.geometry = items]
    OBVIOUS
  <2>2. /\ DOMAIN new = DOMAIN route /\ new.selection = route.selection /\ new.ends = route.ends
        /\ new.geometry = items /\ new.supports = s
    BY <1>1, <1>2, <2>1 DEF RouteHolds
  <2>3. ItemIds(route) \subseteq { items[i].id : i \in DOMAIN items }
    BY <1>1, <1>13 DEF ItemIds
  <2>4. SupportsHold(s, { items[i].id : i \in DOMAIN items }, Recorded, RecordedTemplates)
    BY <1>6, <2>3 DEF SupportsHold
  <2> QED
    BY <1>8, <1>13, <2>1, <2>2, <2>4
<1>9. CASE \E kind \in {"straight", "fitting"} : AddItem(r, kind)
  <2>0. PICK kind \in {"straight", "fitting"} : AddItem(r, kind)
    BY <1>9
  <2>1. PICK item, new :
          /\ item = IF kind = "straight"
                    THEN [kind |-> kind, id |-> NewId, length |-> Zero, option |-> None]
                    ELSE [ kind |-> kind, id |-> NewId, type |-> "horizontalBend", described |-> FALSE,
                           product |-> None, length |-> Zero ]
          /\ new = Append(g, item) /\ Unused(1) # {}
          /\ ChangeRoute(r, [route EXCEPT !.geometry = new])
    BY <1>1, <2>0 DEF AddItem
  <2>2. item.id = NewId /\ ItemHolds(item, Recorded)
    BY <2>1 DEF ItemHolds, IsItem, Straight
  <2>3. item.id \notin Identifiers
    BY <2>1, <2>2, NewIdIsNew
  <2>4. /\ IsSequence(new) /\ DOMAIN new = 1..(n + 1)
        /\ \A i \in DOMAIN g : new[i] = g[i]
        /\ new[n + 1] = item
    BY <1>1, <1>2, <1>3, <2>1, AppendParts DEF RouteHolds
  <2>5. \A i \in DOMAIN new : i \in DOMAIN g \/ i = n + 1
    BY <1>3, <2>4
  <2>6. ASSUME NEW i \in DOMAIN g PROVE g[i].id # item.id
    <3>1. ItemId(draft, r, i) \in Identifiers
      BY <1>1, <2>6, ItemsAreIdentified DEF RouteAt
    <3>2. g[i].id \in Identifiers
      BY <1>1, <3>1 DEF ItemId, RouteAt
    <3> QED
      BY <2>3, <3>2
  <2>7. \A i \in DOMAIN new : ItemHolds(new[i], Recorded)
    BY <1>4, <2>2, <2>4, <2>5
  <2>8. \A i, k \in DOMAIN new : new[i].id = new[k].id => i = k
    BY <1>5, <2>4, <2>5, <2>6
  <2>9. \A i \in DOMAIN new : (\E k \in DOMAIN g : new[i].id = g[k].id) \/ new[i].id \notin Identifiers
    BY <2>3, <2>4, <2>5
  <2>10. \A i \in DOMAIN g : \E k \in DOMAIN new : new[k].id = g[i].id
    BY <1>3, <2>4
  <2>11. Fits(new)
    BY <2>4, <2>7, <2>8, <2>9 DEF Fits
  <2> QED
    BY <1>13, <2>1, <2>10, <2>11
<1>10. ASSUME NEW i \in DOMAIN g, MoveDown(r, i) PROVE Edited
  <2>1. PICK new : /\ i < n /\ new = [g EXCEPT ![i] = g[i + 1], ![i + 1] = g[i]]
                   /\ ChangeRoute(r, [route EXCEPT !.geometry = new])
    <3>1. i < n /\ i + 1 \in DOMAIN g
      <4>1. i < Len(RouteAt(r).geometry)
        BY <1>10 DEF MoveDown
      <4> QED
        BY <1>1, <1>3, <1>10, <4>1
    <3>2. [route EXCEPT !.geometry[i] = g[i + 1], !.geometry[i + 1] = g[i]]
            = [route EXCEPT !.geometry = [g EXCEPT ![i] = g[i + 1], ![i + 1] = g[i]]]
      BY <1>1, <1>2 DEF RouteHolds
    <3> QED
      BY <1>1, <1>7, <1>10, <3>1, <3>2 DEF MoveDown
  <2>2. i \in 1..n /\ i + 1 \in 1..n /\ i # i + 1
    BY <1>3, <2>1
  <2>3. DOMAIN new = 1..n /\ new[i] = g[i + 1] /\ new[i + 1] = g[i] /\ \A k \in 1..n : k \notin {i, i + 1} => new[k] = g[k]
    BY <1>3, <2>1, <2>2
  <2>4. new = [k \in 1..n |-> new[k]]
    BY <1>3, <2>1
  <2>5. IsSequence(new)
    BY <2>4, SequenceOf
  <2>6. \A k \in DOMAIN new : ItemHolds(new[k], Recorded)
    BY <1>3, <1>4, <2>2, <2>3
  <2>7. \A k \in DOMAIN g : \E l \in DOMAIN new : new[l].id = g[k].id
    BY <1>3, <2>2, <2>3
  <2>8. \A k, l \in DOMAIN new : new[k].id = new[l].id => k = l
    BY <1>3, <1>5, <2>2, <2>3
  <2>9. \A k \in DOMAIN new : \E l \in DOMAIN g : new[k].id = g[l].id
    BY <1>3, <2>2, <2>3
  <2>10. Fits(new)
    BY <2>5, <2>6, <2>8, <2>9 DEF Fits
  <2> QED
    BY <1>13, <2>1, <2>7, <2>10
<1>11. ASSUME NEW i \in DOMAIN g, RemoveItem(r, i) PROVE Edited
  <2>1. PICK items, left, new : /\ items = [j \in 1..(n - 1) |-> g[IF j < i THEN j ELSE j + 1]]
                                /\ left = { x \in s.extras : x.of # g[i].id }
                                /\ new = [route EXCEPT !.geometry = items, !.supports.extras = left]
                                /\ ChangeRoute(r, new)
    <3>1. PICK items, left, new : /\ items = [j \in 1..(n - 1) |-> g[IF j < i THEN j ELSE j + 1]]
                                  /\ left = { x \in s.extras : x.of # g[i].id }
                                  /\ new = [route EXCEPT !.geometry = items, !.supports.extras = left]
      OBVIOUS
    <3>2. [route EXCEPT !.geometry = [j \in 1..(Len(@) - 1) |-> @[IF j < i THEN j ELSE j + 1]],
                        !.supports.extras = { x \in @ : x.of # g[i].id }]
            = new
      BY <1>1, <1>2, <1>3, <3>1 DEF RouteHolds, SupportsHold, IsSupports
    <3>3. RouteAt(r) = route /\ GeometryItem(r, i) = g[i]
      BY <1>1, <1>7
    <3>4. ChangeRoute(r, new)
      BY <1>11, <3>2, <3>3, Zenon DEF RemoveItem
    <3> QED
      BY <3>1, <3>4
  <2>2. i \in 1..n /\ n - 1 \in Nat
    BY <1>3
  <2>3. PICK m \in Nat : m = n - 1
    BY <2>2
  <2>4. DOMAIN items = 1..m /\ \A j \in 1..m : items[j] = g[IF j < i THEN j ELSE j + 1]
    BY <2>1, <2>3
  <2>5. IsSequence(items)
    <3>1. items = [j \in 1..m |-> items[j]]
      BY <2>1, <2>3
    <3> QED
      BY <3>1, SequenceOf
  <2>6. \A j \in 1..m : (IF j < i THEN j ELSE j + 1) \in 1..n
    BY <2>2, <2>3
  <2>7. \A j \in DOMAIN items : ItemHolds(items[j], Recorded)
    BY <1>3, <1>4, <2>4, <2>6
  <2>8. \A j, k \in DOMAIN items : items[j].id = items[k].id => j = k
    <3>1. \A j, k \in 1..m : (IF j < i THEN j ELSE j + 1) = (IF k < i THEN k ELSE k + 1) => j = k
      BY <2>2, <2>3
    <3> QED
      BY <1>3, <1>5, <2>4, <2>6, <3>1
  <2>9. \A j \in DOMAIN items : \E k \in DOMAIN g : items[j].id = g[k].id
    BY <1>3, <2>4, <2>6
  <2>10. ASSUME NEW k \in DOMAIN g, k # i
         PROVE  \E j \in DOMAIN items : items[j] = g[k]
    <3>1. CASE k < i
      <4>1. k \in 1..m
        BY <1>3, <2>2, <2>3, <3>1
      <4> QED
        BY <2>4, <3>1, <4>1
    <3>2. CASE k > i
      <4>1. PICK j \in 1..m : j = k - 1 /\ ~(j < i) /\ j + 1 = k
        BY <1>3, <2>2, <2>3, <3>2
      <4> QED
        BY <2>4, <4>1
    <3> QED
      BY <1>3, <2>2, <2>10, <3>1, <3>2
  <2>11. left \subseteq s.extras /\ { x.of : x \in left } \ {"route"} \subseteq { items[j].id : j \in DOMAIN items }
    <3>1. ASSUME NEW x \in left, x.of # "route" PROVE \E j \in DOMAIN items : items[j].id = x.of
      <4>3. { y.of : y \in s.extras } \ {"route"} \subseteq { g[k].id : k \in DOMAIN g }
        BY <1>1, <1>6 DEF SupportsHold, ItemIds
      <4>1. PICK k \in DOMAIN g : g[k].id = x.of
        BY <2>1, <3>1, <4>3
      <4>2. k # i
        BY <2>1, <4>1
      <4> QED
        BY <2>10, <4>1, <4>2
    <3> QED
      BY <2>1, <3>1
  <2>12. SupportsHold([s EXCEPT !.extras = left], { items[j].id : j \in DOMAIN items }, Recorded, RecordedTemplates)
    <3>1. PICK t : t = [s EXCEPT !.extras = left]
      OBVIOUS
    <3>2. /\ DOMAIN t = DOMAIN s /\ t.manualValues = s.manualValues /\ t.extras = left
          /\ t.spacing = s.spacing /\ t.type = s.type /\ t.substrate = s.substrate /\ t.wstbMode = s.wstbMode
          /\ t.wstbQuantity = s.wstbQuantity /\ t.anchorOverride = s.anchorOverride
          /\ t.template = s.template /\ t.anchor = s.anchor
      BY <1>6, <3>1 DEF SupportsHold, IsSupports
    <3>3. Collection(left, LAMBDA x : {"id", "of", "quantity"} \subseteq DOMAIN x)
      BY <1>6, <2>11, FS_Subset DEF SupportsHold, IsSupports, Collection
    <3>4. IsSupports(t)
      BY <1>6, <3>2, <3>3 DEF SupportsHold, IsSupports, Collection
    <3>5. Distinct(t.manualValues, LAMBDA v : v.component) /\ Distinct(t.extras, LAMBDA x : x.id)
      BY <1>6, <2>11, <3>2 DEF SupportsHold, Distinct
    <3>6. SupportsHold(t, { items[j].id : j \in DOMAIN items }, Recorded, RecordedTemplates)
      BY <1>6, <2>11, <3>2, <3>4, <3>5 DEF SupportsHold
    <3> QED
      BY <3>1, <3>6
  <2>13. /\ DOMAIN new = DOMAIN route /\ new.selection = route.selection /\ new.ends = route.ends
         /\ new.geometry = items /\ new.supports = [s EXCEPT !.extras = left]
    BY <1>1, <1>2, <2>1 DEF RouteHolds
  <2>14. Fits(items)
    BY <2>5, <2>7, <2>8, <2>9 DEF Fits
  <2>15. SupportsHold(new.supports, { items[j].id : j \in DOMAIN items }, Recorded, RecordedTemplates)
    BY <2>12, <2>13
  <2>16. /\ DOMAIN new = DOMAIN route /\ new.selection = route.selection /\ new.ends = route.ends
         /\ new.geometry = items
    BY <2>13
  <2>17. ChangeRoute(r, new)
    BY <2>1
  <2> QED
    BY <1>8, <2>14, <2>15, <2>16, <2>17, Zenon
<1> QED
  BY <1>1, <1>9, <1>10, <1>11
LEMMA EndEdits ==
  ASSUME Page, NEW r \in DOMAIN draft.routes, NEW j \in 1..2,
         \/ \E type \in EndTypes : SetEndType(r, j, type)
         \/ ClearEndMaterial(r, j) \/ EnterEndText(r, j)
  PROVE  Edited
<1>1. PICK route, end : route = RouteAt(r) /\ end = route.ends[j]
  OBVIOUS
<1>2. RouteHolds(route, Recorded, RecordedTemplates)
  BY <1>1, RouteOfPage
<1>3. EndHolds(end, Recorded)
  BY <1>1, <1>2 DEF RouteHolds
<1>4. ASSUME NEW new, DOMAIN new = DOMAIN end, new.id = end.id, new.product \in {end.product, None}, ChangeEnd(r, j, new)
      PROVE  Edited
  <2>1. EndHolds(new, Recorded)
    BY <1>3, <1>4 DEF EndHolds, IsEnd
  <2>2. PICK moved : moved = [route EXCEPT !.ends[j] = new]
    OBVIOUS
  <2>3. /\ DOMAIN moved = DOMAIN route /\ moved.selection = route.selection /\ moved.geometry = route.geometry
        /\ moved.supports = route.supports /\ DOMAIN moved.ends = 1..2
        /\ \A k \in 1..2 : moved.ends[k] = IF k = j THEN new ELSE route.ends[k]
    BY <1>2, <2>2 DEF RouteHolds
  <2>4. SameIds(route, moved)
    BY <1>1, <1>4, <2>3 DEF SameIds
  <2>5. \A k \in 1..2 : EndHolds(moved.ends[k], Recorded)
    BY <1>2, <2>1, <2>3 DEF RouteHolds
  <2>6. RouteHolds(moved, Recorded, RecordedTemplates)
    BY <1>2, <2>3, <2>5, Zenon DEF RouteHolds, ItemIds
  <2> QED
    BY <1>1, <1>4, <2>2, <2>4, <2>6, RouteEdits DEF ChangeEnd
<1>5. {"id", "type", "product", "texts"} \subseteq DOMAIN end
  BY <1>3 DEF EndHolds, IsEnd
<1>6. CASE \E type \in EndTypes : SetEndType(r, j, type)
  <2>1. PICK type, product, texts, new :
          /\ new = [end EXCEPT !.type = type, !.product = product, !.texts = texts] /\ product \in {end.product, None}
          /\ ChangeEnd(r, j, new)
    <3>1. PICK type : ChangeEnd(r, j, [end EXCEPT
              !.type = type, !.product = IF type \in {"freeEnd", "routeContinuation"} THEN None ELSE @,
              !.texts = @ \cap NeededTexts(type)])
      BY <1>1, <1>6 DEF SetEndType
    <3>2. PICK product, texts : /\ product = IF type \in {"freeEnd", "routeContinuation"} THEN None ELSE end.product
                                /\ texts = end.texts \cap NeededTexts(type)
      OBVIOUS
    <3>3. [end EXCEPT !.type = type, !.product = IF type \in {"freeEnd", "routeContinuation"} THEN None ELSE @,
                      !.texts = @ \cap NeededTexts(type)]
            = [end EXCEPT !.type = type, !.product = product, !.texts = texts]
      BY <3>2
    <3> QED
      BY <3>1, <3>2, <3>3
  <2>2. DOMAIN new = DOMAIN end /\ new.id = end.id /\ new.product = product
    BY <1>5, <2>1
  <2> QED
    BY <1>4, <2>1, <2>2
<1>7. CASE ClearEndMaterial(r, j)
  <2>1. PICK new : new = [end EXCEPT !.product = None] /\ ChangeEnd(r, j, new)
    BY <1>1, <1>7 DEF ClearEndMaterial
  <2>2. DOMAIN new = DOMAIN end /\ new.id = end.id /\ new.product = None
    BY <1>5, <2>1
  <2> QED
    BY <1>4, <2>1, <2>2
<1>8. CASE EnterEndText(r, j)
  <2>1. PICK texts, new : new = [end EXCEPT !.texts = texts] /\ ChangeEnd(r, j, new)
    <3>1. PICK text : ChangeEnd(r, j, [end EXCEPT !.texts = IF text \in @ THEN @ \ {text} ELSE @ \cup {text}])
      BY <1>1, <1>8 DEF EnterEndText
    <3>2. PICK texts : texts = IF text \in end.texts THEN end.texts \ {text} ELSE end.texts \cup {text}
      OBVIOUS
    <3>3. [end EXCEPT !.texts = IF text \in @ THEN @ \ {text} ELSE @ \cup {text}] = [end EXCEPT !.texts = texts]
      BY <3>2
    <3> QED
      BY <3>1, <3>3
  <2>2. DOMAIN new = DOMAIN end /\ new.id = end.id /\ new.product = end.product
    BY <1>5, <2>1
  <2> QED
    BY <1>4, <2>1, <2>2
<1> QED
  BY <1>6, <1>7, <1>8
---------------------------------------------------------------------------
(* Routes that are added, and routes that are removed.                                    *)

LEMMA RouteAdded ==
  ASSUME NEW d, NEW products, NEW templates, DraftHolds(d, products, templates),
         NEW route, RouteHolds(route, products, templates),
         route.ends[1].id # route.ends[2].id,
         \A r \in DOMAIN d.routes, j, k \in 1..2 : EndId(d, r, j) # route.ends[k].id,
         \A i, k \in DOMAIN route.geometry : route.geometry[i].id = route.geometry[k].id => i = k,
         \A r \in DOMAIN d.routes : \A i \in DOMAIN d.routes[r].geometry, k \in DOMAIN route.geometry :
           ItemId(d, r, i) # route.geometry[k].id
  PROVE  DraftHolds([d EXCEPT !.routes = Append(@, route)], products, templates)
<1>1. PICK n \in Nat : n = Len(d.routes) /\ DOMAIN d.routes = 1..n
  BY SequenceParts DEF DraftHolds
<1>2. PICK new : new = [d EXCEPT !.routes = Append(@, route)]
  OBVIOUS
<1>3. /\ DraftFields \subseteq DOMAIN new /\ new.routes = Append(d.routes, route)
      /\ new.connections = d.connections /\ new.manualItems = d.manualItems
  BY <1>2 DEF DraftHolds, DraftFields
<1>4. /\ IsSequence(new.routes) /\ DOMAIN new.routes = 1..(n + 1)
      /\ \A r \in 1..n : new.routes[r] = d.routes[r]
      /\ new.routes[n + 1] = route
  BY <1>1, <1>3, AppendParts DEF DraftHolds
<1>5. \A r \in DOMAIN new.routes : r \in 1..n \/ r = n + 1
  BY <1>4
<1>6. 1..n \subseteq DOMAIN new.routes /\ n + 1 \notin 1..n
  BY <1>4
<1>7. \A r \in DOMAIN new.routes : RouteHolds(new.routes[r], products, templates)
  BY <1>1, <1>4, <1>5 DEF DraftHolds
<1>8. EndsDiffer(new)
  <2> SUFFICES ASSUME NEW r \in DOMAIN new.routes, NEW q \in DOMAIN new.routes, NEW j \in 1..2, NEW k \in 1..2,
                      new.routes[r].ends[j].id = new.routes[q].ends[k].id
               PROVE  r = q /\ j = k
    BY DEF EndsDiffer, EndId
  <2>5. \A p \in 1..n, l \in 1..2 : p \in DOMAIN d.routes /\ new.routes[p].ends[l].id = EndId(d, p, l)
    BY <1>1, <1>4 DEF EndId
  <2>6. \A p, t \in DOMAIN d.routes, l, m \in 1..2 : EndId(d, p, l) = EndId(d, t, m) => p = t /\ l = m
    BY DEF DraftHolds, EndsDiffer
  <2>1. CASE r \in 1..n /\ q \in 1..n
    BY <2>1, <2>5, <2>6
  <2>2. CASE r = n + 1 /\ q = n + 1
    BY <1>4, <2>2
  <2>3. CASE r \in 1..n /\ q = n + 1
    <3>1. EndId(d, r, j) = route.ends[k].id
      BY <1>4, <2>3, <2>5
    <3> QED
      BY <2>3, <2>5, <3>1
  <2>4. CASE r = n + 1 /\ q \in 1..n
    <3>1. EndId(d, q, k) = route.ends[j].id
      BY <1>4, <2>4, <2>5
    <3> QED
      BY <2>4, <2>5, <3>1
  <2> QED
    BY <1>5, <2>1, <2>2, <2>3, <2>4
<1>9. ItemsDiffer(new)
  <2> SUFFICES ASSUME NEW r \in DOMAIN new.routes, NEW q \in DOMAIN new.routes,
                      NEW i \in DOMAIN new.routes[r].geometry, NEW k \in DOMAIN new.routes[q].geometry,
                      new.routes[r].geometry[i].id = new.routes[q].geometry[k].id
               PROVE  r = q /\ i = k
    BY DEF ItemsDiffer, ItemId
  <2>5. \A p \in 1..n : p \in DOMAIN d.routes /\ new.routes[p] = d.routes[p]
    BY <1>1, <1>4
  <2>6. \A p, t \in DOMAIN d.routes : \A l \in DOMAIN d.routes[p].geometry, m \in DOMAIN d.routes[t].geometry :
          d.routes[p].geometry[l].id = d.routes[t].geometry[m].id => p = t /\ l = m
    BY DEF DraftHolds, ItemsDiffer, ItemId
  <2>1. CASE r \in 1..n /\ q \in 1..n
    <3>1. r \in DOMAIN d.routes /\ q \in DOMAIN d.routes /\ new.routes[r] = d.routes[r] /\ new.routes[q] = d.routes[q]
      BY <2>1, <2>5
    <3>2. i \in DOMAIN d.routes[r].geometry /\ k \in DOMAIN d.routes[q].geometry
      BY <3>1
    <3>3. d.routes[r].geometry[i].id = d.routes[q].geometry[k].id
      BY <3>1
    <3> QED
      BY <2>6, <3>1, <3>2, <3>3
  <2>2. CASE r = n + 1 /\ q = n + 1
    BY <1>4, <2>2
  <2>3. CASE r \in 1..n /\ q = n + 1
    BY <1>4, <2>3, <2>5 DEF ItemId
  <2>4. CASE r = n + 1 /\ q \in 1..n
    BY <1>4, <2>4, <2>5 DEF ItemId
  <2> QED
    BY <1>5, <2>1, <2>2, <2>3, <2>4
<1>10. ASSUME NEW x, Joins(d, x), IsConnection(x) PROVE Joins(new, x)
  <2>1. ASSUME NEW i \in DOMAIN x.participants, NEW r \in DOMAIN new.routes, NEW j \in 1..2,
               AtEnd(new, x.participants[i], r, j)
        PROVE  r \in DOMAIN d.routes /\ AtEnd(d, x.participants[i], r, j)
    <3>1. PICK q \in DOMAIN d.routes, k \in 1..2 : AtEnd(d, x.participants[i], q, k)
      BY <1>10 DEF Joins
    <3>2. r = q /\ r \in 1..n
      BY <1>1, <2>1, <3>1 DEF AtEnd
    <3> QED
      BY <1>1, <1>4, <2>1, <3>2 DEF AtEnd, EndId
  <2>2. \A p, r, j : AtEnd(d, p, r, j) => r \in DOMAIN new.routes /\ AtEnd(new, p, r, j)
    BY <1>1, <1>4, <1>6 DEF AtEnd, EndId
  <2>3. Len(x.participants) = 2 => 1 \in DOMAIN x.participants /\ 2 \in DOMAIN x.participants
    BY <1>10, SequenceParts DEF IsConnection
  <2>4. Len(x.participants) = 2 =>
          \A r, q \in DOMAIN new.routes, j \in 1..2 :
            ~(AtEnd(new, x.participants[1], r, j) /\ AtEnd(new, x.participants[2], q, j))
    BY <1>10, <2>1, <2>3 DEF Joins
  <2>5. \A i \in DOMAIN x.participants : \E r \in DOMAIN new.routes, j \in 1..2 : AtEnd(new, x.participants[i], r, j)
    BY <1>10, <2>2 DEF Joins
  <2> QED
    BY <1>10, <2>4, <2>5 DEF Joins
<1>11. ConnectionsHold(new, products)
  BY <1>3, <1>10 DEF DraftHolds, ConnectionsHold, ConnectionHolds
<1>12. ManualItemsHold(new, products)
  BY <1>3 DEF DraftHolds, ManualItemsHold
<1>13. DraftHolds(new, products, templates)
  BY <1>3, <1>4, <1>7, <1>8, <1>9, <1>11, <1>12, Zenon DEF DraftHolds
<1> QED
  BY <1>2, <1>13

LEMMA EndsAreIdentified ==
  ASSUME NEW r \in DOMAIN draft.routes, NEW j \in 1..2
  PROVE  EndId(draft, r, j) \in Identifiers
<1>1. PICK e \in EndsOf(draft) : e[1] = r /\ e[2] = j
  <2>1. <<r, j>> \in EndsOf(draft)
    BY DEF EndsOf
  <2> QED
    BY <2>1
<1>2. EndId(draft, r, j) = RouteAt(e[1]).ends[e[2]].id
  BY <1>1 DEF EndId, RouteAt
<1>3. EndId(draft, r, j) \in { RouteAt(g[1]).ends[g[2]].id : g \in EndsOf(draft) }
  BY <1>2
<1> QED
  BY <1>3, Zenon DEF Identifiers

LEMMA AddRouteEdits ==
  ASSUME Page, NEW code, AddRoute(code)
  PROVE  Edited
<1>1. PICK ids, route : ids = NewIds(2) /\ route = EmptyRoute(code, ids)
  OBVIOUS
<1>2. /\ ids[1] \notin Identifiers /\ ids[2] \notin Identifiers /\ ids[1] # ids[2]
  BY <1>1, NewIdsAreNew DEF AddRoute
<1>3. /\ DOMAIN route = {"code", "selection", "straight", "option", "geometry", "ends", "supports"}
      /\ DOMAIN route.selection = 1..4 /\ route.geometry = << >> /\ DOMAIN route.ends = 1..2
      /\ \A j \in 1..2 : route.ends[j] = [id |-> ids[j], type |-> "freeEnd", product |-> None, texts |-> {}]
      /\ route.supports = [ spacing |-> Zero, type |-> None, product |-> None, template |-> None, levels |-> 0,
                   substrate |-> None, anchor |-> None, anchorOverride |-> 0, wstb |-> None,
                   wstbMode |-> None, wstbQuantity |-> 0, extras |-> {}, manualValues |-> {} ]
  BY <1>1 DEF EmptyRoute
<1>4. SupportsHold(route.supports, ItemIds(route), Recorded, RecordedTemplates)
  <2>1. PICK s : s = route.supports
    OBVIOUS
  <2>2. Zero \in Fractions /\ IsFiniteSet({})
    BY LengthsAreFractions, FS_EmptySet
  <2>3. IsSupports(s)
    BY <1>3, <2>1, <2>2 DEF IsSupports, Collection
  <2>4. Distinct(s.manualValues, LAMBDA v : v.component) /\ Distinct(s.extras, LAMBDA x : x.id)
    BY <1>3, <2>1 DEF Distinct
  <2>5. { x.of : x \in s.extras } \ {"route"} \subseteq ItemIds(route) /\ s.template = None /\ s.anchor = None
    BY <1>3, <2>1
  <2>6. SupportsHold(s, ItemIds(route), Recorded, RecordedTemplates)
    BY <2>3, <2>4, <2>5 DEF SupportsHold
  <2> QED
    BY <2>1, <2>6
<1>5. IsSequence(route.geometry)
  BY <1>3 DEF IsSequence
<1>6. RouteHolds(route, Recorded, RecordedTemplates)
  BY <1>3, <1>4, <1>5 DEF RouteHolds, EndHolds, IsEnd
<1>7. \A r \in DOMAIN draft.routes, j, k \in 1..2 : EndId(draft, r, j) # route.ends[k].id
  BY <1>2, <1>3, EndsAreIdentified
<1>8. route.ends[1].id # route.ends[2].id
  BY <1>2, <1>3
<1>9. DOMAIN route.geometry = {}
  BY <1>3
<1>10. DraftHolds([draft EXCEPT !.routes = Append(@, route)], Recorded, RecordedTemplates)
  BY <1>6, <1>7, <1>8, <1>9, RouteAdded DEF Page
<1> QED
  BY <1>1, <1>10, ChangeEdits DEF AddRoute
LEMMA SetAsSequence ==
  ASSUME NEW S, IsFiniteSet(S)
  PROVE  /\ Cardinality(S) \in Nat
         /\ SetToSeq(S) \in [1..Cardinality(S) -> S] /\ Len(SetToSeq(S)) = Cardinality(S)
<1>1. PICK n \in Nat : n = Cardinality(S) /\ ExistsBijection(1..n, S)
  BY FS_CardinalityType
<1>2. PICK f \in Bijection(1..n, S) : TRUE
  BY <1>1 DEF ExistsBijection
<1>3. f \in [1..n -> S] /\ IsInjective(f)
  BY <1>2, Zenon DEF Bijection, Injection
<1>4. SetToSeq(S) \in [1..n -> S]
  BY <1>1, <1>3, Zenon DEF SetToSeq
<1>5. \A g \in [1..n -> S] : Len(g) = n
  OBVIOUS
<1> QED
  BY <1>1, <1>4, <1>5

LEMMA CopyRouteEdits ==
  ASSUME Page, NEW r \in DOMAIN draft.routes, CopyRoute(r)
  PROVE  Edited
<1>1. PICK route, g, s : route = RouteAt(r) /\ g = route.geometry /\ s = route.supports
  OBVIOUS
<1>2. RouteHolds(route, Recorded, RecordedTemplates)
  BY <1>1, RouteOfPage
<1>3. PICK n \in Nat : n = Len(g) /\ DOMAIN g = 1..n
  BY <1>1, <1>2, SequenceParts DEF RouteHolds
<1>4. SupportsHold(s, ItemIds(route), Recorded, RecordedTemplates)
  BY <1>1, <1>2 DEF RouteHolds
<1>5. IsFiniteSet(s.extras)
  BY <1>4 DEF SupportsHold, IsSupports, Collection
<1>27. PICK m \in Nat : m = Cardinality(s.extras)
  BY <1>5, SetAsSequence
<1>6. PICK x : x = SetToSeq(s.extras) /\ Len(x) = m /\ x \in [1..m -> s.extras]
  BY <1>5, <1>27, SetAsSequence
<1>7. PICK ids : ids = NewIds(2 + n + m)
  OBVIOUS
<1>8. PICK of : of = [k \in 1..m |-> IF \E i \in 1..n : g[i].id = x[k].of
                                     THEN ids[2 + (CHOOSE i \in 1..n : g[i].id = x[k].of)] ELSE "route"]
  OBVIOUS
<1>9. PICK ends, items, extras, copy :
        /\ ends = [j \in 1..2 |-> [route.ends[j] EXCEPT !.id = ids[j]]]
        /\ items = [i \in 1..n |-> [g[i] EXCEPT !.id = ids[2 + i]]]
        /\ extras = { [x[k] EXCEPT !.id = ids[2 + n + k], !.of = of[k]] : k \in 1..m }
        /\ copy = [route EXCEPT !.code = CopyCode(route.code), !.ends = ends, !.geometry = items, !.supports.extras = extras]
  OBVIOUS
<1>10. Unused(2 + n + m) # {} /\ Change([draft EXCEPT !.routes = Append(@, copy)])
  <2> DEFINE R == RouteAt(r)
             X == SetToSeq(R.supports.extras)
             I == NewIds(2 + Len(R.geometry) + Len(X))
             Source(y) == IF \E i \in 1..Len(R.geometry) : R.geometry[i].id = y.of
                          THEN I[2 + (CHOOSE i \in 1..Len(R.geometry) : R.geometry[i].id = y.of)] ELSE "route"
             E == [j \in 1..2 |-> [R.ends[j] EXCEPT !.id = I[j]]]
             G == [i \in 1..Len(R.geometry) |-> [R.geometry[i] EXCEPT !.id = I[2 + i]]]
             S == { [X[k] EXCEPT !.id = I[2 + Len(R.geometry) + k], !.of = Source(X[k])] : k \in DOMAIN X }
             C == [R EXCEPT !.code = CopyCode(R.code), !.ends = E, !.geometry = G, !.supports.extras = S]
  <2>1. Unused(2 + Len(R.geometry) + Len(X)) # {} /\ Change([draft EXCEPT !.routes = Append(@, C)])
    BY DEF CopyRoute
  <2>2. R = route /\ Len(R.geometry) = n /\ X = x /\ I = ids /\ Len(X) = m
    BY <1>1, <1>3, <1>6, <1>7
  <2>3. E = ends /\ G = items
    BY <1>1, <1>9, <2>2
  <2>4. \A k \in 1..m : Source(X[k]) = of[k]
    BY <1>1, <1>8, <2>2
  <2>5. S = extras
    <3> DEFINE A(k) == [X[k] EXCEPT !.id = I[2 + Len(R.geometry) + k], !.of = Source(X[k])]
               B(k) == [x[k] EXCEPT !.id = ids[2 + n + k], !.of = of[k]]
    <3>1. DOMAIN X = 1..m
      BY <1>6, <2>2
    <3>2. \A k \in 1..m : A(k) = B(k)
      BY <2>2, <2>4
    <3>3. S = { A(k) : k \in DOMAIN X }
      OBVIOUS
    <3>4. extras = { B(k) : k \in 1..m }
      BY <1>9
    <3> HIDE DEF A, B, S, X
    <3> QED
      BY <3>1, <3>2, <3>3, <3>4
  <2>6. C = copy
    <3> HIDE DEF R, E, G, S
    <3> QED
      BY <1>9, <2>2, <2>3, <2>5
  <2> HIDE DEF R, X, C
  <2> QED
    BY <2>1, <2>2, <2>6
<1>11. PICK all \in Nat : all = 2 + n + m
  OBVIOUS
<1>12. /\ \A i \in 1..all : ids[i] \notin Identifiers
       /\ \A i, k \in 1..all : ids[i] = ids[k] => i = k
  BY <1>7, <1>10, <1>11, NewIdsAreNew
<1>13. /\ DOMAIN copy = DOMAIN route /\ copy.selection = route.selection /\ copy.ends = ends /\ copy.geometry = items
       /\ copy.supports = [s EXCEPT !.extras = extras]
  BY <1>1, <1>2, <1>9 DEF RouteHolds
<1>14. /\ \A j \in 1..2 : EndHolds(ends[j], Recorded) /\ ends[j].id = ids[j]
       /\ DOMAIN ends = 1..2
  BY <1>2, <1>9 DEF RouteHolds, EndHolds, IsEnd
<1>15. /\ DOMAIN items = 1..n /\ IsSequence(items)
       /\ \A i \in 1..n : ItemHolds(items[i], Recorded) /\ items[i].id = ids[2 + i]
  <2>1. DOMAIN items = 1..n /\ items = [i \in 1..n |-> items[i]]
    BY <1>9
  <2>2. ASSUME NEW i \in 1..n PROVE ItemHolds(items[i], Recorded) /\ items[i].id = ids[2 + i]
    <3>1. PICK item, id, new : item = g[i] /\ id = ids[2 + i] /\ new = [item EXCEPT !.id = id]
      OBVIOUS
    <3>2. ItemHolds(item, Recorded)
      BY <1>1, <1>2, <1>3, <2>2, <3>1 DEF RouteHolds
    <3>3. "id" \in DOMAIN item
      BY <3>2 DEF ItemHolds, IsItem
    <3>4. DOMAIN new = DOMAIN item /\ new.id = id /\ new.kind = item.kind /\ new.product = item.product
      BY <3>1, <3>3
    <3>5. ItemHolds(new, Recorded)
      BY <3>2, <3>4 DEF ItemHolds, IsItem, Straight
    <3>6. items[i] = new
      BY <1>9, <2>2, <3>1
    <3> QED
      BY <3>1, <3>4, <3>5, <3>6
  <2>3. IsSequence(items)
    BY <2>1, SequenceOf
  <2> QED
    BY <2>1, <2>2, <2>3
<1>16. \A k \in 1..m : of[k] = "route" \/ of[k] \in ItemIds(copy)
  <2> SUFFICES ASSUME NEW k \in 1..m, \E i \in 1..n : g[i].id = x[k].of
               PROVE  of[k] \in ItemIds(copy)
    BY <1>8
  <2>1. PICK i \in 1..n : i = (CHOOSE l \in 1..n : g[l].id = x[k].of)
    OBVIOUS
  <2>2. of[k] = ids[2 + i]
    BY <1>8, <2>1
  <2>3. of[k] = items[i].id
    BY <1>15, <2>2
  <2> QED
    BY <1>13, <1>15, <2>3 DEF ItemIds
<1>17. ASSUME NEW k \in 1..m
       PROVE  LET new == [x[k] EXCEPT !.id = ids[2 + n + k], !.of = of[k]]
              IN {"id", "of", "quantity"} \subseteq DOMAIN new /\ new.id = ids[2 + n + k] /\ new.of = of[k]
  <2>1. PICK y, id, source, new : y = x[k] /\ id = ids[2 + n + k] /\ source = of[k] /\ new = [y EXCEPT !.id = id, !.of = source]
    OBVIOUS
  <2>2. {"id", "of", "quantity"} \subseteq DOMAIN y
    BY <1>4, <1>6, <2>1 DEF SupportsHold, IsSupports, Collection
  <2>3. DOMAIN new = DOMAIN y /\ new.id = id /\ new.of = source
    BY <2>1, <2>2
  <2> QED
    BY <2>1, <2>2, <2>3
<1>18. /\ IsFiniteSet(extras)
       /\ \A y \in extras : \E k \in 1..m : /\ {"id", "of", "quantity"} \subseteq DOMAIN y
                                            /\ y = [x[k] EXCEPT !.id = ids[2 + n + k], !.of = of[k]]
                                            /\ y.id = ids[2 + n + k] /\ y.of = of[k]
  <2>1. PICK f : f = [k \in 1..m |-> [x[k] EXCEPT !.id = ids[2 + n + k], !.of = of[k]]]
    OBVIOUS
  <2>2. extras = { f[k] : k \in 1..m }
    BY <1>9, <2>1
  <2>3. IsFiniteSet(1..m)
    BY FS_Interval
  <2>4. IsFiniteSet(extras)
    BY <2>2, <2>3, ImageIsFinite
  <2> QED
    BY <1>9, <1>17, <2>4
<1>19. SupportsHold(copy.supports, ItemIds(copy), Recorded, RecordedTemplates)
  <2>1. PICK t : t = [s EXCEPT !.extras = extras]
    OBVIOUS
  <2>2. /\ DOMAIN t = DOMAIN s /\ t.manualValues = s.manualValues /\ t.extras = extras
        /\ t.spacing = s.spacing /\ t.type = s.type /\ t.substrate = s.substrate /\ t.wstbMode = s.wstbMode
        /\ t.wstbQuantity = s.wstbQuantity /\ t.anchorOverride = s.anchorOverride
        /\ t.template = s.template /\ t.anchor = s.anchor
    BY <1>4, <2>1 DEF SupportsHold, IsSupports
  <2>3. Collection(extras, LAMBDA y : {"id", "of", "quantity"} \subseteq DOMAIN y)
    BY <1>18 DEF Collection
  <2>4. IsSupports(t)
    BY <1>4, <2>2, <2>3 DEF SupportsHold, IsSupports, Collection
  <2>5. Distinct(extras, LAMBDA y : y.id)
    <3> SUFFICES ASSUME NEW y \in extras, NEW z \in extras, y.id = z.id PROVE y = z
      BY DEF Distinct
    <3>1. PICK k \in 1..m : y = [x[k] EXCEPT !.id = ids[2 + n + k], !.of = of[k]] /\ y.id = ids[2 + n + k]
      BY <1>18
    <3>2. PICK l \in 1..m : z = [x[l] EXCEPT !.id = ids[2 + n + l], !.of = of[l]] /\ z.id = ids[2 + n + l]
      BY <1>18
    <3>3. 2 + n + k \in 1..all /\ 2 + n + l \in 1..all
      BY <1>11
    <3>4. 2 + n + k = 2 + n + l
      BY <1>12, <3>1, <3>2, <3>3
    <3>5. k = l
      BY <3>4
    <3> QED
      BY <3>1, <3>2, <3>5
  <2>6. Distinct(t.manualValues, LAMBDA v : v.component) /\ Distinct(t.extras, LAMBDA y : y.id)
    BY <1>4, <2>2, <2>5 DEF SupportsHold, Distinct
  <2>7. { y.of : y \in t.extras } \ {"route"} \subseteq ItemIds(copy)
    <3>1. \A y \in extras : y.of = "route" \/ y.of \in ItemIds(copy)
      BY <1>16, <1>18
    <3> QED
      BY <2>2, <3>1
  <2>8. SupportsHold(t, ItemIds(copy), Recorded, RecordedTemplates)
    BY <1>4, <2>2, <2>4, <2>6, <2>7 DEF SupportsHold
  <2> QED
    BY <1>13, <2>1, <2>8
<1>20. RouteHolds(copy, Recorded, RecordedTemplates)
  BY <1>2, <1>13, <1>14, <1>15, <1>19 DEF RouteHolds
<1>21. copy.ends[1].id # copy.ends[2].id
  <2>1. 1 \in 1..all /\ 2 \in 1..all
    BY <1>11
  <2> QED
    BY <1>12, <1>13, <1>14, <2>1
<1>22. \A q \in DOMAIN draft.routes, j, k \in 1..2 : EndId(draft, q, j) # copy.ends[k].id
  <2>1. 1..2 \subseteq 1..all
    BY <1>11
  <2> QED
    BY <1>12, <1>13, <1>14, <2>1, EndsAreIdentified
<1>23. \A i \in 1..n : 2 + i \in 1..all
  BY <1>11
<1>24. \A i, k \in DOMAIN copy.geometry : copy.geometry[i].id = copy.geometry[k].id => i = k
  BY <1>12, <1>13, <1>15, <1>23
<1>25. \A q \in DOMAIN draft.routes : \A i \in DOMAIN draft.routes[q].geometry, k \in DOMAIN copy.geometry :
         ItemId(draft, q, i) # copy.geometry[k].id
  BY <1>12, <1>13, <1>15, <1>23, ItemsAreIdentified
<1>26. DraftHolds([draft EXCEPT !.routes = Append(@, copy)], Recorded, RecordedTemplates)
  BY <1>20, <1>21, <1>22, <1>24, <1>25, RouteAdded DEF Page
<1> QED
  BY <1>10, <1>26, ChangeEdits
\* RemoveRoute, for any draft: the routes after the one that is removed move up.
WithoutRoute(routes, r) == [i \in 1..(Len(routes) - 1) |-> routes[IF i < r THEN i ELSE i + 1]]
MovedUp(x, r) ==
  [x EXCEPT !.participants = [i \in DOMAIN x.participants |->
                                [x.participants[i] EXCEPT !.route = IF @ > r THEN @ - 1 ELSE @]]]

LEMMA RouteRemoved ==
  ASSUME NEW d, NEW products, NEW templates, DraftHolds(d, products, templates), NEW r \in DOMAIN d.routes,
         NEW new, DraftFields \subseteq DOMAIN new,
         new.routes = WithoutRoute(d.routes, r), new.manualItems = d.manualItems,
         \A y \in new.connections : \E x \in d.connections :
           (\A i \in DOMAIN x.participants : x.participants[i].route # r) /\ y = MovedUp(x, r)
  PROVE  DraftHolds(new, products, templates)
<1> DEFINE Back(q) == IF q < r THEN q ELSE q + 1
           Shift(q) == IF q > r THEN q - 1 ELSE q
           Shifted(p) == [p EXCEPT !.route = IF @ > r THEN @ - 1 ELSE @]
           Moved(x) == [x EXCEPT !.participants = [i \in DOMAIN x.participants |-> Shifted(x.participants[i])]]
<1>1. PICK n \in Nat : n = Len(d.routes) /\ DOMAIN d.routes = 1..n
  BY SequenceParts DEF DraftHolds
<1>2. r \in 1..n /\ n - 1 \in Nat
  BY <1>1
<1>3. PICK m \in Nat : m = n - 1
  BY <1>2
<1>4. DOMAIN new.routes = 1..m /\ \A q \in 1..m : new.routes[q] = d.routes[Back(q)]
  BY <1>1, <1>3 DEF WithoutRoute
<1>5. IsSequence(new.routes)
  <2>1. new.routes = [q \in 1..m |-> new.routes[q]]
    BY <1>1, <1>3 DEF WithoutRoute
  <2> QED
    BY <2>1, SequenceOf
<1>6. /\ \A q \in 1..m : Back(q) \in 1..n /\ Back(q) # r /\ Shift(Back(q)) = q
      /\ \A q \in 1..n : q # r => Shift(q) \in 1..m /\ Back(Shift(q)) = q
  BY <1>2, <1>3
<1>7. \A p, q \in 1..m : Back(p) = Back(q) => p = q
  BY <1>6
<1> HIDE DEF Back, Shift
<1>8. \A q \in DOMAIN new.routes : RouteHolds(new.routes[q], products, templates)
  BY <1>1, <1>4, <1>6 DEF DraftHolds
<1>9. \A q \in 1..m, j \in 1..2 : EndId(new, q, j) = EndId(d, Back(q), j)
  BY <1>4 DEF EndId
<1>10. EndsDiffer(new)
  <2>1. \A p, t \in 1..n, l, k \in 1..2 : EndId(d, p, l) = EndId(d, t, k) => p = t /\ l = k
    BY <1>1 DEF DraftHolds, EndsDiffer
  <2> SUFFICES ASSUME NEW p \in 1..m, NEW q \in 1..m, NEW j \in 1..2, NEW k \in 1..2, EndId(new, p, j) = EndId(new, q, k)
               PROVE  p = q /\ j = k
    BY <1>4 DEF EndsDiffer
  <2>2. EndId(d, Back(p), j) = EndId(d, Back(q), k)
    BY <1>9
  <2>3. Back(p) = Back(q) /\ j = k
    BY <1>6, <2>1, <2>2
  <2> QED
    BY <1>7, <2>3
<1>11. ItemsDiffer(new)
  <2> SUFFICES ASSUME NEW p \in DOMAIN new.routes, NEW q \in DOMAIN new.routes,
                      NEW i \in DOMAIN new.routes[p].geometry, NEW k \in DOMAIN new.routes[q].geometry,
                      ItemId(new, p, i) = ItemId(new, q, k)
               PROVE  p = q /\ i = k
    BY Zenon DEF ItemsDiffer
  <2>0. p \in 1..m /\ q \in 1..m
    BY <1>4
  <2>1. /\ Back(p) \in DOMAIN d.routes /\ Back(q) \in DOMAIN d.routes
        /\ i \in DOMAIN d.routes[Back(p)].geometry /\ k \in DOMAIN d.routes[Back(q)].geometry
        /\ ItemId(d, Back(p), i) = ItemId(d, Back(q), k)
    BY <1>1, <1>4, <1>6, <2>0 DEF ItemId
  <2>2. Back(p) = Back(q) /\ i = k
    BY <2>1 DEF DraftHolds, ItemsDiffer
  <2> QED
    BY <1>7, <2>0, <2>2
<1>12. ASSUME NEW p, NEW a \in DOMAIN d.routes, a # r, NEW k \in 1..2, AtEnd(d, p, a, k)
       PROVE  /\ Shifted(p).route = Shift(a) /\ Shifted(p).endpoint = p.endpoint
              /\ Shift(a) \in DOMAIN new.routes /\ AtEnd(new, Shifted(p), Shift(a), k)
              /\ \A q \in DOMAIN new.routes, j \in 1..2 :
                   AtEnd(new, Shifted(p), q, j) => AtEnd(d, p, Back(q), j) /\ Back(q) \in DOMAIN d.routes
  <2>1. p = [route |-> a, endpoint |-> EndId(d, a, k)]
    BY <1>12 DEF AtEnd
  <2>2. Shifted(p) = [route |-> Shift(a), endpoint |-> EndId(d, a, k)]
    BY <2>1 DEF Shift
  <2> HIDE DEF Shifted
  <2>3. Shift(a) \in 1..m /\ Back(Shift(a)) = a
    BY <1>1, <1>6, <1>12
  <2>4. EndId(new, Shift(a), k) = EndId(d, a, k)
    BY <1>9, <2>3
  <2>5. AtEnd(new, Shifted(p), Shift(a), k)
    BY <1>4, <2>2, <2>3, <2>4 DEF AtEnd
  <2>6. ASSUME NEW q \in DOMAIN new.routes, NEW j \in 1..2, AtEnd(new, Shifted(p), q, j)
        PROVE  AtEnd(d, p, Back(q), j) /\ Back(q) \in DOMAIN d.routes
    <3>1. Shifted(p) = [route |-> q, endpoint |-> EndId(new, q, j)]
      BY <2>6 DEF AtEnd
    <3>2. Shift(a) = q /\ EndId(d, a, k) = EndId(new, q, j)
      BY <2>2, <3>1
    <3>3. Back(q) = a /\ EndId(new, q, j) = EndId(d, a, j)
      BY <1>4, <1>9, <2>3, <3>2
    <3> QED
      BY <2>1, <3>2, <3>3 DEF AtEnd
  <2> QED
    BY <1>4, <2>1, <2>2, <2>3, <2>5, <2>6
<1>13. ASSUME NEW x \in d.connections, \A i \in DOMAIN x.participants : x.participants[i].route # r
       PROVE  /\ ConnectionHolds(new, Moved(x), products)
              /\ Moved(x).id = x.id /\ ParticipantEnds(Moved(x)) = ParticipantEnds(x)
  <2>1. IsConnection(x) /\ Joins(d, x) /\ x.material \in products \cup {None}
    BY DEF DraftHolds, ConnectionsHold, ConnectionHolds
  <2>2. PICK y, p, t : y = Moved(x) /\ p = x.participants /\ t = y.participants
    OBVIOUS
  <2>3. PICK l \in Nat : l = Len(p) /\ DOMAIN p = 1..l
    BY <2>1, <2>2, SequenceParts DEF IsConnection
  <2>4. /\ DOMAIN y = DOMAIN x /\ y.id = x.id /\ y.type = x.type /\ y.material = x.material /\ y.corrections = x.corrections
        /\ t = [i \in 1..l |-> Shifted(p[i])]
    BY <2>1, <2>2, <2>3 DEF IsConnection
  <2> HIDE DEF Shifted, Moved
  <2>5. t = [i \in 1..l |-> t[i]] /\ DOMAIN t = 1..l /\ \A i \in 1..l : t[i] = Shifted(p[i])
    BY <2>4
  <2>6. IsSequence(t) /\ Len(t) = l
    BY <2>5, SequenceOf
  <2>7. \A i \in 1..l : \E a \in DOMAIN d.routes, k \in 1..2 : AtEnd(d, p[i], a, k) /\ a # r /\ p[i].route = a
    BY <1>13, <2>1, <2>2, <2>3 DEF Joins, AtEnd
  <2>8. ASSUME NEW i \in 1..l
        PROVE  \E q \in DOMAIN new.routes, k \in 1..2 : AtEnd(new, t[i], q, k)
    <3>1. PICK a \in DOMAIN d.routes, k \in 1..2 : AtEnd(d, p[i], a, k) /\ a # r
      BY <2>7
    <3>2. Shift(a) \in DOMAIN new.routes /\ AtEnd(new, Shifted(p[i]), Shift(a), k)
      BY <1>12, <3>1
    <3> QED
      BY <2>5, <3>2
  <2>9. \A i \in 1..l : t[i].endpoint = p[i].endpoint /\ t[i].route = Shift(p[i].route) /\ p[i].route \in 1..n /\ p[i].route # r
    BY <1>1, <1>12, <2>5, <2>7
  <2>10. \A i, k \in 1..l : t[i].route = t[k].route => i = k
    <3>1. \A a, b \in 1..n : a # r /\ b # r /\ Shift(a) = Shift(b) => a = b
      BY <1>6
    <3>2. \A i, k \in 1..l : p[i].route = p[k].route => i = k
      BY <2>1, <2>2, <2>3 DEF Joins
    <3> QED
      BY <2>9, <3>1, <3>2
  <2>11. ASSUME l = 2, NEW a \in DOMAIN new.routes, NEW b \in DOMAIN new.routes, NEW j \in 1..2,
                AtEnd(new, t[1], a, j), AtEnd(new, t[2], b, j)
         PROVE  FALSE
    <3>1. 1 \in 1..l /\ 2 \in 1..l
      BY <2>11
    <3>2. AtEnd(d, p[1], Back(a), j) /\ Back(a) \in DOMAIN d.routes
      BY <1>12, <2>5, <2>7, <2>11, <3>1
    <3>3. AtEnd(d, p[2], Back(b), j) /\ Back(b) \in DOMAIN d.routes
      BY <1>12, <2>5, <2>7, <2>11, <3>1
    <3> QED
      BY <2>1, <2>2, <2>3, <2>11, <3>2, <3>3 DEF Joins
  <2>12. Joins(new, y)
    <3>1. Len(y.participants) \in MayJoin(y.type)
      BY <2>1, <2>2, <2>3, <2>4, <2>6 DEF Joins, MayJoin
    <3>2. Distinct(y.corrections, LAMBDA k : k.product)
      BY <2>1, <2>4 DEF Joins, Distinct
    <3>3. \A i \in DOMAIN y.participants : \E q \in DOMAIN new.routes, k \in 1..2 : AtEnd(new, y.participants[i], q, k)
      BY <2>2, <2>5, <2>8
    <3>4. \A i, k \in DOMAIN y.participants : y.participants[i].route = y.participants[k].route => i = k
      BY <2>2, <2>5, <2>10
    <3>5. Len(y.participants) = 2 =>
            \A a, b \in DOMAIN new.routes, j \in 1..2 :
              ~(AtEnd(new, y.participants[1], a, j) /\ AtEnd(new, y.participants[2], b, j))
      BY <2>2, <2>6, <2>11
    <3> QED
      BY <3>1, <3>2, <3>3, <3>4, <3>5 DEF Joins
  <2>13. IsConnection(y)
    BY <2>1, <2>2, <2>4, <2>6 DEF IsConnection
  <2>14. ParticipantEnds(y) = ParticipantEnds(x)
    <3>1. ParticipantEnds(y) = { t[i].endpoint : i \in 1..l }
      BY <2>2, <2>5 DEF ParticipantEnds
    <3>2. ParticipantEnds(x) = { p[i].endpoint : i \in 1..l }
      BY <2>2, <2>3 DEF ParticipantEnds
    <3> QED
      BY <2>9, <3>1, <3>2
  <2> QED
    BY <2>1, <2>2, <2>4, <2>12, <2>13, <2>14 DEF ConnectionHolds
<1>14. \A y \in new.connections : \E x \in d.connections :
         (\A i \in DOMAIN x.participants : x.participants[i].route # r) /\ y = Moved(x)
  BY DEF MovedUp
<1> HIDE DEF Moved, Shifted
<1>15. ConnectionsHold(new, products)
  <2>1. ASSUME NEW y \in new.connections
        PROVE  \E x \in d.connections : /\ ConnectionHolds(new, y, products) /\ y = Moved(x)
                                        /\ y.id = x.id /\ ParticipantEnds(y) = ParticipantEnds(x)
    BY <1>13, <1>14
  <2>2. \A x, z \in d.connections : x # z => x.id # z.id /\ ParticipantEnds(x) \cap ParticipantEnds(z) = {}
    BY DEF DraftHolds, ConnectionsHold
  <2>3. ASSUME NEW y \in new.connections, NEW w \in new.connections, y # w
        PROVE  y.id # w.id /\ ParticipantEnds(y) \cap ParticipantEnds(w) = {}
    <3>1. PICK x \in d.connections : y = Moved(x) /\ y.id = x.id /\ ParticipantEnds(y) = ParticipantEnds(x)
      BY <2>1
    <3>2. PICK z \in d.connections : w = Moved(z) /\ w.id = z.id /\ ParticipantEnds(w) = ParticipantEnds(z)
      BY <2>1
    <3> QED
      BY <2>2, <2>3, <3>1, <3>2
  <2> QED
    BY <2>1, <2>3 DEF ConnectionsHold
<1>16. ManualItemsHold(new, products)
  BY DEF DraftHolds, ManualItemsHold
<1> QED
  BY <1>5, <1>8, <1>10, <1>11, <1>15, <1>16, Zenon DEF DraftHolds

LEMMA RemoveRouteEdits ==
  ASSUME Page, NEW r \in DOMAIN draft.routes, RemoveRoute(r)
  PROVE  Edited
<1> DEFINE Shifted(p) == [p EXCEPT !.route = IF @ > r THEN @ - 1 ELSE @]
           others == { x \in draft.connections : \A i \in DOMAIN x.participants : x.participants[i].route # r }
           routes == [i \in 1..(Len(draft.routes) - 1) |-> draft.routes[IF i < r THEN i ELSE i + 1]]
           connections == { [x EXCEPT !.participants = [i \in DOMAIN x.participants |-> Shifted(x.participants[i])]] : x \in others }
           new == [draft EXCEPT !.routes = routes, !.connections = connections]
<1>1. Change(new)
  BY DEF RemoveRoute
<1>2. /\ DraftFields \subseteq DOMAIN new /\ new.manualItems = draft.manualItems
      /\ new.routes = routes /\ new.connections = connections
  <2> HIDE DEF routes, connections
  <2> QED
    BY DEF Page, DraftHolds, DraftFields
<1>3. DraftHolds(new, Recorded, RecordedTemplates)
  <2> HIDE DEF new
  <2>1. \A y \in new.connections : \E x \in draft.connections :
           (\A i \in DOMAIN x.participants : x.participants[i].route # r) /\ y = MovedUp(x, r)
    BY <1>2 DEF MovedUp
  <2>2. new.routes = WithoutRoute(draft.routes, r)
    BY <1>2 DEF WithoutRoute
  <2>3. DraftHolds(draft, Recorded, RecordedTemplates)
    BY DEF Page
  <2>4. DraftFields \subseteq DOMAIN new /\ new.manualItems = draft.manualItems
    BY <1>2
  <2> HIDE DEF routes, connections, others, Shifted
  <2> QED
    BY <2>1, <2>2, <2>3, <2>4, RouteRemoved, Zenon
<1> QED
  BY <1>1, <1>3, ChangeEdits

---------------------------------------------------------------------------
(* Connections, manual items and what is of the whole project.                            *)

LEMMA RoutesJoin ==
  ASSUME NEW d, NEW new, NEW x, DOMAIN new.routes = DOMAIN d.routes,
         \A r \in DOMAIN d.routes, j \in 1..2 : EndId(new, r, j) = EndId(d, r, j)
  PROVE  Joins(new, x) <=> Joins(d, x)
<1>1. \A p : \A r \in DOMAIN d.routes, j \in 1..2 : AtEnd(new, p, r, j) <=> AtEnd(d, p, r, j)
  BY DEF AtEnd
<1> QED
  BY <1>1, Zenon DEF Joins

LEMMA PartsReplaced ==
  ASSUME NEW d, NEW products, NEW templates, DraftHolds(d, products, templates),
         NEW new, DraftFields \subseteq DOMAIN new, new.routes = d.routes,
         \A x \in new.connections : ConnectionHolds(d, x, products),
         \A x, y \in new.connections : x # y => x.id # y.id /\ ParticipantEnds(x) \cap ParticipantEnds(y) = {},
         ManualItemsHold(new, products)
  PROVE  DraftHolds(new, products, templates)
<1>1. IsSequence(new.routes) /\ \A r \in DOMAIN new.routes : RouteHolds(new.routes[r], products, templates)
  BY Zenon DEF DraftHolds
<1>2. \A r, j : EndId(new, r, j) = EndId(d, r, j)
  BY DEF EndId
<1>3. EndsDiffer(new)
  <2>1. EndsDiffer(d) /\ DOMAIN new.routes = DOMAIN d.routes
    BY DEF DraftHolds
  <2> QED
    BY <1>2, <2>1 DEF EndsDiffer
<1>4. ItemsDiffer(new)
  <2>1. ItemsDiffer(d)
    BY DEF DraftHolds
  <2> QED
    BY <2>1 DEF ItemsDiffer, ItemId
<1>5. ASSUME NEW x \in new.connections
      PROVE  ConnectionHolds(new, x, products)
  <2>1. Joins(new, x) <=> Joins(d, x)
    BY <1>2, RoutesJoin
  <2> QED
    BY <2>1, Zenon DEF ConnectionHolds
<1>6. ConnectionsHold(new, products)
  BY <1>5, Zenon DEF ConnectionsHold
<1> QED
  BY <1>1, <1>3, <1>4, <1>6, Zenon DEF DraftHolds

\* Taking connections or manual items away, and what nothing refers to.
LEMMA PartsTaken ==
  ASSUME NEW d, NEW products, NEW templates, DraftHolds(d, products, templates),
         NEW new, DraftFields \subseteq DOMAIN new, new.routes = d.routes,
         new.connections \subseteq d.connections, new.manualItems \subseteq d.manualItems
  PROVE  DraftHolds(new, products, templates)
<1>1. ConnectionsHold(d, products) /\ ManualItemsHold(d, products)
  BY DEF DraftHolds
<1>2. \A x \in new.connections : ConnectionHolds(d, x, products)
  BY <1>1 DEF ConnectionsHold
<1>3. \A x, y \in new.connections : x # y => x.id # y.id /\ ParticipantEnds(x) \cap ParticipantEnds(y) = {}
  BY <1>1 DEF ConnectionsHold
<1>4. ManualItemsHold(new, products)
  BY <1>1 DEF ManualItemsHold, Distinct
<1> QED
  BY <1>2, <1>3, <1>4, PartsReplaced

LEMMA FieldsOfPage ==
  ASSUME Page
  PROVE  DraftHolds(draft, Recorded, RecordedTemplates) /\ DraftFields \subseteq DOMAIN draft
BY DEF Page, DraftHolds

LEMMA ProjectEdits ==
  ASSUME Page, EditProject
  PROVE  Edited
<1>1. DraftHolds(draft, Recorded, RecordedTemplates) /\ DraftFields \subseteq DOMAIN draft
  BY FieldsOfPage
<1>2. CASE \E percent \in {0, 10, Blank} : SetReserve(percent)
  <2>1. PICK percent \in {0, 10, Blank} : SetReserve(percent)
    BY <1>2
  <2>2. PICK new : new = [draft EXCEPT !.reserve = percent]
    OBVIOUS
  <2>3. /\ DraftFields \subseteq DOMAIN new /\ new.routes = draft.routes
        /\ new.connections \subseteq draft.connections /\ new.manualItems \subseteq draft.manualItems
    BY <1>1, <2>2 DEF DraftFields
  <2>4. DraftHolds(new, Recorded, RecordedTemplates)
    BY <1>1, <2>3, PartsTaken
  <2> QED
    BY <2>1, <2>2, <2>4, ChangeEdits DEF SetReserve
<1>3. CASE \E load \in BOOLEAN : SetLoad(load)
  <2>1. PICK load \in BOOLEAN : SetLoad(load)
    BY <1>3
  <2>2. PICK new : new = [draft EXCEPT !.load = load]
    OBVIOUS
  <2>3. /\ DraftFields \subseteq DOMAIN new /\ new.routes = draft.routes
        /\ new.connections \subseteq draft.connections /\ new.manualItems \subseteq draft.manualItems
    BY <1>1, <2>2 DEF DraftFields
  <2>4. DraftHolds(new, Recorded, RecordedTemplates)
    BY <1>1, <2>3, PartsTaken
  <2> QED
    BY <2>1, <2>2, <2>4, ChangeEdits DEF SetLoad
<1>4. CASE \E p \in draft.accessories : RemoveAccessory(p)
  <2>1. PICK p \in draft.accessories : RemoveAccessory(p)
    BY <1>4
  <2>2. PICK new : new = [draft EXCEPT !.accessories = @ \ {p}]
    OBVIOUS
  <2>3. /\ DraftFields \subseteq DOMAIN new /\ new.routes = draft.routes
        /\ new.connections \subseteq draft.connections /\ new.manualItems \subseteq draft.manualItems
    BY <1>1, <2>2 DEF DraftFields
  <2>4. DraftHolds(new, Recorded, RecordedTemplates)
    BY <1>1, <2>3, PartsTaken
  <2> QED
    BY <2>1, <2>2, <2>4, ChangeEdits DEF RemoveAccessory
<1>5. CASE \E m \in draft.manualItems : RemoveManualItem(m)
  <2>1. PICK m \in draft.manualItems : RemoveManualItem(m)
    BY <1>5
  <2>2. PICK new : new = [draft EXCEPT !.manualItems = @ \ {m}]
    OBVIOUS
  <2>3. /\ DraftFields \subseteq DOMAIN new /\ new.routes = draft.routes
        /\ new.connections \subseteq draft.connections /\ new.manualItems \subseteq draft.manualItems
    BY <1>1, <2>2 DEF DraftFields
  <2>4. DraftHolds(new, Recorded, RecordedTemplates)
    BY <1>1, <2>3, PartsTaken
  <2> QED
    BY <2>1, <2>2, <2>4, ChangeEdits DEF RemoveManualItem
<1> QED
  BY <1>2, <1>3, <1>4, <1>5 DEF EditProject

\* The ends of a connection change their type: they stay the same ends.
LEMMA EndsRetyped ==
  ASSUME NEW d, NEW products, NEW templates, DraftHolds(d, products, templates), NEW ids, NEW type
  PROVE  LET new == WithEnds(d, ids, type)
         IN /\ DraftHolds(new, products, templates) /\ DraftFields \subseteq DOMAIN new
            /\ new.connections = d.connections /\ new.manualItems = d.manualItems
            /\ DOMAIN new.routes = DOMAIN d.routes
            /\ \A r \in DOMAIN d.routes, j \in 1..2 : EndId(new, r, j) = EndId(d, r, j)
<1> DEFINE End(r, j) == IF d.routes[r].ends[j].id \in ids
                        THEN [d.routes[r].ends[j] EXCEPT !.type = type, !.product = None]
                        ELSE d.routes[r].ends[j]
           EndPair(r) == [j \in 1..2 |-> End(r, j)]
           Route(r) == [d.routes[r] EXCEPT !.ends = EndPair(r)]
           routes == [r \in DOMAIN d.routes |-> Route(r)]
<1>1. PICK new : new = WithEnds(d, ids, type)
  OBVIOUS
<1>2. new = [d EXCEPT !.routes = routes]
  BY <1>1, Zenon DEF WithEnds
<1>3. PICK n \in Nat : n = Len(d.routes) /\ DOMAIN d.routes = 1..n
  BY SequenceParts DEF DraftHolds
<1>4. DraftFields \subseteq DOMAIN d
  BY DEF DraftHolds
<1>5. /\ DraftFields \subseteq DOMAIN new /\ new.routes = routes
      /\ new.connections = d.connections /\ new.manualItems = d.manualItems
  <2> HIDE DEF routes
  <2> QED
    BY <1>2, <1>4 DEF DraftFields
<1>6. DOMAIN new.routes = DOMAIN d.routes /\ \A r \in DOMAIN d.routes : new.routes[r] = Route(r)
  BY <1>5
<1>7. IsSequence(new.routes)
  <2>1. routes = [r \in 1..n |-> routes[r]]
    BY <1>3
  <2> HIDE DEF routes
  <2> QED
    BY <1>5, <2>1, SequenceOf
<1>8. ASSUME NEW r \in DOMAIN d.routes
      PROVE  SameIds(d.routes[r], new.routes[r]) /\ RouteHolds(new.routes[r], products, templates)
  <2>1. RouteHolds(d.routes[r], products, templates)
    BY DEF DraftHolds
  <2>2. ASSUME NEW j \in 1..2
        PROVE  End(r, j).id = d.routes[r].ends[j].id /\ EndHolds(End(r, j), products)
    <3>1. EndHolds(d.routes[r].ends[j], products)
      BY <2>1 DEF RouteHolds
    <3> QED
      BY <3>1 DEF EndHolds, IsEnd
  <2>3. PICK q, e : q = d.routes[r] /\ e = EndPair(r) /\ new.routes[r] = [q EXCEPT !.ends = e]
    BY <1>6
  <2>4. DOMAIN e = 1..2 /\ \A j \in 1..2 : e[j] = End(r, j)
    BY <2>3
  <2>5. PICK w : w = new.routes[r]
    OBVIOUS
  <2>6. /\ DOMAIN w = DOMAIN q /\ w.ends = e /\ w.geometry = q.geometry /\ w.supports = q.supports
        /\ w.selection = q.selection
    BY <2>1, <2>3, <2>5 DEF RouteHolds
  <2> HIDE DEF End
  <2>7. SameIds(q, w)
    BY <2>2, <2>3, <2>4, <2>6 DEF SameIds
  <2>8. ItemIds(w) = ItemIds(q)
    BY <2>6 DEF ItemIds
  <2>9. \A j \in 1..2 : EndHolds(w.ends[j], products)
    BY <2>2, <2>4, <2>6
  <2>10. RouteHolds(w, products, templates)
    BY <2>1, <2>3, <2>4, <2>6, <2>8, <2>9, Zenon DEF RouteHolds
  <2> QED
    BY <2>3, <2>5, <2>7, <2>10
<1>9. DraftHolds(new, products, templates)
  BY <1>5, <1>6, <1>7, <1>8, SameReferences
<1>10. \A r \in DOMAIN d.routes, j \in 1..2 : EndId(new, r, j) = EndId(d, r, j)
  BY <1>8 DEF SameIds, EndId
<1> QED
  BY <1>1, <1>5, <1>6, <1>9, <1>10

\* One connection is made or changed: the others stay.
LEMMA ConnectionReplaced ==
  ASSUME NEW d, NEW products, NEW templates, DraftHolds(d, products, templates),
         NEW new, DraftFields \subseteq DOMAIN new, new.routes = d.routes, new.manualItems = d.manualItems,
         NEW kept, kept \subseteq d.connections, NEW x, ConnectionHolds(d, x, products),
         \A y \in kept : y.id # x.id /\ ParticipantEnds(y) \cap ParticipantEnds(x) = {},
         new.connections = kept \cup {x}
  PROVE  DraftHolds(new, products, templates)
<1>1. ConnectionsHold(d, products) /\ ManualItemsHold(d, products)
  BY DEF DraftHolds
<1>2. \A y \in new.connections : ConnectionHolds(d, y, products)
  BY <1>1 DEF ConnectionsHold
<1>3. \A y, z \in new.connections : y # z => y.id # z.id /\ ParticipantEnds(y) \cap ParticipantEnds(z) = {}
  <2>1. \A y, z \in kept : y # z => y.id # z.id /\ ParticipantEnds(y) \cap ParticipantEnds(z) = {}
    BY <1>1 DEF ConnectionsHold
  <2> QED
    BY <2>1
<1>4. ManualItemsHold(new, products)
  BY <1>1 DEF ManualItemsHold
<1> QED
  BY <1>2, <1>3, <1>4, PartsReplaced

LEMMA SaveConnectionEdits ==
  ASSUME Page, NEW kind \in JoinKinds, NEW edited \in draft.connections \cup {NewConnection}, NEW n \in 2..3,
         NEW ends \in [1..n -> EndsOf(draft)], SaveConnection(edited, kind, ends)
  PROVE  Edited
<1> DEFINE participants == [i \in DOMAIN ends |-> [route |-> ends[i][1], endpoint |-> RouteAt(ends[i][1]).ends[ends[i][2]].id]]
           connection == [ id |-> IF edited.id = None THEN NewId ELSE edited.id, type |-> kind.type,
                           physicalBreak |-> kind.physicalBreak /\ kind.type # "logicalContinuation",
                           supports |-> kind.supports, participants |-> participants,
                           before |-> kind.before, after |-> kind.after, material |-> None,
                           corrections |-> edited.corrections ]
           freed == WithEnds(draft, ParticipantEnds(edited), "freeEnd")
           joined == WithEnds(freed, ParticipantEnds(connection), EndTypeFor(kind.type))
           new == [joined EXCEPT !.connections = { x \in @ : x.id # edited.id } \cup {connection}]
           kept == { x \in draft.connections : x.id # edited.id }
<1>1. Participates(edited, kind.type, ends) /\ Unused(1) # {} /\ Change(new)
  BY DEF SaveConnection
<1>2. DraftHolds(draft, Recorded, RecordedTemplates) /\ DraftFields \subseteq DOMAIN draft
  BY FieldsOfPage
<1> HIDE DEF participants, connection, freed, joined, new, kept
<1>3. /\ DraftHolds(freed, Recorded, RecordedTemplates) /\ DraftFields \subseteq DOMAIN freed
      /\ freed.connections = draft.connections /\ freed.manualItems = draft.manualItems
      /\ DOMAIN freed.routes = DOMAIN draft.routes
      /\ \A r \in DOMAIN draft.routes, j \in 1..2 : EndId(freed, r, j) = EndId(draft, r, j)
  BY <1>2, EndsRetyped DEF freed
<1>4. /\ DraftHolds(joined, Recorded, RecordedTemplates) /\ DraftFields \subseteq DOMAIN joined
      /\ joined.connections = freed.connections /\ joined.manualItems = freed.manualItems
      /\ DOMAIN joined.routes = DOMAIN freed.routes
      /\ \A r \in DOMAIN freed.routes, j \in 1..2 : EndId(joined, r, j) = EndId(freed, r, j)
  BY <1>3, EndsRetyped DEF joined
<1>5. ASSUME NEW i \in 1..n
      PROVE  /\ ends[i][1] \in DOMAIN draft.routes /\ ends[i][2] \in 1..2
             /\ AtEnd(draft, participants[i], ends[i][1], ends[i][2])
             /\ participants[i].route = ends[i][1]
             /\ participants[i].endpoint = RouteAt(ends[i][1]).ends[ends[i][2]].id
  <2>1. ends[i] \in EndsOf(draft)
    OBVIOUS
  <2>2. ends[i][1] \in DOMAIN draft.routes /\ ends[i][2] \in 1..2
    BY <2>1 DEF EndsOf
  <2>3. participants[i] = [route |-> ends[i][1], endpoint |-> RouteAt(ends[i][1]).ends[ends[i][2]].id]
    BY DEF participants
  <2> QED
    BY <2>2, <2>3 DEF AtEnd, EndId, RouteAt
<1>6. n \in Nat /\ Len(ends) = n /\ DOMAIN ends = 1..n
  OBVIOUS
<1>7. IsSequence(participants) /\ Len(participants) = n /\ DOMAIN participants = 1..n
  <2>1. participants = [i \in 1..n |-> participants[i]]
    BY <1>6 DEF participants
  <2> QED
    BY <1>6, <2>1, SequenceOf
<1>8. /\ connection.id = (IF edited.id = None THEN NewId ELSE edited.id) /\ connection.type = kind.type
      /\ connection.participants = participants /\ connection.material = None
      /\ connection.corrections = edited.corrections
      /\ {"id", "type", "physicalBreak", "supports", "participants", "before", "after", "material", "corrections"}
           \subseteq DOMAIN connection
  BY DEF connection
<1>9. Joins(draft, connection)
  <2>1. Len(connection.participants) \in MayJoin(connection.type)
    BY <1>1, <1>6, <1>7, <1>8 DEF Participates, MayJoin
  <2>2. \A i \in DOMAIN connection.participants :
          \E r \in DOMAIN draft.routes, j \in 1..2 : AtEnd(draft, connection.participants[i], r, j)
    BY <1>5, <1>7, <1>8
  <2>3. \A i, k \in 1..n : participants[i].route = participants[k].route => i = k
    BY <1>1, <1>5, <1>6 DEF Participates
  <2>4. ASSUME n = 2, NEW r \in DOMAIN draft.routes, NEW q \in DOMAIN draft.routes, NEW j \in 1..2,
               AtEnd(draft, participants[1], r, j), AtEnd(draft, participants[2], q, j)
        PROVE  FALSE
    <3>1. 1 \in 1..n /\ 2 \in 1..n /\ ends[1][2] # ends[2][2]
      BY <1>1, <1>6, <2>4 DEF Participates
    <3>2. EndsDiffer(draft)
      BY <1>2 DEF DraftHolds
    <3>3. AtEnd(draft, participants[1], ends[1][1], ends[1][2]) /\ AtEnd(draft, participants[2], ends[2][1], ends[2][2])
      BY <1>5, <3>1
    <3>4. ends[1][2] = j
      BY <2>4, <3>2, <3>3 DEF AtEnd, EndsDiffer
    <3>5. ends[2][2] = j
      BY <2>4, <3>2, <3>3 DEF AtEnd, EndsDiffer
    <3> QED
      BY <3>1, <3>4, <3>5
  <2>5. Distinct(connection.corrections, LAMBDA k : k.product)
    <3>1. CASE edited \in draft.connections
      <4>1. Joins(draft, edited)
        BY <1>2, <3>1 DEF DraftHolds, ConnectionsHold, ConnectionHolds
      <4> QED
        BY <1>8, <4>1 DEF Joins, Distinct
    <3>2. CASE edited = NewConnection
      BY <1>8, <3>2 DEF NewConnection, Distinct
    <3> QED
      BY <3>1, <3>2
  <2>6. DOMAIN connection.participants = 1..n
    BY <1>7, <1>8
  <2>7. Len(connection.participants) = 2 =>
          \A r, q \in DOMAIN draft.routes, j \in 1..2 :
            ~(AtEnd(draft, connection.participants[1], r, j) /\ AtEnd(draft, connection.participants[2], q, j))
    BY <1>7, <1>8, <2>4
  <2>8. \A i, k \in DOMAIN connection.participants : connection.participants[i].route = connection.participants[k].route => i = k
    BY <1>8, <2>3, <2>6
  <2> QED
    BY <2>1, <2>2, <2>5, <2>7, <2>8, Zenon DEF Joins
<1>10. \A r \in DOMAIN draft.routes, j \in 1..2 : EndId(joined, r, j) = EndId(draft, r, j)
  BY <1>3, <1>4
<1>11. DOMAIN joined.routes = DOMAIN draft.routes
  BY <1>3, <1>4
<1>12. ConnectionHolds(joined, connection, Recorded)
  <2>1. Joins(joined, connection)
    BY <1>9, <1>10, <1>11, RoutesJoin
  <2> QED
    BY <1>7, <1>8, <2>1 DEF ConnectionHolds, IsConnection
<1>13. ASSUME NEW y \in kept
       PROVE  y.id # connection.id /\ ParticipantEnds(y) \cap ParticipantEnds(connection) = {}
  <2>1. y \in draft.connections /\ y.id # edited.id
    BY DEF kept
  <2>2. y.id # connection.id
    <3>1. CASE edited.id = None
      <4>1. NewId \notin Identifiers
        BY <1>1, NewIdIsNew
      <4>2. y.id \in Identifiers
        BY <2>1 DEF Identifiers
      <4> QED
        BY <1>8, <3>1, <4>1, <4>2
    <3>2. CASE edited.id # None
      BY <1>8, <2>1, <3>2
    <3> QED
      BY <3>1, <3>2
  <2>3. \A i \in 1..n : RouteAt(ends[i][1]).ends[ends[i][2]].id \notin ParticipantEnds(y)
    BY <1>1, <1>6, <2>1 DEF Participates
  <2>4. ParticipantEnds(connection) = { participants[i].endpoint : i \in 1..n }
    BY <1>7, <1>8 DEF ParticipantEnds
  <2>5. \A e \in ParticipantEnds(connection) : e \notin ParticipantEnds(y)
    BY <1>5, <2>3, <2>4
  <2> QED
    BY <2>2, <2>5
<1>14. /\ DraftFields \subseteq DOMAIN new /\ new.routes = joined.routes /\ new.manualItems = joined.manualItems
       /\ new.connections = { x \in joined.connections : x.id # edited.id } \cup {connection}
  BY <1>4 DEF new, DraftFields
<1>15. new.connections = kept \cup {connection} /\ kept \subseteq joined.connections
  BY <1>3, <1>4, <1>14 DEF kept
<1>16. DraftHolds(new, Recorded, RecordedTemplates)
  BY <1>4, <1>12, <1>13, <1>14, <1>15, ConnectionReplaced
<1> QED
  BY <1>1, <1>16, ChangeEdits

LEMMA OldConnectionEdits ==
  ASSUME Page, NEW x \in draft.connections,
         RemoveConnection(x) \/ \E k \in x.corrections : RemoveCorrection(x, k)
  PROVE  Edited
<1>1. DraftHolds(draft, Recorded, RecordedTemplates) /\ DraftFields \subseteq DOMAIN draft
  BY FieldsOfPage
<1>2. CASE RemoveConnection(x)
  <2>1. PICK d : d = WithEnds(draft, ParticipantEnds(x), "freeEnd")
    OBVIOUS
  <2>2. PICK new : new = [d EXCEPT !.connections = @ \ {x}]
    OBVIOUS
  <2>3. DraftHolds(d, Recorded, RecordedTemplates) /\ DraftFields \subseteq DOMAIN d
    BY <1>1, <2>1, EndsRetyped
  <2>4. /\ DraftFields \subseteq DOMAIN new /\ new.routes = d.routes
        /\ new.connections \subseteq d.connections /\ new.manualItems \subseteq d.manualItems
    BY <2>2, <2>3 DEF DraftFields
  <2>5. DraftHolds(new, Recorded, RecordedTemplates)
    BY <2>3, <2>4, PartsTaken
  <2> QED
    BY <1>2, <2>1, <2>2, <2>5, ChangeEdits DEF RemoveConnection
<1>3. CASE \E k \in x.corrections : RemoveCorrection(x, k)
  <2>1. PICK k \in x.corrections : RemoveCorrection(x, k)
    BY <1>3
  <2>2. PICK y : y = [x EXCEPT !.corrections = @ \ {k}]
    OBVIOUS
  <2>3. PICK kept : kept = draft.connections \ {x}
    OBVIOUS
  <2>4. PICK new : new = [draft EXCEPT !.connections = kept \cup {y}]
    OBVIOUS
  <2>5. Change(new)
    BY <2>1, <2>2, <2>3, <2>4 DEF RemoveCorrection
  <2>6. ConnectionHolds(draft, x, Recorded)
    BY <1>1 DEF DraftHolds, ConnectionsHold
  <2>7. /\ DOMAIN y = DOMAIN x /\ y.id = x.id /\ y.type = x.type /\ y.material = x.material
        /\ y.participants = x.participants /\ y.corrections \subseteq x.corrections
    BY <2>2, <2>6 DEF ConnectionHolds, IsConnection
  <2>8. ConnectionHolds(draft, y, Recorded)
    <3>1. IsConnection(y) /\ y.material \in Recorded \cup {None}
      BY <2>6, <2>7 DEF ConnectionHolds, IsConnection
    <3>2. Distinct(y.corrections, LAMBDA c : c.product)
      BY <2>6, <2>7 DEF ConnectionHolds, Joins, Distinct
    <3>3. Joins(draft, x)
      BY <2>6 DEF ConnectionHolds
    <3>4. Joins(draft, y)
      BY <2>7, <3>2, <3>3, Zenon DEF Joins
    <3> QED
      BY <3>1, <3>4 DEF ConnectionHolds
  <2>9. ASSUME NEW z \in kept
        PROVE  z.id # y.id /\ ParticipantEnds(z) \cap ParticipantEnds(y) = {}
    <3>1. z.id # x.id /\ ParticipantEnds(z) \cap ParticipantEnds(x) = {}
      BY <1>1, <2>3, <2>9 DEF DraftHolds, ConnectionsHold
    <3>2. ParticipantEnds(y) = ParticipantEnds(x)
      BY <2>7 DEF ParticipantEnds
    <3> QED
      BY <2>7, <3>1, <3>2
  <2>10. /\ DraftFields \subseteq DOMAIN new /\ new.routes = draft.routes /\ new.manualItems = draft.manualItems
         /\ new.connections = kept \cup {y} /\ kept \subseteq draft.connections
    BY <1>1, <2>3, <2>4 DEF DraftFields
  <2>11. DraftHolds(new, Recorded, RecordedTemplates)
    BY <1>1, <2>8, <2>9, <2>10, ConnectionReplaced
  <2> QED
    BY <2>5, <2>11, ChangeEdits
<1> QED
  BY <1>2, <1>3

\* The form of a manual item names a product that is on record.
FormFits(f) == "product" \in DOMAIN f /\ f.product \in Recorded \cup {None}
Filled == FormFits(form') /\ UNCHANGED <<draft, catalog, shown>>

LEMMA SaveManualItemEdits ==
  ASSUME Page, FormFits(form), NEW n \in Counts, NEW reserve, NEW override, SaveManualItem(n, reserve, override)
  PROVE  Edited
<1> DEFINE item == [ id |-> IF form.id = None THEN NewId ELSE form.id,
                product |-> IF form.free THEN None ELSE form.product, quantity |-> Whole(n), unit |-> form.unit,
                override |-> IF override THEN "override" ELSE None, adjusted |-> IF override THEN Whole(n + 1) ELSE Zero,
                reserve |-> IF reserve = "projectDefault" THEN ProjectReserve
                            ELSE <<reserve, IF reserve = "disabled" THEN 0 ELSE 50, "reserve">>,
                packaging |-> IF form.packaging = "catalogDefault" THEN CatalogPackaging
                              ELSE IF form.packaging = "disabled" THEN <<"disabled", Zero, None>>
                              ELSE <<"incrementOverride", Whole(2), "packaging">> ]
           new == [draft EXCEPT !.manualItems = { m \in @ : m.id # item.id } \cup {item}]
<1>1. draft' = Reconciled(new) /\ form' = NoForm /\ UNCHANGED <<catalog, shown>>
  BY DEF SaveManualItem
<1>2. item.product \in Recorded \cup {None}
  BY DEF FormFits
<1> HIDE DEF item
<1>3. DraftHolds(draft, Recorded, RecordedTemplates) /\ DraftFields \subseteq DOMAIN draft
  BY FieldsOfPage
<1>4. /\ DraftFields \subseteq DOMAIN new /\ new.routes = draft.routes /\ new.connections = draft.connections
      /\ new.manualItems = { m \in draft.manualItems : m.id # item.id } \cup {item}
  BY <1>3 DEF DraftFields
<1> HIDE DEF new
<1>5. ManualItemsHold(new, Recorded)
  <2>1. ManualItemsHold(draft, Recorded)
    BY <1>3 DEF DraftHolds
  <2>2. Distinct(new.manualItems, LAMBDA m : m.id)
    BY <1>4, <2>1 DEF ManualItemsHold, Distinct
  <2> QED
    BY <1>2, <1>4, <2>1, <2>2 DEF ManualItemsHold
<1>6. \A x \in new.connections : ConnectionHolds(draft, x, Recorded)
  BY <1>3, <1>4 DEF DraftHolds, ConnectionsHold
<1>7. \A x, y \in new.connections : x # y => x.id # y.id /\ ParticipantEnds(x) \cap ParticipantEnds(y) = {}
  BY <1>3, <1>4 DEF DraftHolds, ConnectionsHold
<1>8. DraftHolds(new, Recorded, RecordedTemplates)
  BY <1>3, <1>4, <1>5, <1>6, <1>7, PartsReplaced
<1> QED
  BY <1>1, <1>8 DEF Edited

LEMMA EmptyFormFits ==
  FormFits(NoForm)
BY DEF FormFits, NoForm

LEMMA ManualItemEdits ==
  ASSUME Page, FormFits(form), EditManualItems
  PROVE  Edited \/ Filled
<1>1. ASSUME NEW f, FormFits(f), Fill(f)
      PROVE  Filled
  BY <1>1, Zenon DEF Filled, Fill
<1>2. CASE \E m \in draft.manualItems : EditManualItem(m)
  <2>1. PICK m \in draft.manualItems : EditManualItem(m)
    BY <1>2
  <2>2. m.product \in Recorded \cup {None}
    BY DEF Page, DraftHolds, ManualItemsHold
  <2>3. FormFits([id |-> m.id, product |-> m.product, free |-> m.product = None, unit |-> m.unit, packaging |-> m.packaging[1]])
    BY <2>2 DEF FormFits
  <2> QED
    BY <1>1, <2>1, <2>3 DEF EditManualItem
<1>3. CASE CancelManualItem
  BY <1>1, <1>3, EmptyFormFits DEF CancelManualItem
<1>4. CASE SwitchKind
  <2>1. FormFits([form EXCEPT !.free = ~@,
                              !.packaging = IF ~form.free /\ @ = "catalogDefault" THEN "disabled" ELSE @])
    BY DEF FormFits
  <2> QED
    BY <1>1, <1>4, <2>1 DEF SwitchKind
<1>5. CASE \E p \in Selectable \cup {None} : ChooseProduct(p)
  <2>1. PICK p \in Selectable \cup {None} : ChooseProduct(p)
    BY <1>5
  <2>2. p \in Recorded \cup {None}
    BY OfferedIsRecorded
  <2>3. FormFits([form EXCEPT !.product = p, !.unit = IF p = None THEN @ ELSE shown.products[p].unit])
    BY <2>2 DEF FormFits
  <2> QED
    BY <1>1, <2>1, <2>3 DEF ChooseProduct
<1>6. CASE \E unit \in {"pcs", "m", "kg"} : ChooseUnit(unit)
  <2>1. PICK unit \in {"pcs", "m", "kg"} : ChooseUnit(unit)
    BY <1>6
  <2>2. FormFits([form EXCEPT !.unit = unit])
    BY DEF FormFits
  <2> QED
    BY <1>1, <2>1, <2>2 DEF ChooseUnit
<1>7. CASE \E mode \in {"catalogDefault", "disabled", "incrementOverride"} : ChoosePackaging(mode)
  <2>1. PICK mode \in {"catalogDefault", "disabled", "incrementOverride"} : ChoosePackaging(mode)
    BY <1>7
  <2>2. FormFits([form EXCEPT !.packaging = mode])
    BY DEF FormFits
  <2> QED
    BY <1>1, <2>1, <2>2 DEF ChoosePackaging
<1>8. CASE \E n \in Counts, reserve \in {"projectDefault", "disabled", "percentageOverride"}, override \in BOOLEAN :
             SaveManualItem(n, reserve, override)
  BY <1>8, SaveManualItemEdits
<1> QED
  BY <1>2, <1>3, <1>4, <1>5, <1>6, <1>7, <1>8 DEF EditManualItems

\* Whatever is edited, the page then holds a draft that holds together, reconciled.
LEMMA EditsAreEdits ==
  ASSUME Page, FormFits(form), Edit
  PROVE  Edited \/ Filled
<1>1. CASE EditProject
  BY <1>1, ProjectEdits
<1>2. CASE EditRoutes
  <2>1. CASE \E code \in RouteCodes : AddRoute(code)
    BY <2>1, AddRouteEdits
  <2>2. ASSUME NEW r \in DOMAIN draft.routes,
               \/ RemoveRoute(r) \/ CopyRoute(r) \/ ChooseStraight(r) \/ ChooseSupply(r)
               \/ \E code \in RouteCodes \cup {None} : SetCode(r, code)
               \/ \E k \in 1..4 : ChoosePart(r, k)
        PROVE  Edited
    BY <2>2, RemoveRouteEdits, CopyRouteEdits, RouteFieldEdits
  <2> QED
    BY <1>2, <2>1, <2>2, Zenon DEF EditRoutes
<1>3. CASE EditGeometry
  <2>1. PICK r \in DOMAIN draft.routes :
    \/ \E kind \in {"straight", "fitting"} : AddItem(r, kind)
    \/ \E i \in DOMAIN RouteAt(r).geometry :
         \/ \E length \in Lengths : SetLength(r, i, length)
         \/ \E type \in FittingTypes : SetFittingType(r, i, type)
         \/ ChooseItemSupply(r, i) \/ ClearFitting(r, i) \/ DescribeFitting(r, i)
         \/ MoveDown(r, i) \/ RemoveItem(r, i)
    \/ \E j \in 1..2 : \/ \E type \in EndTypes : SetEndType(r, j, type)
                       \/ ClearEndMaterial(r, j) \/ EnterEndText(r, j)
    BY <1>3, Zenon DEF EditGeometry
  <2>2. CASE \E kind \in {"straight", "fitting"} : AddItem(r, kind)
    BY <2>2, ItemListEdits
  <2>3. CASE \E i \in DOMAIN RouteAt(r).geometry : MoveDown(r, i) \/ RemoveItem(r, i)
    BY <2>3, ItemListEdits
  <2>4. ASSUME NEW i \in DOMAIN RouteAt(r).geometry,
               \/ \E length \in Lengths : SetLength(r, i, length)
               \/ \E type \in FittingTypes : SetFittingType(r, i, type)
               \/ ChooseItemSupply(r, i) \/ ClearFitting(r, i) \/ DescribeFitting(r, i)
        PROVE  Edited
    BY <2>4, PlainItemEdits
  <2>5. ASSUME NEW j \in 1..2,
               \/ \E type \in EndTypes : SetEndType(r, j, type)
               \/ ClearEndMaterial(r, j) \/ EnterEndText(r, j)
        PROVE  Edited
    BY <2>5, EndEdits
  <2> QED
    BY <2>1, <2>2, <2>3, <2>4, <2>5, Zenon
<1>4. CASE EditConnections
  BY <1>4, SaveConnectionEdits, OldConnectionEdits, Zenon DEF EditConnections
<1>5. CASE EditSupports
  <2>1. PICK r \in DOMAIN draft.routes :
    \/ \E spacing \in Lengths \cup {Zero} : SetSpacing(r, spacing)
    \/ \E type \in SupportTypes \cup {None} : ChooseType(r, type)
    \/ \E substrate \in Substrates \cup {None} : ChooseSubstrate(r, substrate)
    \/ \E mode \in {"one", "two", "custom", None} : ChooseWstbMode(r, mode)
    \/ \E n \in Counts : \/ SetLevels(r, n) \/ SetWstbQuantity(r, n) \/ SetManualValue(r, n)
                         \/ SetAnchorOverride(r, n)
    \/ \E n \in Counts \cup {Blank} : AddExtra(r, n)
    \/ \E x \in SupportsAt(r).extras : RemoveExtra(r, x)
    \/ ChooseTemplate(r) \/ ChooseSupport(r) \/ ChooseAnchor(r) \/ ChooseWstb(r) \/ OverrideAnchors(r)
    BY <1>5, Zenon DEF EditSupports
  <2>2. CASE \/ \E spacing \in Lengths \cup {Zero} : SetSpacing(r, spacing)
             \/ \E type \in SupportTypes \cup {None} : ChooseType(r, type)
             \/ \E substrate \in Substrates \cup {None} : ChooseSubstrate(r, substrate)
             \/ \E mode \in {"one", "two", "custom", None} : ChooseWstbMode(r, mode)
             \/ \E n \in Counts : \/ SetLevels(r, n) \/ SetWstbQuantity(r, n) \/ SetAnchorOverride(r, n)
             \/ ChooseTemplate(r) \/ ChooseSupport(r) \/ ChooseAnchor(r) \/ ChooseWstb(r) \/ OverrideAnchors(r)
    BY <2>2, PlainSupportEdits
  <2>3. CASE \/ \E n \in Counts : SetManualValue(r, n)
             \/ \E n \in Counts \cup {Blank} : AddExtra(r, n)
             \/ \E x \in SupportsAt(r).extras : RemoveExtra(r, x)
    BY <2>3, ListSupportEdits
  <2> QED
    BY <2>1, <2>2, <2>3, Zenon
<1>6. CASE EditManualItems
  BY <1>6, ManualItemEdits
<1> QED
  BY <1>1, <1>2, <1>3, <1>4, <1>5, <1>6 DEF Edit

---------------------------------------------------------------------------
(* Reconciling: what it keeps, and that once is enough.                                    *)

LEMMA SameFields ==
  ASSUME NEW s, NEW t, s = [x \in DOMAIN s |-> s[x]], t = [x \in DOMAIN t |-> t[x]],
         DOMAIN s = DOMAIN t, \A x \in DOMAIN s : s[x] = t[x]
  PROVE  s = t
<1>1. t = [x \in DOMAIN s |-> s[x]]
  BY Zenon
<1> QED
  BY <1>1

LEMMA KeepTwice ==
  \A x, S : Keep(x, S) \in {x, None} /\ Keep(Keep(x, S), S) = Keep(x, S) /\ Keep(None, S) = None
BY DEF Keep

LEMMA SupportsReconciled ==
  ASSUME NEW s, NEW system, NEW ids, NEW products, NEW templates, SupportsHold(s, ids, products, templates)
  PROVE  SupportsHold(ReconciledSupports(s, system), ids, products, templates)
<1>1. PICK t : t = ReconciledSupports(s, system)
  OBVIOUS
<1>2. IsSupports(s)
  BY DEF SupportsHold
<1>3. /\ DOMAIN t = DOMAIN s /\ t.template \in {s.template, None} /\ t.anchor \in {s.anchor, None}
      /\ t.manualValues \subseteq s.manualValues
      /\ t.extras = s.extras /\ t.spacing = s.spacing /\ t.type = s.type /\ t.substrate = s.substrate
      /\ t.wstbMode = s.wstbMode /\ t.wstbQuantity = s.wstbQuantity /\ t.anchorOverride = s.anchorOverride
  <2>1. CASE Applies(s.template, s, system)
    <3>1. PICK p, a, w, l, m : /\ a = Keep(s.anchor, AnchorProducts(s.template, s.substrate))
                               /\ m = { v \in s.manualValues : \E x \in ManualComponents(s.template) :
                                                x.id = v.component /\ x.unit = v.unit }
                               /\ t = [s EXCEPT !.product = p, !.anchor = a, !.wstb = w, !.levels = l, !.manualValues = m]
      BY <1>1, <2>1 DEF ReconciledSupports
    <3>2. a \in {s.anchor, None} /\ m \subseteq s.manualValues
      BY <3>1, KeepTwice
    <3> QED
      BY <1>2, <3>1, <3>2 DEF IsSupports
  <2>2. CASE ~Applies(s.template, s, system)
    <3>1. t = [s EXCEPT !.template = None, !.product = None, !.anchor = None, !.wstb = None, !.levels = 0,
                 !.manualValues = {}]
      BY <1>1, <2>2 DEF ReconciledSupports
    <3> QED
      BY <1>2, <3>1 DEF IsSupports
  <2> QED
    BY <2>1, <2>2
<1>4. IsSupports(t)
  BY <1>2, <1>3 DEF IsSupports
<1>5. Distinct(t.manualValues, LAMBDA v : v.component) /\ Distinct(t.extras, LAMBDA x : x.id)
  BY <1>3 DEF SupportsHold, Distinct
<1> QED
  BY <1>1, <1>3, <1>4, <1>5 DEF SupportsHold

LEMMA SupportsOnce ==
  ASSUME NEW s, NEW system, IsSupports(s)
  PROVE  ReconciledSupports(ReconciledSupports(s, system), system) = ReconciledSupports(s, system)
<1> DEFINE Values(S, template) == { v \in S : \E x \in ManualComponents(template) : x.id = v.component /\ x.unit = v.unit }
<1>1. PICK t : t = ReconciledSupports(s, system)
  OBVIOUS
<1>2. PICK u : u = ReconciledSupports(t, system)
  OBVIOUS
<1>3. CASE Applies(s.template, s, system)
  <2>1. PICK p, a, w, l, m : /\ p = Keep(s.product, ComponentProducts(s.template, "support"))
                             /\ a = Keep(s.anchor, AnchorProducts(s.template, s.substrate))
                             /\ w = Keep(s.wstb, ComponentProducts(s.template, "wstb"))
                             /\ l = (IF HasLevels(s.template) THEN s.levels ELSE 0)
                             /\ m = Values(s.manualValues, s.template)
    OBVIOUS
  <2>2. t = [s EXCEPT !.product = p, !.anchor = a, !.wstb = w, !.levels = l, !.manualValues = m]
    BY <1>1, <1>3, <2>1 DEF ReconciledSupports
  <2>3. /\ DOMAIN t = DOMAIN s /\ t.template = s.template /\ t.type = s.type /\ t.substrate = s.substrate
        /\ t.product = p /\ t.anchor = a /\ t.wstb = w /\ t.levels = l /\ t.manualValues = m
        /\ t = [x \in DOMAIN t |-> t[x]]
    <3> HIDE DEF Values
    <3> QED
      BY <2>2 DEF IsSupports
  <2>4. Applies(t.template, t, system)
    BY <1>3, <2>3 DEF Applies
  <2>5. u = [t EXCEPT !.product = Keep(p, ComponentProducts(t.template, "support")),
                      !.anchor = Keep(a, AnchorProducts(t.template, t.substrate)),
                      !.wstb = Keep(w, ComponentProducts(t.template, "wstb")),
                      !.levels = IF HasLevels(t.template) THEN l ELSE 0,
                      !.manualValues = Values(m, t.template)]
    BY <1>2, <2>3, <2>4 DEF ReconciledSupports
  <2>6. /\ Keep(p, ComponentProducts(t.template, "support")) = p
        /\ Keep(a, AnchorProducts(t.template, t.substrate)) = a
        /\ Keep(w, ComponentProducts(t.template, "wstb")) = w
    BY <2>1, <2>3, KeepTwice
  <2>7. (IF HasLevels(t.template) THEN l ELSE 0) = l /\ Values(m, t.template) = m
    BY <2>1, <2>3
  <2> HIDE DEF Values
  <2>8. u = [t EXCEPT !.product = p, !.anchor = a, !.wstb = w, !.levels = l, !.manualValues = m]
    BY <2>5, <2>6, <2>7
  <2>9. DOMAIN u = DOMAIN t /\ u = [x \in DOMAIN u |-> u[x]] /\ \A x \in DOMAIN t : u[x] = t[x]
    BY <2>3, <2>8
  <2> QED
    BY <1>1, <1>2, <2>3, <2>9, SameFields
<1>4. CASE ~Applies(s.template, s, system)
  <2>2. t = [s EXCEPT !.template = None, !.product = None, !.anchor = None, !.wstb = None, !.levels = 0,
                      !.manualValues = {}]
    BY <1>1, <1>4 DEF ReconciledSupports
  <2>3. /\ DOMAIN t = DOMAIN s /\ t.template = None /\ t.product = None /\ t.anchor = None /\ t.wstb = None
        /\ t.levels = 0 /\ t.manualValues = {} /\ t = [x \in DOMAIN t |-> t[x]]
    BY <2>2 DEF IsSupports
  <2>4. \/ u = [t EXCEPT !.template = None, !.product = None, !.anchor = None, !.wstb = None, !.levels = 0,
                         !.manualValues = {}]
        \/ u = [t EXCEPT !.product = None, !.anchor = None, !.wstb = None, !.levels = 0, !.manualValues = {}]
    <3>1. CASE ~Applies(t.template, t, system)
      BY <1>2, <3>1 DEF ReconciledSupports
    <3>2. CASE Applies(t.template, t, system)
      <4>1. u = [t EXCEPT !.product = Keep(t.product, ComponentProducts(t.template, "support")),
                      !.anchor = Keep(t.anchor, AnchorProducts(t.template, t.substrate)),
                      !.wstb = Keep(t.wstb, ComponentProducts(t.template, "wstb")),
                      !.levels = IF HasLevels(t.template) THEN t.levels ELSE 0,
                      !.manualValues = Values(t.manualValues, t.template)]
        BY <1>2, <3>2 DEF ReconciledSupports
      <4>2. /\ Keep(t.product, ComponentProducts(t.template, "support")) = None
            /\ Keep(t.anchor, AnchorProducts(t.template, t.substrate)) = None
            /\ Keep(t.wstb, ComponentProducts(t.template, "wstb")) = None
        BY <2>3, KeepTwice
      <4>3. (IF HasLevels(t.template) THEN t.levels ELSE 0) = 0 /\ Values(t.manualValues, t.template) = {}
        BY <2>3
      <4> HIDE DEF Values
      <4> QED
        BY <4>1, <4>2, <4>3
    <3> QED
      BY <3>1, <3>2
  <2>5. DOMAIN u = DOMAIN t /\ u = [x \in DOMAIN u |-> u[x]] /\ \A x \in DOMAIN t : u[x] = t[x]
    BY <2>3, <2>4
  <2> QED
    BY <1>1, <1>2, <2>3, <2>5, SameFields
<1> QED
  BY <1>3, <1>4

CatalogShown == shown = EditorCatalog(catalog) /\ IsCatalog(catalog)

LEMMA OfferedSelections ==
  ASSUME CatalogShown, NEW p \in StraightSections, NEW k \in 1..4
  PROVE  shown.products[p].selection[k] # None
<1>1. p \in Known(catalog) /\ shown.products[p] = EditorProduct(catalog, p) /\ shown.products[p].selection # << >>
  BY DEF CatalogShown, StraightSections, Selectable, EditorCatalog
<1>2. SelectionOf(catalog, p) # << >> /\ shown.products[p].selection = SelectionOf(catalog, p)
  BY <1>1 DEF EditorProduct
<1> DEFINE rules == { rule \in catalog.compatibility : rule.type = "selection" /\ rule.allowed /\ rule.source = p }
<1>3. rules # {} /\ None \notin Range((CHOOSE rule \in rules : TRUE).selection)
      /\ SelectionOf(catalog, p) = (CHOOSE rule \in rules : TRUE).selection
  BY <1>2, Zenon DEF SelectionOf
<1>4. PICK rule \in rules : rule = (CHOOSE x \in rules : TRUE)
  BY <1>3
<1>5. IsSequence(rule.selection) /\ Len(rule.selection) = 4
  BY DEF CatalogShown, IsCatalog
<1>6. DOMAIN rule.selection = 1..4
  BY <1>5, SequenceParts
<1> QED
  BY <1>2, <1>3, <1>4, <1>6 DEF Range

\* How many parts of a selection are kept.
KeptParts(selection) == Max({0} \cup { n \in 1..4 : Matching(selection, n) # {} })

LEMMA PartsKept ==
  ASSUME NEW selection
  PROVE  /\ KeptParts(selection) \in 0..4
         /\ \A n \in 1..4 : Matching(selection, n) # {} => n <= KeptParts(selection)
<1> DEFINE S == {0} \cup { n \in 1..4 : Matching(selection, n) # {} }
<1>1. S \subseteq 0..4 /\ 0 \in S
  OBVIOUS
<1> HIDE DEF S
<1>2. \E x \in S : \A y \in S : x >= y
  <2>1. CASE 4 \in S
    BY <1>1, <2>1
  <2>2. CASE 4 \notin S /\ 3 \in S
    BY <1>1, <2>2
  <2>3. CASE 4 \notin S /\ 3 \notin S /\ 2 \in S
    BY <1>1, <2>3
  <2>4. CASE 4 \notin S /\ 3 \notin S /\ 2 \notin S /\ 1 \in S
    BY <1>1, <2>4
  <2>5. CASE 4 \notin S /\ 3 \notin S /\ 2 \notin S /\ 1 \notin S
    BY <1>1, <2>5
  <2> QED
    BY <2>1, <2>2, <2>3, <2>4, <2>5
<1>3. Max(S) \in S /\ \A y \in S : Max(S) >= y
  BY <1>2 DEF Max
<1>4. KeptParts(selection) = Max(S)
  BY DEF KeptParts, S
<1>5. \A n \in 1..4 : Matching(selection, n) # {} => n \in S
  BY DEF S
<1>6. PICK m : m = Max(S)
  OBVIOUS
<1> QED
  BY <1>1, <1>3, <1>4, <1>5, <1>6

LEMMA SelectionOnce ==
  ASSUME CatalogShown, NEW route, DOMAIN route.selection = 1..4,
         {"selection", "straight", "option"} \subseteq DOMAIN route,
         NEW new, new = ReconciledSelection(route), NEW again, again.selection = new.selection,
         again.straight = new.straight, again.option = new.option,
         {"selection", "straight", "option"} \subseteq DOMAIN again, again = [x \in DOMAIN again |-> again[x]]
  PROVE  /\ DOMAIN new = DOMAIN route /\ new = [x \in DOMAIN new |-> new[x]]
         /\ DOMAIN new.selection = 1..4
         /\ \A x \in DOMAIN route \ {"selection", "straight", "option"} : new[x] = route[x]
         /\ ReconciledSelection(again) = again
<1> DEFINE kept == KeptParts(route.selection)
           selection == [k \in 1..4 |-> IF k <= kept THEN route.selection[k] ELSE None]
           straight == IF kept = 4 THEN Keep(route.straight, Matching(route.selection, 4)) ELSE None
           option == Keep(route.option, OptionsShown(straight))
<1>1. new = [route EXCEPT !.selection = selection, !.straight = straight, !.option = option]
  BY DEF ReconciledSelection, KeptParts
<1>2. kept \in 0..4 /\ \A n \in 1..4 : Matching(route.selection, n) # {} => n <= kept
  BY PartsKept
<1> HIDE DEF kept
<1>3. /\ DOMAIN new = DOMAIN route /\ new = [x \in DOMAIN new |-> new[x]]
      /\ new.selection = selection /\ new.straight = straight /\ new.option = option
      /\ \A x \in DOMAIN route \ {"selection", "straight", "option"} : new[x] = route[x]
  <2> HIDE DEF selection, straight, option
  <2> QED
    BY <1>1
<1>4. DOMAIN selection = 1..4 /\ \A k \in 1..4 : selection[k] = IF k <= kept THEN route.selection[k] ELSE None
  OBVIOUS
<1> HIDE DEF selection
<1>5. ASSUME NEW n \in 1..4, n <= kept
      PROVE  Matching(selection, n) = Matching(route.selection, n)
  <2>1. \A k \in 1..n : selection[k] = route.selection[k]
    BY <1>2, <1>4, <1>5
  <2> QED
    BY <2>1 DEF Matching
<1>6. ASSUME NEW n \in 1..4, ~(n <= kept)
      PROVE  Matching(selection, n) = {}
  <2>1. selection[n] = None
    BY <1>4, <1>6
  <2>2. n \in 1..n
    OBVIOUS
  <2> QED
    BY <2>1, <2>2, OfferedSelections DEF Matching
<1>7. { n \in 1..4 : Matching(selection, n) # {} } = { n \in 1..4 : Matching(route.selection, n) # {} }
  BY <1>2, <1>5, <1>6
<1>8. KeptParts(selection) = kept
  BY <1>7 DEF KeptParts, kept
<1>9. [k \in 1..4 |-> IF k <= kept THEN selection[k] ELSE None] = selection
  <2>1. selection = [k \in 1..4 |-> selection[k]]
    BY DEF selection
  <2>2. \A k \in 1..4 : (IF k <= kept THEN selection[k] ELSE None) = selection[k]
    BY <1>4
  <2> QED
    BY <2>1, <2>2
<1>10. (IF kept = 4 THEN Keep(straight, Matching(selection, 4)) ELSE None) = straight
  <2>1. kept = 4 => Matching(selection, 4) = Matching(route.selection, 4)
    BY <1>5
  <2> QED
    BY <2>1, KeepTwice
<1> HIDE DEF straight
<1>11. Keep(option, OptionsShown(straight)) = option
  BY KeepTwice
<1> HIDE DEF option
<1> DEFINE kept2 == KeptParts(again.selection)
           selection2 == [k \in 1..4 |-> IF k <= kept2 THEN again.selection[k] ELSE None]
           straight2 == IF kept2 = 4 THEN Keep(again.straight, Matching(again.selection, 4)) ELSE None
           option2 == Keep(again.option, OptionsShown(straight2))
<1>12. ReconciledSelection(again) = [again EXCEPT !.selection = selection2, !.straight = straight2, !.option = option2]
  BY DEF ReconciledSelection, KeptParts
<1>13. again.selection = selection /\ again.straight = straight /\ again.option = option
  BY <1>3
<1>14. ReconciledSelection(again) = [again EXCEPT !.selection = selection, !.straight = straight, !.option = option]
  <2>1. kept2 = kept
    BY <1>8, <1>13
  <2> HIDE DEF kept2
  <2>2. selection2 = selection
    BY <1>9, <1>13, <2>1
  <2>3. straight2 = straight
    BY <1>10, <1>13, <2>1
  <2> HIDE DEF selection2, straight2
  <2>4. option2 = option
    BY <1>11, <1>13, <2>3
  <2> HIDE DEF option2
  <2> QED
    BY <1>12, <2>2, <2>3, <2>4
<1>15. PICK u : u = ReconciledSelection(again)
  OBVIOUS
<1>16. DOMAIN u = DOMAIN again /\ u = [x \in DOMAIN u |-> u[x]] /\ \A x \in DOMAIN again : u[x] = again[x]
  BY <1>13, <1>14, <1>15
<1>17. u = again
  BY <1>16, SameFields
<1> QED
  BY <1>3, <1>4, <1>15, <1>17

ItemWith(item, options) == IF Straight(item) THEN [item EXCEPT !.option = Keep(@, options)] ELSE item

LEMMA ItemReconciled ==
  ASSUME NEW item, NEW options, NEW products, ItemHolds(item, products)
  PROVE  /\ ItemHolds(ItemWith(item, options), products) /\ ItemWith(item, options).id = item.id
         /\ ItemWith(ItemWith(item, options), options) = ItemWith(item, options)
<1>1. CASE Straight(item)
  <2>1. PICK o, new : o = Keep(item.option, options) /\ new = [item EXCEPT !.option = o]
    OBVIOUS
  <2>2. new = ItemWith(item, options)
    BY <1>1, <2>1 DEF ItemWith
  <2>3. {"kind", "id", "length", "option"} \subseteq DOMAIN item
    BY <1>1 DEF ItemHolds, IsItem, Straight
  <2>4. /\ DOMAIN new = DOMAIN item /\ new = [x \in DOMAIN new |-> new[x]]
        /\ new.kind = item.kind /\ new.id = item.id /\ new.option = o
    BY <2>1, <2>3
  <2>5. Straight(new) /\ ItemHolds(new, products)
    BY <1>1, <2>3, <2>4 DEF Straight, ItemHolds, IsItem
  <2>6. PICK u : u = ItemWith(new, options)
    OBVIOUS
  <2>7. Keep(new.option, options) = o
    BY <2>1, <2>4, KeepTwice
  <2>8. u = [new EXCEPT !.option = o]
    BY <2>5, <2>6, <2>7 DEF ItemWith
  <2>9. DOMAIN u = DOMAIN new /\ u = [x \in DOMAIN u |-> u[x]] /\ \A x \in DOMAIN new : u[x] = new[x]
    BY <2>4, <2>8
  <2>10. u = new
    BY <2>4, <2>9, SameFields
  <2> QED
    BY <2>2, <2>4, <2>5, <2>6, <2>10
<1>2. CASE ~Straight(item)
  BY <1>2 DEF ItemWith
<1> QED
  BY <1>1, <1>2

LEMMA RouteReconciled ==
  ASSUME CatalogShown, NEW route, NEW products, NEW templates, RouteHolds(route, products, templates)
  PROVE  /\ RouteHolds(ReconciledRoute(route), products, templates)
         /\ SameIds(route, ReconciledRoute(route))
         /\ ReconciledRoute(ReconciledRoute(route)) = ReconciledRoute(route)
<1>0. PICK selected : selected = ReconciledSelection(route)
  OBVIOUS
<1>1. /\ DOMAIN route.selection = 1..4
      /\ {"code", "selection", "straight", "option", "geometry", "ends", "supports"} \subseteq DOMAIN route
      /\ IsSequence(route.geometry) /\ \A i \in DOMAIN route.geometry : ItemHolds(route.geometry[i], products)
      /\ SupportsHold(route.supports, ItemIds(route), products, templates)
  BY DEF RouteHolds
<1>2. \A again : /\ again.selection = selected.selection /\ again.straight = selected.straight
                 /\ again.option = selected.option
                 /\ {"selection", "straight", "option"} \subseteq DOMAIN again /\ again = [x \in DOMAIN again |-> again[x]]
                 => /\ DOMAIN selected = DOMAIN route /\ selected = [x \in DOMAIN selected |-> selected[x]]
                    /\ DOMAIN selected.selection = 1..4
                    /\ \A x \in DOMAIN route \ {"selection", "straight", "option"} : selected[x] = route[x]
                    /\ ReconciledSelection(again) = again
  BY <1>0, <1>1, SelectionOnce
<1>3. /\ DOMAIN selected = DOMAIN route /\ selected = [x \in DOMAIN selected |-> selected[x]]
      /\ DOMAIN selected.selection = 1..4
      /\ selected.geometry = route.geometry /\ selected.ends = route.ends /\ selected.supports = route.supports
      /\ selected.code = route.code
  <2>1. DOMAIN selected = DOMAIN route /\ selected = [x \in DOMAIN selected |-> selected[x]]
    BY <1>0 DEF ReconciledSelection
  <2>2. {"selection", "straight", "option"} \subseteq DOMAIN selected
    BY <1>1, <2>1
  <2> QED
    BY <1>1, <1>2, <2>1, <2>2
<1>4. PICK options, system : options = OptionsShown(selected.straight) /\ system = selected.selection[1]
  OBVIOUS
<1> DEFINE items == [i \in DOMAIN route.geometry |-> ItemWith(route.geometry[i], options)]
           supports == ReconciledSupports(route.supports, system)
<1>5. PICK new : new = ReconciledRoute(route)
  OBVIOUS
<1>6. new = [selected EXCEPT !.geometry = items, !.supports = supports]
  <2>1. \A item : ItemWith(item, options) = IF Straight(item) THEN [item EXCEPT !.option = Keep(@, OptionsShown(selected.straight))] ELSE item
    BY <1>4 DEF ItemWith
  <2> DEFINE its == [i \in DOMAIN selected.geometry |-> IF Straight(selected.geometry[i]) THEN [selected.geometry[i] EXCEPT !.option = Keep(@, OptionsShown(selected.straight))] ELSE selected.geometry[i]]
             sup == ReconciledSupports(selected.supports, selected.selection[1])
  <2>2. new = [selected EXCEPT !.geometry = its, !.supports = sup]
    BY <1>0, <1>5, Zenon DEF ReconciledRoute
  <2>3. its = items
    BY <1>3, <2>1
  <2>4. sup = supports
    BY <1>3, <1>4
  <2> HIDE DEF its, sup, items, supports
  <2> QED
    BY <2>2, <2>3, <2>4
<1>7. DOMAIN items = DOMAIN route.geometry /\ \A i \in DOMAIN route.geometry : items[i] = ItemWith(route.geometry[i], options)
  OBVIOUS
<1> HIDE DEF items, supports
<1>8. /\ DOMAIN new = DOMAIN route /\ new = [x \in DOMAIN new |-> new[x]]
      /\ new.geometry = items /\ new.supports = supports /\ new.ends = route.ends /\ new.code = route.code
      /\ new.selection = selected.selection /\ new.straight = selected.straight /\ new.option = selected.option
  BY <1>1, <1>3, <1>6
<1>9. \A i \in DOMAIN items : /\ ItemHolds(items[i], products) /\ items[i].id = route.geometry[i].id
                              /\ ItemWith(items[i], options) = items[i]
  BY <1>1, <1>7, ItemReconciled
<1>10. IsSequence(items)
  <2>1. PICK n \in Nat : n = Len(route.geometry) /\ DOMAIN route.geometry = 1..n
    BY <1>1, SequenceParts
  <2>2. items = [i \in 1..n |-> items[i]]
    BY <2>1 DEF items
  <2> QED
    BY <2>2, SequenceOf
<1>11. SameIds(route, new)
  BY <1>7, <1>8, <1>9 DEF SameIds
<1>12. ItemIds(new) = ItemIds(route)
  BY <1>7, <1>8, <1>9 DEF ItemIds
<1>13. SupportsHold(supports, ItemIds(route), products, templates)
  BY <1>1, SupportsReconciled DEF supports
<1>14. RouteHolds(new, products, templates)
  <2>1. DOMAIN new.ends = 1..2 /\ \A j \in 1..2 : EndHolds(new.ends[j], products)
    BY <1>8 DEF RouteHolds
  <2>2. IsSequence(new.geometry) /\ \A i \in DOMAIN new.geometry : ItemHolds(new.geometry[i], products)
    BY <1>8, <1>9, <1>10
  <2>3. SupportsHold(new.supports, ItemIds(new), products, templates)
    BY <1>8, <1>12, <1>13
  <2>4. {"code", "selection", "straight", "option", "geometry", "ends", "supports"} \subseteq DOMAIN new /\ DOMAIN new.selection = 1..4
    BY <1>1, <1>3, <1>8
  <2> QED
    BY <2>1, <2>2, <2>3, <2>4, Zenon DEF RouteHolds
<1>15. ReconciledSelection(new) = new
  <2>1. {"selection", "straight", "option"} \subseteq DOMAIN new
    BY <1>1, <1>8
  <2> QED
    BY <1>2, <1>8, <2>1
<1>16. PICK u : u = ReconciledRoute(new)
  OBVIOUS
<1>17. u = [new EXCEPT !.geometry = items, !.supports = supports]
  <2> DEFINE its == [i \in DOMAIN new.geometry |-> IF Straight(new.geometry[i]) THEN [new.geometry[i] EXCEPT !.option = Keep(@, OptionsShown(new.straight))] ELSE new.geometry[i]]
             sup == ReconciledSupports(new.supports, new.selection[1])
  <2>1. \A item : ItemWith(item, options) = IF Straight(item) THEN [item EXCEPT !.option = Keep(@, OptionsShown(new.straight))] ELSE item
    BY <1>4, <1>8 DEF ItemWith
  <2>2. PICK w : w = ReconciledSelection(new)
    OBVIOUS
  <2>3. u = [w EXCEPT !.geometry = [i \in DOMAIN w.geometry |-> IF Straight(w.geometry[i]) THEN [w.geometry[i] EXCEPT !.option = Keep(@, OptionsShown(w.straight))] ELSE w.geometry[i]],
                      !.supports = ReconciledSupports(w.supports, w.selection[1])]
    BY <1>16, <2>2, Zenon DEF ReconciledRoute
  <2>4. u = [new EXCEPT !.geometry = its, !.supports = sup]
    BY <1>15, <2>2, <2>3, Zenon
  <2>5. its = [i \in DOMAIN items |-> ItemWith(items[i], options)]
    BY <1>8, <2>1
  <2>6. its = items
    <3>1. items = [i \in DOMAIN items |-> items[i]]
      BY DEF items
    <3> HIDE DEF its
    <3> QED
      BY <1>9, <2>5, <3>1
  <2>7. sup = supports
    <3>1. IsSupports(route.supports)
      BY <1>1 DEF SupportsHold
    <3> QED
      BY <1>4, <1>8, <3>1, SupportsOnce DEF supports
  <2> HIDE DEF its, sup
  <2> QED
    BY <2>4, <2>6, <2>7
<1>18. DOMAIN u = DOMAIN new /\ u = [x \in DOMAIN u |-> u[x]] /\ \A x \in DOMAIN new : u[x] = new[x]
  BY <1>8, <1>17
<1>19. u = new
  BY <1>8, <1>18, SameFields
<1> QED
  BY <1>5, <1>11, <1>14, <1>16, <1>19

LEMMA DraftReconciled ==
  ASSUME CatalogShown, NEW d, NEW products, NEW templates, DraftHolds(d, products, templates)
  PROVE  DraftHolds(Reconciled(d), products, templates) /\ Reconciled(Reconciled(d)) = Reconciled(d)
<1> DEFINE routes == [r \in DOMAIN d.routes |-> ReconciledRoute(d.routes[r])]
<1>1. PICK new : new = Reconciled(d)
  OBVIOUS
<1>2. new = [d EXCEPT !.routes = routes]
  BY <1>1, Zenon DEF Reconciled
<1>3. PICK n \in Nat : n = Len(d.routes) /\ DOMAIN d.routes = 1..n
  BY SequenceParts DEF DraftHolds
<1>4. \A r \in DOMAIN d.routes : /\ RouteHolds(ReconciledRoute(d.routes[r]), products, templates)
                                 /\ SameIds(d.routes[r], ReconciledRoute(d.routes[r]))
                                 /\ ReconciledRoute(ReconciledRoute(d.routes[r])) = ReconciledRoute(d.routes[r])
  BY RouteReconciled DEF DraftHolds
<1>5. routes = [r \in 1..n |-> routes[r]] /\ DOMAIN routes = DOMAIN d.routes /\ \A r \in DOMAIN d.routes : routes[r] = ReconciledRoute(d.routes[r])
  BY <1>3
<1>6. DraftFields \subseteq DOMAIN d
  BY DEF DraftHolds
<1> HIDE DEF routes
<1>7. /\ DOMAIN new = DOMAIN d /\ new = [x \in DOMAIN new |-> new[x]] /\ new.routes = routes
      /\ new.connections = d.connections /\ new.manualItems = d.manualItems
  BY <1>2, <1>6 DEF DraftFields
<1>8. IsSequence(new.routes)
  BY <1>5, <1>7, SequenceOf
<1>9. \A r \in DOMAIN d.routes : SameIds(d.routes[r], new.routes[r]) /\ RouteHolds(new.routes[r], products, templates)
  BY <1>4, <1>5, <1>7
<1>10. DraftHolds(new, products, templates)
  <2>1. DraftFields \subseteq DOMAIN new /\ DOMAIN new.routes = DOMAIN d.routes
    BY <1>5, <1>6, <1>7
  <2> QED
    BY <1>7, <1>8, <1>9, <2>1, SameReferences
<1>11. PICK u : u = Reconciled(new)
  OBVIOUS
<1>12. u = [new EXCEPT !.routes = [r \in DOMAIN new.routes |-> ReconciledRoute(new.routes[r])]]
  BY <1>11, Zenon DEF Reconciled
<1>13. [r \in DOMAIN new.routes |-> ReconciledRoute(new.routes[r])] = routes
  BY <1>3, <1>4, <1>5, <1>7
<1>14. u = [new EXCEPT !.routes = routes]
  BY <1>12, <1>13
<1>15. DOMAIN u = DOMAIN new /\ u = [x \in DOMAIN u |-> u[x]] /\ \A x \in DOMAIN new : u[x] = new[x]
  BY <1>7, <1>14
<1>16. u = new
  BY <1>7, <1>15, SameFields
<1> QED
  BY <1>1, <1>10, <1>11, <1>16

\* Reconciling asks only for the catalog that is shown.
LEMMA ReconciledAsShown ==
  ASSUME NEW CONSTANT d, UNCHANGED shown
  PROVE  Reconciled(d)' = Reconciled(d)
<1>1. shown' = shown
  OBVIOUS
<1>2. Selectable' = Selectable
  BY <1>1 DEF Selectable
<1>3. StraightSections' = StraightSections
  BY <1>1, <1>2 DEF StraightSections
<1>4. \A s, n : Matching(s, n)' = Matching(s, n)
  BY <1>1, <1>3 DEF Matching
<1>5. \A p : OptionsShown(p)' = OptionsShown(p)
  BY <1>1 DEF OptionsShown
<1>6. \A t : Components(t)' = Components(t)
  BY <1>1 DEF Components
<1>7. \A t, role : ComponentProducts(t, role)' = ComponentProducts(t, role)
  BY <1>2, <1>6 DEF ComponentProducts
<1>8. \A t, substrate : AnchorProducts(t, substrate)' = AnchorProducts(t, substrate)
  BY <1>1, <1>7 DEF AnchorProducts
<1>9. \A t : ManualComponents(t)' = ManualComponents(t) /\ (HasLevels(t)' <=> HasLevels(t))
  BY <1>6 DEF ManualComponents, HasLevels
<1>10. \A t, s, system : Applies(t, s, system)' <=> Applies(t, s, system)
  BY <1>1 DEF Applies
<1>11. ASSUME NEW CONSTANT route
       PROVE  ReconciledSelection(route)' = ReconciledSelection(route)
  BY <1>4, <1>5, Zenon DEF ReconciledSelection
<1>12. ASSUME NEW CONSTANT s, NEW CONSTANT system
       PROVE  ReconciledSupports(s, system)' = ReconciledSupports(s, system)
  BY <1>7, <1>8, <1>9, <1>10 DEF ReconciledSupports
<1>13. ASSUME NEW CONSTANT route
       PROVE  ReconciledRoute(route)' = ReconciledRoute(route)
  BY <1>5, <1>11, <1>12, Zenon DEF ReconciledRoute
<1> QED
  BY <1>13 DEF Reconciled

---------------------------------------------------------------------------
(* What the page offers to calculate passes the preflight.                                 *)

LEMMA OfferedIsDemandable ==
  ASSUME CatalogShown, NEW p \in Selectable
  PROVE  p \in Known(catalog) /\ p \in DOMAIN catalog.products /\ Demandable(catalog.products[p])
<1>1. p \in Known(catalog) /\ EditorProduct(catalog, p).selectable
  BY DEF CatalogShown, Selectable, EditorCatalog
<1>2. catalog.products[p].active /\ catalog.products[p].orderable
  BY <1>1 DEF EditorProduct
<1> QED
  BY <1>1, <1>2 DEF Known, Demandable

LEMMA SectionsOffered ==
  ASSUME CatalogShown, NEW p \in StraightSections
  PROVE  /\ catalog.products[p].category = "straightSection"
         /\ \E rule \in catalog.compatibility :
              /\ rule.type = "selection" /\ rule.allowed /\ rule.source = p
              /\ DOMAIN rule.selection = 1..4 /\ rule.selection = [k \in 1..4 |-> rule.selection[k]]
              /\ shown.products[p].selection = rule.selection
         /\ \A o \in OptionsShown(p) : catalog.products[p].length # 0 /\ o = SupplyOption(p)
<1>1. p \in Known(catalog) /\ shown.products[p] = EditorProduct(catalog, p) /\ shown.products[p].selection # << >>
  BY DEF CatalogShown, StraightSections, Selectable, EditorCatalog
<1>2. /\ SelectionOf(catalog, p) # << >> /\ shown.products[p].selection = SelectionOf(catalog, p)
      /\ catalog.products[p].category = "straightSection"
  BY <1>1 DEF EditorProduct
<1> DEFINE rules == { rule \in catalog.compatibility : rule.type = "selection" /\ rule.allowed /\ rule.source = p }
<1>3. rules # {} /\ SelectionOf(catalog, p) = (CHOOSE rule \in rules : TRUE).selection
  BY <1>2, Zenon DEF SelectionOf
<1>4. PICK rule \in rules : rule = (CHOOSE x \in rules : TRUE)
  BY <1>3
<1>5. IsSequence(rule.selection) /\ Len(rule.selection) = 4
  BY DEF CatalogShown, IsCatalog
<1>6. DOMAIN rule.selection = 1..4 /\ rule.selection = [k \in 1..4 |-> rule.selection[k]]
  BY <1>5, SequenceParts
<1>7. \A o \in OptionsShown(p) : catalog.products[p].length # 0 /\ o = SupplyOption(p)
  <2>1. p \in DOMAIN shown.products
    BY <1>1 DEF CatalogShown, EditorCatalog
  <2>2. OptionsShown(p) = EditorProduct(catalog, p).options
    BY <1>1, <2>1 DEF OptionsShown
  <2> QED
    BY <2>2 DEF EditorProduct
<1> QED
  BY <1>2, <1>3, <1>4, <1>6, <1>7

LEMMA TemplatesOffered ==
  ASSUME CatalogShown, NEW t \in DOMAIN shown.templates
  PROVE  /\ t \in UsableTemplates(catalog) /\ t \in DOMAIN catalog.templates /\ catalog.templates[t].active
         /\ catalog.templates[t].type \in SupportTypes /\ catalog.templates[t].system # None
         /\ shown.templates[t].type = catalog.templates[t].type /\ shown.templates[t].system = catalog.templates[t].system
         /\ \A row \in RowsOf(catalog, t) : row.quantity # Zero
         /\ \A x \in Components(t) : \E row \in RowsOf(catalog, t) : row.product = x.product /\ RoleIn(catalog, row) = x.role
         /\ \A row \in RowsOf(catalog, t) : \E x \in Components(t) : row.product = x.product /\ RoleIn(catalog, row) = x.role
<1>1. /\ t \in UsableTemplates(catalog) /\ catalog.templates[t].type \in SupportTypes
      /\ catalog.templates[t].system # None /\ shown.templates[t] = EditorTemplate(catalog, t)
  BY DEF CatalogShown, EditorCatalog
<1>2. /\ shown.templates[t].type = catalog.templates[t].type /\ shown.templates[t].system = catalog.templates[t].system
      /\ Components(t) = { [ id |-> row.id, product |-> row.product, role |-> RoleIn(catalog, row), unit |-> row.unit,
                             mode |-> row.mode ] : row \in RowsOf(catalog, t) }
  BY <1>1 DEF EditorTemplate, Components
<1>3. t \in DOMAIN catalog.templates /\ catalog.templates[t].active /\ \A row \in RowsOf(catalog, t) : row.quantity # Zero
  BY <1>1 DEF UsableTemplates, RowUsable
<1>4. \A x \in Components(t) : \E row \in RowsOf(catalog, t) : row.product = x.product /\ RoleIn(catalog, row) = x.role
  BY <1>2
<1>5. \A row \in RowsOf(catalog, t) : \E x \in Components(t) : row.product = x.product /\ RoleIn(catalog, row) = x.role
  <2> SUFFICES ASSUME NEW row \in RowsOf(catalog, t)
               PROVE  \E x \in Components(t) : row.product = x.product /\ RoleIn(catalog, row) = x.role
    OBVIOUS
  <2>1. PICK x : x = [ id |-> row.id, product |-> row.product, role |-> RoleIn(catalog, row), unit |-> row.unit,
                       mode |-> row.mode ]
    OBVIOUS
  <2>2. x \in Components(t)
    BY <1>2, <2>1
  <2> QED
    BY <2>1, <2>2
<1> QED
  BY <1>1, <1>2, <1>3, <1>4, <1>5

LEMMA SelectionsPass ==
  ASSUME CatalogShown, NEW route, NEW products, NEW templates, RouteHolds(route, products, templates),
         ReconciledRoute(route) = route, RouteReady(route)
  PROVE  SelectionIssues(catalog, route) = {}
<1>1. /\ DOMAIN route.selection = 1..4
      /\ {"code", "selection", "straight", "option", "geometry", "ends", "supports"} \subseteq DOMAIN route
  BY DEF RouteHolds
<1> DEFINE kept == KeptParts(route.selection)
           selection == [k \in 1..4 |-> IF k <= kept THEN route.selection[k] ELSE None]
           straight == IF kept = 4 THEN Keep(route.straight, Matching(route.selection, 4)) ELSE None
           option == Keep(route.option, OptionsShown(straight))
<1>2. PICK selected : selected = ReconciledSelection(route)
  OBVIOUS
<1>3. selected = [route EXCEPT !.selection = selection, !.straight = straight, !.option = option]
  BY <1>2 DEF ReconciledSelection, KeptParts
<1>4. \E items, supports : route = [selected EXCEPT !.geometry = items, !.supports = supports]
  BY <1>2, Zenon DEF ReconciledRoute
<1> HIDE DEF selection, straight, option, kept
<1>5. route.selection = selection /\ route.straight = straight /\ route.option = option
  BY <1>1, <1>3, <1>4
<1>6. None \notin Range(route.selection) /\ route.straight # None /\ route.option # None
  BY DEF RouteReady
<1>7. kept = 4
  <2>1. kept \in 0..4
    BY PartsKept DEF kept
  <2>2. ASSUME kept # 4
        PROVE  FALSE
    <3>1. selection[4] = None
      BY <2>1, <2>2 DEF selection
    <3>2. 4 \in DOMAIN route.selection /\ route.selection[4] = None
      BY <1>1, <1>5, <3>1
    <3> QED
      BY <1>6, <3>2 DEF Range
  <2> QED
    BY <2>2
<1>8. route.straight \in Matching(route.selection, 4)
  BY <1>5, <1>6, <1>7 DEF straight, Keep
<1>9. route.straight \in StraightSections /\ \A k \in 1..4 : shown.products[route.straight].selection[k] = route.selection[k]
  BY <1>8 DEF Matching
<1>10. route.option \in OptionsShown(route.straight)
  BY <1>5, <1>6 DEF option, Keep
<1>11. /\ route.straight \in Known(catalog) /\ Demandable(catalog.products[route.straight])
       /\ catalog.products[route.straight].category = "straightSection"
       /\ catalog.products[route.straight].length # 0 /\ route.option = SupplyOption(route.straight)
  BY <1>9, <1>10, OfferedIsDemandable, SectionsOffered DEF StraightSections
<1>12. SelectionEvidence(catalog, route)
  <2>1. PICK rule \in catalog.compatibility :
              /\ rule.type = "selection" /\ rule.allowed /\ rule.source = route.straight
              /\ DOMAIN rule.selection = 1..4 /\ rule.selection = [k \in 1..4 |-> rule.selection[k]]
              /\ shown.products[route.straight].selection = rule.selection
    BY <1>9, SectionsOffered
  <2>2. route.selection = [k \in 1..4 |-> route.selection[k]]
    BY <1>5 DEF selection
  <2>3. rule.selection = route.selection
    BY <1>9, <2>1, <2>2
  <2> QED
    BY <2>1, <2>3 DEF SelectionEvidence
<1> QED
  BY <1>6, <1>11, <1>12 DEF SelectionIssues, Issue

LEMMA SupportsPass ==
  ASSUME CatalogShown, OfferedAsUsed(catalog), NEW route, IsSupports(route.supports),
         ReconciledSupports(route.supports, route.selection[1]) = route.supports, RouteReady(route)
  PROVE  SupportIssues(catalog, route.supports) = {} /\ TemplateIssues(catalog, route) = {}
<1>1. PICK s, t, system : s = route.supports /\ t = s.template /\ system = route.selection[1]
  OBVIOUS
<1>2. /\ Applies(t, s, system) /\ s.spacing # Zero /\ s.anchor # None /\ s.wstbMode # None
      /\ LET wstb == { x.product : x \in { y \in Components(t) : y.role = "wstb" } }
         IN wstb # {} => s.wstb \in wstb \cap Selectable
  BY <1>1 DEF RouteReady
<1>3. \E l, m : s = [s EXCEPT !.product = Keep(@, ComponentProducts(t, "support")),
                              !.anchor = Keep(@, AnchorProducts(t, s.substrate)),
                              !.wstb = Keep(@, ComponentProducts(t, "wstb")), !.levels = l, !.manualValues = m]
  BY <1>1, <1>2, Zenon DEF ReconciledSupports
<1>4. /\ s.product = Keep(s.product, ComponentProducts(t, "support"))
      /\ s.anchor = Keep(s.anchor, AnchorProducts(t, s.substrate))
      /\ s.wstb = Keep(s.wstb, ComponentProducts(t, "wstb"))
  BY <1>1, <1>3 DEF IsSupports
<1>5. /\ s.product \in ComponentProducts(t, "support") \cup {None}
      /\ s.anchor \in AnchorProducts(t, s.substrate) /\ s.wstb \in ComponentProducts(t, "wstb") \cup {None}
  BY <1>2, <1>4 DEF Keep
<1>6. None \notin Known(catalog)
  BY DEF CatalogShown, IsCatalog, Known
<1>7. t \in DOMAIN shown.templates /\ shown.templates[t].type = s.type /\ shown.templates[t].system = system
  BY <1>2 DEF Applies
<1>8. /\ t \in UsableTemplates(catalog) /\ t \in DOMAIN catalog.templates /\ catalog.templates[t].active
      /\ catalog.templates[t].type = s.type /\ catalog.templates[t].system = system
      /\ s.type \in SupportTypes /\ system # None
      /\ \A row \in RowsOf(catalog, t) : row.quantity # Zero
      /\ \A x \in Components(t) : \E row \in RowsOf(catalog, t) : row.product = x.product /\ RoleIn(catalog, row) = x.role
      /\ \A row \in RowsOf(catalog, t) : \E x \in Components(t) : row.product = x.product /\ RoleIn(catalog, row) = x.role
  BY <1>7, TemplatesOffered
<1>9. \A p, role : p \in ComponentProducts(t, role) =>
        /\ p \in Known(catalog) /\ p \in DOMAIN catalog.products /\ Demandable(catalog.products[p])
        /\ \E row \in RowsOf(catalog, t) : row.product = p /\ RoleIn(catalog, row) = role
  <2> SUFFICES ASSUME NEW role, NEW p \in ComponentProducts(t, role)
               PROVE  /\ p \in Known(catalog) /\ p \in DOMAIN catalog.products /\ Demandable(catalog.products[p])
                      /\ \E row \in RowsOf(catalog, t) : row.product = p /\ RoleIn(catalog, row) = role
    OBVIOUS
  <2>1. p \in Selectable /\ \E x \in Components(t) : x.role = role /\ x.product = p
    BY DEF ComponentProducts
  <2> QED
    BY <1>8, <2>1, OfferedIsDemandable
<1>10. s.anchor \in ComponentProducts(t, "anchor") /\ s.substrate # None /\ <<s.anchor, s.substrate>> \in shown.anchors
  BY <1>5 DEF AnchorProducts
<1>11. AnchorEvidence(catalog, s)
  <2>1. <<s.anchor, s.substrate>> \in EditorAnchors(catalog)
    BY <1>10 DEF CatalogShown, EditorCatalog
  <2>2. PICK rule \in catalog.compatibility :
          /\ rule.type = "anchor" /\ rule.allowed /\ Selected(catalog, rule.source, rule.sourceSelectors) # {}
          /\ s.anchor = (CHOOSE p \in Selected(catalog, rule.source, rule.sourceSelectors) : TRUE)
          /\ s.substrate = rule.substrate
    BY <2>1 DEF EditorAnchors
  <2>3. rule.source \in DOMAIN catalog.products
    BY <2>2 DEF OfferedAsUsed
  <2>4. Selected(catalog, rule.source, rule.sourceSelectors) \subseteq {rule.source}
    BY <2>3 DEF Selected
  <2>5. s.anchor = rule.source
    BY <2>2, <2>4
  <2> QED
    BY <1>10, <2>2, <2>5 DEF AnchorEvidence
<1>12. AnchorBaseline(catalog, t) /\ RowEvidence(catalog, t, s.anchor, "anchor")
  BY <1>8, <1>9, <1>10 DEF AnchorBaseline, RowEvidence
<1>13. s.product \in Known(catalog) => RowEvidence(catalog, t, s.product, "support") /\ Demandable(catalog.products[s.product])
  BY <1>5, <1>6, <1>9 DEF RowEvidence
<1>14. s.wstb \in Known(catalog) => /\ InCatalog(catalog, s.wstb, LAMBDA x : x.category = "wstb" /\ Demandable(x))
  <2> SUFFICES ASSUME s.wstb \in Known(catalog)
               PROVE  s.wstb \in DOMAIN catalog.products /\ catalog.products[s.wstb].category = "wstb" /\ Demandable(catalog.products[s.wstb])
    BY DEF InCatalog
  <2>1. s.wstb \in ComponentProducts(t, "wstb")
    BY <1>5, <1>6
  <2>2. PICK row \in RowsOf(catalog, t) : row.product = s.wstb /\ RoleIn(catalog, row) = "wstb"
    BY <1>9, <2>1
  <2>3. row \in Range(catalog.rows)
    BY DEF RowsOf
  <2>4. catalog.products[s.wstb].category = "wstb"
    BY <2>2, <2>3 DEF OfferedAsUsed
  <2> QED
    BY <1>9, <2>1, <2>4
<1>15. s.type # None /\ s.template = t
  BY <1>1, <1>8 DEF SupportTypes, None
<1>16. s.anchor \in Known(catalog) /\ Demandable(catalog.products[s.anchor])
  BY <1>9, <1>10
<1>17. {s.product, s.anchor, s.wstb} \subseteq Known(catalog) \cup {None}
  BY <1>5, <1>9, <1>16
<1>18. SupportIssues(catalog, s) = {}
  BY <1>2, <1>8, <1>11, <1>12, <1>13, <1>14, <1>15, <1>16, <1>17, Zenon DEF SupportIssues, Issue
<1> DEFINE clamps == { row.product : row \in { w \in RowsOf(catalog, t) : RoleIn(catalog, w) = "wstb" } }
           wstb == { x.product : x \in { y \in Components(t) : y.role = "wstb" } }
<1>19. clamps = wstb
  BY <1>8
<1>20. clamps # {} => s.wstb \in clamps
  BY <1>2, <1>19
<1>21. clamps = {} => s.wstb = None
  <2>1. clamps = {} => ComponentProducts(t, "wstb") = {}
    BY <1>19 DEF ComponentProducts
  <2> QED
    BY <1>5, <2>1
<1>22. TemplateIssues(catalog, route) = {}
  BY <1>1, <1>8, <1>12, <1>20, <1>21 DEF TemplateIssues, Issue
<1> QED
  BY <1>1, <1>18, <1>22

LEMMA RoutePasses ==
  ASSUME CatalogShown, OfferedAsUsed(catalog), NEW route, NEW products, NEW templates,
         RouteHolds(route, products, templates), ReconciledRoute(route) = route, RouteReady(route)
  PROVE  /\ SelectionIssues(catalog, route) = {}
         /\ SupportIssues(catalog, route.supports) = {} /\ TemplateIssues(catalog, route) = {}
<1>1. {"code", "selection", "straight", "option", "geometry", "ends", "supports"} \subseteq DOMAIN route
  BY DEF RouteHolds
<1>2. PICK selected : selected = ReconciledSelection(route)
  OBVIOUS
<1>3. \E a, b, o : selected = [route EXCEPT !.selection = a, !.straight = b, !.option = o]
  BY <1>2 DEF ReconciledSelection
<1>4. DOMAIN selected = DOMAIN route /\ selected.supports = route.supports
  BY <1>1, <1>3
<1>5. \E items : route = [selected EXCEPT !.geometry = items,
                                          !.supports = ReconciledSupports(selected.supports, selected.selection[1])]
  BY <1>2, Zenon DEF ReconciledRoute
<1>6. route.selection = selected.selection
      /\ route.supports = ReconciledSupports(selected.supports, selected.selection[1])
  BY <1>1, <1>4, <1>5
<1>7. ReconciledSupports(route.supports, route.selection[1]) = route.supports
  BY <1>4, <1>6
<1>8. IsSupports(route.supports)
  BY DEF RouteHolds, SupportsHold
<1> QED
  BY <1>7, <1>8, SelectionsPass, SupportsPass

LEMMA PreflightPasses ==
  ASSUME CatalogShown, NEW products, NEW templates, DraftHolds(draft, products, templates), Reconciled(draft) = draft,
         CanCalculateLocally, ~Leftovers(draft), OfferedAsUsed(catalog)
  PROVE  PreflightIssues(catalog, draft) \subseteq {"MANUAL_CATALOG_UNIT_MISMATCH"}
<1>1. DraftFields \subseteq DOMAIN draft /\ \A r \in DOMAIN draft.routes : RouteHolds(draft.routes[r], products, templates)
  BY DEF DraftHolds
<1>2. draft = [draft EXCEPT !.routes = [r \in DOMAIN draft.routes |-> ReconciledRoute(draft.routes[r])]]
  BY Zenon DEF Reconciled
<1>3. \A r \in DOMAIN draft.routes : ReconciledRoute(draft.routes[r]) = draft.routes[r]
  <2>1. PICK routes : routes = [r \in DOMAIN draft.routes |-> ReconciledRoute(draft.routes[r])]
    OBVIOUS
  <2>2. draft = [draft EXCEPT !.routes = routes]
    BY <1>2, <2>1
  <2>3. draft.routes = routes
    BY <1>1, <2>2 DEF DraftFields
  <2> QED
    BY <2>1, <2>3
<1>4. draft.routes # << >> /\ \A r \in DOMAIN draft.routes : RouteReady(draft.routes[r])
  BY DEF CanCalculateLocally, RouteAt
<1>5. \A r \in DOMAIN draft.routes : /\ SelectionIssues(catalog, draft.routes[r]) = {}
                                     /\ SupportIssues(catalog, draft.routes[r].supports) = {}
                                     /\ TemplateIssues(catalog, draft.routes[r]) = {}
  BY <1>1, <1>3, <1>4, RoutePasses
<1>6. \A code : MaterialIssues(catalog, None, code) = {}
  BY DEF MaterialIssues, Issue
<1>7. ASSUME NEW r \in DOMAIN draft.routes
      PROVE  GeometryIssues(catalog, draft.routes[r]) = {}
  <2>1. draft.routes[r].geometry # << >>
    BY <1>4 DEF RouteReady
  <2>2. \A i \in DOMAIN draft.routes[r].geometry : ~Straight(draft.routes[r].geometry[i]) => draft.routes[r].geometry[i].product = None
    <3> SUFFICES ASSUME NEW i \in DOMAIN draft.routes[r].geometry, ~Straight(draft.routes[r].geometry[i])
                 PROVE  draft.routes[r].geometry[i].product = None
      OBVIOUS
    <3>1. <<r, i>> \in ItemsOf(draft)
      BY DEF ItemsOf
    <3>2. \A g \in ItemsOf(draft) : Straight(RouteAt(g[1]).geometry[g[2]]) \/ RouteAt(g[1]).geometry[g[2]].product = None
      BY DEF Leftovers
    <3>3. Straight(RouteAt(r).geometry[i]) \/ RouteAt(r).geometry[i].product = None
      BY <3>1, <3>2
    <3> QED
      BY <3>3 DEF RouteAt
  <2>3. \A j \in 1..2 : draft.routes[r].ends[j].product = None
    <3> SUFFICES ASSUME NEW j \in 1..2
                 PROVE  draft.routes[r].ends[j].product = None
      OBVIOUS
    <3>1. <<r, j>> \in EndsOf(draft)
      BY DEF EndsOf
    <3>2. \A e \in EndsOf(draft) : RouteAt(e[1]).ends[e[2]].product = None
      BY DEF Leftovers
    <3> QED
      BY <3>1, <3>2 DEF RouteAt
  <2>4. \A i \in { j \in DOMAIN draft.routes[r].geometry : ~Straight(draft.routes[r].geometry[j]) } :
          MaterialIssues(catalog, draft.routes[r].geometry[i].product, "FITTING_RULE_MISSING") = {}
    BY <1>6, <2>2
  <2>5. \A i \in 1..2 : MaterialIssues(catalog, draft.routes[r].ends[i].product, "ENDPOINT_MATERIAL_RULE_MISSING") = {}
    BY <1>6, <2>3
  <2> QED
    BY <2>1, <2>4, <2>5 DEF GeometryIssues, Issue
<1>8. \A x \in draft.connections : x.material = None /\ x.corrections = {}
  BY DEF Leftovers
<1>9. draft.accessories = {}
  BY DEF Leftovers
<1>10. ASSUME NEW m \in draft.manualItems, m.product # None
       PROVE  ManualIssues(catalog, m) \subseteq {"MANUAL_CATALOG_UNIT_MISMATCH"}
  <2>1. m.product \in Selectable
    BY <1>10 DEF Leftovers
  <2>2. m.product \in Known(catalog) /\ m.product \in DOMAIN catalog.products /\ Demandable(catalog.products[m.product])
    BY <2>1, OfferedIsDemandable
  <2>3. InCatalog(catalog, m.product, Demandable)
    BY <2>2 DEF InCatalog
  <2> QED
    BY <2>2, <2>3 DEF ManualIssues, Issue
<1> DEFINE A == UNION { SelectionIssues(catalog, draft.routes[r]) \cup GeometryIssues(catalog, draft.routes[r])
                \cup SupportIssues(catalog, draft.routes[r].supports) \cup TemplateIssues(catalog, draft.routes[r]) :
                  r \in DOMAIN draft.routes }
           B == UNION { MaterialIssues(catalog, x.material, "CONNECTION_MATERIAL_RULE_MISSING")
                \cup Issue(x.corrections # {}, "CONNECTOR_CORRECTION_BASELINE_MISSING") : x \in draft.connections }
           C == UNION { MaterialIssues(catalog, p, "ACCESSORY_RULE_MISSING") : p \in draft.accessories }
           D == UNION { ManualIssues(catalog, m) : m \in { n \in draft.manualItems : n.product # None } }
<1>11. PreflightIssues(catalog, draft) = Issue(draft.routes = << >>, "ROUTE_REQUIRED") \cup A \cup B \cup C \cup D
  BY Zenon DEF PreflightIssues
<1>12. A = {}
  BY <1>5, <1>7
<1>13. B = {}
  BY <1>6, <1>8 DEF Issue
<1>14. C = {}
  BY <1>9
<1>15. D \subseteq {"MANUAL_CATALOG_UNIT_MISMATCH"}
  BY <1>10
<1>16. Issue(draft.routes = << >>, "ROUTE_REQUIRED") = {}
  BY <1>4 DEF Issue
<1> HIDE DEF A, B, C, D
<1> QED
  BY <1>11, <1>12, <1>13, <1>14, <1>15, <1>16

---------------------------------------------------------------------------
(* What the schema accepts, the tables accept.                                             *)

LEMMA ParticipantsOf ==
  ASSUME NEW d, NEW products, NEW templates, DraftHolds(d, products, templates), NEW x \in d.connections
  PROVE  { end \in EndpointRows(d) : \E row \in ParticipantRows(d) : row.connection = x.id /\ row.endpoint = end.id }
           = { EndpointRow(d, e) : e \in Joined(d, x) }
<1>1. IsDraft(d) /\ EndsDiffer(d)
  BY DraftHoldsMeans DEF DraftHolds
<1>2. ConnectionsHold(d, products)
  BY DEF DraftHolds
<1>3. \A row : row \in ParticipantRows(d) <=>
        \E y \in d.connections : \E i \in DOMAIN y.participants :
          row = [connection |-> y.id, endpoint |-> y.participants[i].endpoint, order |-> i - 1]
  BY DEF ParticipantRows
<1>4. \A e : EndpointRow(d, e).id = EndId(d, e[1], e[2])
  BY DEF EndpointRow, EndId
<1>5. ASSUME NEW e \in EndsOf(d), NEW row \in ParticipantRows(d), row.connection = x.id, row.endpoint = EndpointRow(d, e).id
      PROVE  e \in Joined(d, x)
  <2>1. PICK y \in d.connections : \E i \in DOMAIN y.participants :
          row = [connection |-> y.id, endpoint |-> y.participants[i].endpoint, order |-> i - 1]
    BY <1>3
  <2>2. PICK i \in DOMAIN y.participants :
          row = [connection |-> y.id, endpoint |-> y.participants[i].endpoint, order |-> i - 1]
    BY <2>1
  <2>3. y.id = x.id /\ y.participants[i].endpoint = EndId(d, e[1], e[2])
    BY <1>4, <1>5, <2>2
  <2>4. y = x
    BY <1>2, <2>3 DEF ConnectionsHold
  <2>5. Joins(d, x)
    BY <1>2 DEF ConnectionsHold, ConnectionHolds
  <2>6. PICK r \in DOMAIN d.routes, j \in 1..2 : AtEnd(d, x.participants[i], r, j)
    BY <2>2, <2>4, <2>5 DEF Joins
  <2>7. EndId(d, r, j) = EndId(d, e[1], e[2]) /\ e[1] \in DOMAIN d.routes /\ e[2] \in 1..2 /\ e = <<e[1], e[2]>>
    BY <2>3, <2>4, <2>6 DEF AtEnd, EndsOf
  <2>8. r = e[1] /\ j = e[2]
    BY <1>1, <2>7 DEF EndsDiffer
  <2> QED
    BY <1>1, <2>2, <2>4, <2>6, <2>7, <2>8, JoinedAt
<1>6. ASSUME NEW e \in Joined(d, x)
      PROVE  e \in EndsOf(d) /\ \E row \in ParticipantRows(d) : row.connection = x.id /\ row.endpoint = EndpointRow(d, e).id
  <2>1. PICK i \in DOMAIN x.participants : AtEnd(d, x.participants[i], e[1], e[2])
    BY <1>1, JoinedAt
  <2>2. PICK row : row = [connection |-> x.id, endpoint |-> x.participants[i].endpoint, order |-> i - 1]
    OBVIOUS
  <2>3. row \in ParticipantRows(d)
    BY <1>3, <2>2
  <2>4. row.connection = x.id /\ row.endpoint = EndpointRow(d, e).id
    BY <1>4, <2>1, <2>2 DEF AtEnd
  <2> QED
    BY <2>3, <2>4 DEF Joined
<1> QED
  BY <1>5, <1>6 DEF EndpointRows

LEMMA ParticipantsCounted ==
  ASSUME NEW d, NEW products, NEW templates, DraftHolds(d, products, templates), NEW x \in d.connections
  PROVE  LET rows == { EndpointRow(d, e) : e \in Joined(d, x) }
         IN /\ Cardinality(rows) = Len(x.participants)
            /\ { row.route : row \in rows } = { e[1] : e \in Joined(d, x) }
            /\ Cardinality({ e[1] : e \in Joined(d, x) }) = Len(x.participants)
<1> DEFINE p == x.participants
           rows == { EndpointRow(d, e) : e \in Joined(d, x) }
           routes == { e[1] : e \in Joined(d, x) }
           f == [row \in rows |-> row.route]
           g == [i \in DOMAIN p |-> CHOOSE row \in rows : row.id = p[i].endpoint]
<1>1. IsDraft(d) /\ EndsDiffer(d) /\ IsConnection(x) /\ Joins(d, x)
  BY DraftHoldsMeans DEF DraftHolds, ConnectionsHold, ConnectionHolds
<1>2. PICK n \in Nat : n = Len(p) /\ DOMAIN p = 1..n
  BY <1>1, SequenceParts DEF IsConnection
<1>3. Cardinality(routes) = n
  BY <1>1, <1>2, JoinsRoutes DEF Joins
<1>4. \A e : EndpointRow(d, e).id = EndId(d, e[1], e[2]) /\ EndpointRow(d, e).route = e[1]
  BY DEF EndpointRow, EndId
<1>5. \A e : e \in Joined(d, x) <=> e = <<e[1], e[2]>> /\ \E i \in 1..n : AtEnd(d, p[i], e[1], e[2])
  BY <1>1, <1>2, JoinedAt
<1>6. f \in Surjection(rows, routes) /\ { row.route : row \in rows } = routes
  BY <1>4 DEF Surjection
<1>7. ASSUME NEW i \in 1..n
      PROVE  \E row \in rows : row.id = p[i].endpoint
  <2>1. PICK r \in DOMAIN d.routes, j \in 1..2 : AtEnd(d, p[i], r, j)
    BY <1>1, <1>2 DEF Joins
  <2>2. <<r, j>> \in Joined(d, x)
    BY <1>5, <2>1
  <2>3. EndpointRow(d, <<r, j>>) \in rows /\ EndpointRow(d, <<r, j>>).id = p[i].endpoint
    BY <1>4, <2>1, <2>2 DEF AtEnd
  <2> QED
    BY <2>3
<1>8. ASSUME NEW row \in rows
      PROVE  \E i \in 1..n : row.id = p[i].endpoint
  <2>1. PICK e \in Joined(d, x) : row = EndpointRow(d, e)
    BY <1>8
  <2>2. PICK i \in 1..n : AtEnd(d, p[i], e[1], e[2])
    BY <1>5
  <2> QED
    BY <1>4, <2>1, <2>2 DEF AtEnd
<1>9. ASSUME NEW row \in rows, NEW other \in rows, row.id = other.id
      PROVE  row = other
  <2>1. PICK e \in Joined(d, x) : row = EndpointRow(d, e)
    BY <1>9
  <2>2. PICK k \in Joined(d, x) : other = EndpointRow(d, k)
    BY <1>9
  <2>3. /\ e[1] \in DOMAIN d.routes /\ e[2] \in 1..2 /\ k[1] \in DOMAIN d.routes /\ k[2] \in 1..2
        /\ e = <<e[1], e[2]>> /\ k = <<k[1], k[2]>>
    BY <1>5 DEF AtEnd
  <2>4. EndId(d, e[1], e[2]) = EndId(d, k[1], k[2])
    BY <1>4, <1>9, <2>1, <2>2
  <2>5. e[1] = k[1] /\ e[2] = k[2]
    BY <1>1, <2>3, <2>4 DEF EndsDiffer
  <2> QED
    BY <2>1, <2>2, <2>3, <2>5
<1> HIDE DEF rows
<1>10. \A i \in 1..n : g[i] \in rows /\ g[i].id = p[i].endpoint
  BY <1>2, <1>7
<1>11. g \in Surjection(1..n, rows)
  <2>1. g \in [1..n -> rows]
    BY <1>2, <1>7
  <2> HIDE DEF g
  <2>2. \A row \in rows : \E i \in 1..n : g[i] = row
    BY <1>8, <1>9, <1>10
  <2> QED
    BY <2>1, <2>2 DEF Surjection
<1> HIDE DEF f, g, routes
<1>12. IsFiniteSet(1..n) /\ Cardinality(1..n) = n
  BY <1>2, FS_Interval
<1>13. IsFiniteSet(rows) /\ Cardinality(rows) <= n
  BY <1>11, <1>12, FS_Surjection
<1>14. Cardinality(routes) <= Cardinality(rows)
  BY <1>6, <1>13, FS_Surjection
<1>15. Cardinality(rows) \in Nat
  BY <1>13, FS_CardinalityType
<1>16. Cardinality(rows) = n
  BY <1>2, <1>3, <1>13, <1>14, <1>15
<1> QED
  BY <1>2, <1>3, <1>6, <1>16 DEF rows, routes

LEMMA ConnectionsAreStorable ==
  ASSUME NEW d, NEW products, NEW templates, DraftHolds(d, products, templates), DraftAccepted(d)
  PROVE  ConnectionsStorable(d, products)
<1>1. IsDraft(d) /\ EndsDiffer(d) /\ ConnectionsHold(d, products)
  BY DraftHoldsMeans DEF DraftHolds
<1>2. \A x \in d.connections : IsConnection(x) /\ Joins(d, x) /\ x.material \in products \cup {None}
  BY <1>1 DEF ConnectionsHold, ConnectionHolds
<1>3. \A x, y \in d.connections : x # y => x.id # y.id /\ ParticipantEnds(x) \cap ParticipantEnds(y) = {}
  BY <1>1 DEF ConnectionsHold
<1>4. Distinct(d.connections, LAMBDA x : x.id)
  BY <1>3 DEF Distinct
<1>5. \A row : row \in ParticipantRows(d) <=>
        \E y \in d.connections : \E i \in DOMAIN y.participants :
          row = [connection |-> y.id, endpoint |-> y.participants[i].endpoint, order |-> i - 1]
  BY DEF ParticipantRows
<1>6. Distinct(ParticipantRows(d), LAMBDA row : row.endpoint)
  <2> SUFFICES ASSUME NEW a \in ParticipantRows(d), NEW b \in ParticipantRows(d), a.endpoint = b.endpoint
               PROVE  a = b
    BY DEF Distinct
  <2>1. PICK x \in d.connections : \E i \in DOMAIN x.participants :
          a = [connection |-> x.id, endpoint |-> x.participants[i].endpoint, order |-> i - 1]
    BY <1>5
  <2>2. PICK i \in DOMAIN x.participants :
          a = [connection |-> x.id, endpoint |-> x.participants[i].endpoint, order |-> i - 1]
    BY <2>1
  <2>3. PICK y \in d.connections : \E k \in DOMAIN y.participants :
          b = [connection |-> y.id, endpoint |-> y.participants[k].endpoint, order |-> k - 1]
    BY <1>5
  <2>4. PICK k \in DOMAIN y.participants :
          b = [connection |-> y.id, endpoint |-> y.participants[k].endpoint, order |-> k - 1]
    BY <2>3
  <2>5. x.participants[i].endpoint = y.participants[k].endpoint
    BY <2>2, <2>4
  <2>6. x = y
    <3>1. a.endpoint \in ParticipantEnds(x) /\ a.endpoint \in ParticipantEnds(y)
      BY <2>2, <2>4, <2>5 DEF ParticipantEnds
    <3> QED
      BY <1>3, <3>1
  <2>7. PICK r \in DOMAIN d.routes, j \in 1..2 : AtEnd(d, x.participants[i], r, j)
    BY <1>2, <2>2 DEF Joins
  <2>8. PICK q \in DOMAIN d.routes, l \in 1..2 : AtEnd(d, x.participants[k], q, l)
    BY <1>2, <2>4, <2>6 DEF Joins
  <2>9. r = q
    <3>1. EndId(d, r, j) = x.participants[i].endpoint /\ EndId(d, q, l) = x.participants[k].endpoint
      BY <2>7, <2>8 DEF AtEnd
    <3> QED
      BY <1>1, <2>5, <2>6, <3>1 DEF EndsDiffer
  <2>10. i = k
    <3>1. x.participants[i].route = r /\ x.participants[k].route = q
      BY <2>7, <2>8 DEF AtEnd
    <3>2. i \in DOMAIN x.participants /\ k \in DOMAIN x.participants
      BY <2>2, <2>4, <2>6
    <3>3. Joins(d, x)
      BY <1>2
    <3> QED
      BY <2>9, <3>1, <3>2, <3>3 DEF Joins
  <2> QED
    BY <2>2, <2>4, <2>6, <2>10
<1>7. ASSUME NEW row \in ParticipantRows(d)
      PROVE  row.order <= 2 /\ \E end \in EndpointRows(d) : end.id = row.endpoint
  <2>1. PICK x \in d.connections : \E i \in DOMAIN x.participants :
          row = [connection |-> x.id, endpoint |-> x.participants[i].endpoint, order |-> i - 1]
    BY <1>5
  <2>2. PICK i \in DOMAIN x.participants :
          row = [connection |-> x.id, endpoint |-> x.participants[i].endpoint, order |-> i - 1]
    BY <2>1
  <2>3. PICK r \in DOMAIN d.routes, j \in 1..2 : AtEnd(d, x.participants[i], r, j)
    BY <1>2, <2>2 DEF Joins
  <2>4. <<r, j>> \in EndsOf(d)
    BY DEF EndsOf
  <2>5. EndpointRow(d, <<r, j>>) \in EndpointRows(d) /\ EndpointRow(d, <<r, j>>).id = row.endpoint
    <3>1. EndpointRow(d, <<r, j>>).id = EndId(d, r, j)
      BY DEF EndpointRow, EndId
    <3>2. x.participants[i].endpoint = EndId(d, r, j)
      BY <2>3 DEF AtEnd
    <3> QED
      BY <2>2, <2>4, <3>1, <3>2 DEF EndpointRows
  <2>6. Len(x.participants) \in {2, 3} /\ DOMAIN x.participants = 1..Len(x.participants)
    BY <1>2, SequenceParts DEF Joins, MayJoin, IsConnection
  <2>7. row.order = i - 1 /\ i \in 1..3
    BY <2>2, <2>6
  <2> QED
    BY <2>5, <2>7
<1>8. ASSUME NEW x \in d.connections
      PROVE  /\ x.type = "logicalContinuation" => ConnectionRow(x).material = "none"
             /\ ConnectionRow(x).product \in products \cup {None}
             /\ CardinalityHolds(x, { end \in EndpointRows(d) :
                                  \E row \in ParticipantRows(d) : row.connection = x.id /\ row.endpoint = end.id })
  <2>1. PICK rows : rows = { EndpointRow(d, e) : e \in Joined(d, x) }
    OBVIOUS
  <2>2. /\ Cardinality(rows) = Len(x.participants) /\ { row.route : row \in rows } = { e[1] : e \in Joined(d, x) }
        /\ Cardinality({ e[1] : e \in Joined(d, x) }) = Len(x.participants)
    BY <2>1, ParticipantsCounted
  <2>3. ConnectionJoins(d, x)
    BY DEF DraftAccepted, DraftReferencesAccepted
  <2>4. Len(x.participants) = 2 => { row.position : row \in rows } = {"start", "end"}
    <3>1. Len(x.participants) = 2 => { e[2] : e \in Joined(d, x) } = {1, 2}
      BY <2>3, Zenon DEF ConnectionJoins
    <3>2. \A e : EndpointRow(d, e).position = IF e[2] = 1 THEN "start" ELSE "end"
      BY DEF EndpointRow
    <3>3. { row.position : row \in rows } = { IF e[2] = 1 THEN "start" ELSE "end" : e \in Joined(d, x) }
      BY <2>1, <3>2
    <3> QED
      BY <3>1, <3>3
  <2>5. x.type = "logicalContinuation" => \A row \in rows : row.kind = "routeContinuation"
    <3>1. ConnectionContinues(d, x)
      BY DEF DraftAccepted, DraftEntriesAccepted
    <3>2. \A e : EndpointRow(d, e).kind = d.routes[e[1]].ends[e[2]].type
      BY DEF EndpointRow
    <3> QED
      BY <2>1, <3>1, <3>2 DEF ConnectionContinues
  <2>6. Len(x.participants) \in (IF x.type = "tee" THEN {3} ELSE IF x.type = "custom" THEN {2, 3} ELSE {2})
    BY <1>2 DEF Joins, MayJoin
  <2>7. CardinalityHolds(x, rows)
    BY <2>2, <2>4, <2>5, <2>6 DEF CardinalityHolds
  <2>8. ConnectionRow(x).product \in products \cup {None}
    BY <1>2 DEF ConnectionRow
  <2>9. x.type = "logicalContinuation" => ConnectionRow(x).material = "none"
    BY DEF ConnectionRow, MaterialOf
  <2>10. { end \in EndpointRows(d) : \E row \in ParticipantRows(d) : row.connection = x.id /\ row.endpoint = end.id } = rows
    BY <2>1, ParticipantsOf
  <2> QED
    BY <2>7, <2>8, <2>9, <2>10
<1> QED
  BY <1>4, <1>6, <1>7, <1>8, Zenon DEF ConnectionsStorable

LEMMA HeldIsStorable ==
  ASSUME NEW d, NEW products, NEW templates, DraftHolds(d, products, templates), DraftAccepted(d)
  PROVE  Storable(d, products, templates)
<1>1. DraftEntriesAccepted(d) /\ DraftReferencesAccepted(d)
  BY DEF DraftAccepted
<1>2. IsDraft(d) /\ OnRecord(d, products, templates) /\ EndsDiffer(d) /\ ItemsDiffer(d)
  BY DraftHoldsMeans DEF DraftHolds
<1>3. \A r \in DOMAIN d.routes : DraftRouteAccepted(d.routes[r])
  BY <1>1 DEF DraftEntriesAccepted
<1>4. RoutesStorable(d)
  BY <1>1, Zenon DEF DraftEntriesAccepted, RoutesStorable
<1>5. EndpointsStorable(d, products)
  <2>1. Distinct(EndsOf(d), LAMBDA e : EndpointRow(d, e).id)
    <3>1. \A e : EndpointRow(d, e).id = d.routes[e[1]].ends[e[2]].id
      BY DEF EndpointRow
    <3>2. Distinct(EndsOf(d), LAMBDA e : d.routes[e[1]].ends[e[2]].id)
      BY <1>1, Zenon DEF DraftReferencesAccepted
    <3> QED
      BY <3>1, <3>2 DEF Distinct
  <2>2. ASSUME NEW row \in EndpointRows(d)
        PROVE  NeededTexts(row.kind) \subseteq row.texts /\ row.product \in products \cup {None}
    <3>1. PICK e \in EndsOf(d) : row = EndpointRow(d, e)
      BY DEF EndpointRows
    <3>2. e[1] \in DOMAIN d.routes /\ e[2] \in 1..2
      BY DEF EndsOf
    <3>3. DraftEndAccepted(d.routes[e[1]].ends[e[2]])
      BY <1>3, <3>2 DEF DraftRouteAccepted
    <3>4. d.routes[e[1]].ends[e[2]].product \in products \cup {None}
      BY <1>2 DEF OnRecord
    <3> QED
      BY <3>1, <3>3, <3>4 DEF EndpointRow, DraftEndAccepted
  <2> QED
    BY <2>1, <2>2, Zenon DEF EndpointsStorable
<1>6. GeometryStorable(d, products)
  <2>1. Distinct(ItemsOf(d), LAMBDA g : d.routes[g[1]].geometry[g[2]].id)
    BY <1>1, Zenon DEF DraftReferencesAccepted
  <2>2. ASSUME NEW g \in ItemsOf(d)
        PROVE  LET item == d.routes[g[1]].geometry[g[2]]
               IN /\ item.kind = "straight" => item.length # Zero
                  /\ item.kind = "fitting" => (item.type = "custom" => item.described) /\ item.product \in products \cup {None}
    <3>1. g[1] \in DOMAIN d.routes /\ g[2] \in DOMAIN d.routes[g[1]].geometry
      BY DEF ItemsOf
    <3>2. DraftItemAccepted(d.routes[g[1]].geometry[g[2]])
      BY <1>3, <3>1 DEF DraftRouteAccepted
    <3>3. ~Straight(d.routes[g[1]].geometry[g[2]]) => d.routes[g[1]].geometry[g[2]].product \in products \cup {None}
      BY <1>2 DEF OnRecord
    <3> QED
      BY <3>2, <3>3 DEF DraftItemAccepted, Straight
  <2>3. ASSUME NEW kind \in {"straight", "fitting"}
        PROVE  Distinct({ g \in ItemsOf(d) : d.routes[g[1]].geometry[g[2]].kind = kind }, LAMBDA g : d.routes[g[1]].geometry[g[2]].id)
    BY <2>1 DEF Distinct
  <2> QED
    BY <2>2, <2>3 DEF GeometryStorable
<1>7. SupportsStorable(d, products, templates)
  <2>1. ASSUME NEW r \in DOMAIN d.routes
        PROVE  LET row == SupportRow(d.routes[r].supports)
               IN /\ Leq(Zero, row.spacing) /\ row.anchors >= 0 /\ row.perSupport >= 0
                  /\ row.type \in {"wall", "ceiling", "floor", "custom", None}
                  /\ row.base \in {"concrete", "steel", "masonry", "unknown", None}
                  /\ row.template \in templates \cup {None} /\ row.anchor \in products \cup {None}
                  /\ row.mode \in {None, "manual"} \/ <<row.mode, row.perSupport>> \in {<<"one", 1>>, <<"two", 2>>}
    <3>1. PICK s, row : s = d.routes[r].supports /\ row = SupportRow(s)
      OBVIOUS
    <3>2. IsSupports(s)
      BY <1>2, <3>1 DEF IsDraft, IsRoute
    <3>3. s.anchorOverride # Blank
      BY <1>3, <3>1 DEF DraftRouteAccepted, DraftSupportsAccepted
    <3>4. s.template \in templates \cup {None} /\ s.anchor \in products \cup {None}
      BY <1>2, <3>1 DEF OnRecord
    <3>5. /\ row.spacing = s.spacing /\ row.type = s.type /\ row.template = s.template /\ row.base = s.substrate
          /\ row.anchor = s.anchor /\ row.anchors = s.anchorOverride
          /\ row.mode = (IF s.wstbMode = "custom" THEN "manual" ELSE s.wstbMode)
          /\ row.perSupport = (IF s.wstbMode = "one" THEN 1 ELSE IF s.wstbMode = "two" THEN 2 ELSE s.wstbQuantity)
      BY <3>1 DEF SupportRow
    <3>6. Leq(Zero, row.spacing)
      BY <3>2, <3>5, ZeroIsLeast DEF IsSupports
    <3>7. row.anchors >= 0 /\ row.perSupport >= 0
      BY <3>2, <3>3, <3>5 DEF IsSupports
    <3>8. row.type \in {"wall", "ceiling", "floor", "custom", None}
      BY <3>2, <3>5 DEF IsSupports, SupportTypes
    <3>9. row.base \in {"concrete", "steel", "masonry", "unknown", None}
      BY <3>2, <3>5 DEF IsSupports, SubstrateTypes
    <3>10. row.mode \in {None, "manual"} \/ <<row.mode, row.perSupport>> \in {<<"one", 1>>, <<"two", 2>>}
      BY <3>2, <3>5 DEF IsSupports
    <3> QED
      BY <3>1, <3>4, <3>5, <3>6, <3>7, <3>8, <3>9, <3>10
  <2> QED
    BY <2>1, Zenon DEF SupportsStorable
<1>8. ManualItemsStorable(d, products)
  <2>1. Distinct(d.manualItems, LAMBDA m : m.id)
    BY <1>1, Zenon DEF DraftReferencesAccepted
  <2>2. \A m \in d.manualItems : m.quantity # Zero /\ m.product \in products \cup {None}
    BY <1>1, <1>2 DEF DraftEntriesAccepted, DraftManualItemAccepted, OnRecord
  <2> QED
    BY <2>1, <2>2, Zenon DEF ManualItemsStorable
<1>9. ConnectionsStorable(d, products)
  BY ConnectionsAreStorable
<1> QED
  BY <1>4, <1>5, <1>6, <1>7, <1>8, <1>9 DEF Storable

---------------------------------------------------------------------------
(* The editor, whatever is edited in it.                                                   *)

\* The page holds a draft that has been reconciled with the catalog that it shows; what is
\* submitted, or stored and accepted, holds together.
PageInv ==
  stage = "edit" => /\ \E d : DraftHolds(d, Recorded, RecordedTemplates) /\ draft = Reconciled(d)
                    /\ CatalogShown /\ FormFits(form)
SubmittedInv == stage = "prepare" => DraftHolds(draft, Recorded, RecordedTemplates)
EditorInv == PageInv /\ SubmittedInv

LEMMA PageHolds ==
  EditorInv /\ stage = "edit" => Page /\ CatalogShown /\ FormFits(form) /\ Reconciled(draft) = draft
<1> SUFFICES ASSUME EditorInv, stage = "edit"
             PROVE  Page /\ CatalogShown /\ FormFits(form) /\ Reconciled(draft) = draft
  OBVIOUS
<1>1. CatalogShown /\ FormFits(form)
  BY DEF EditorInv, PageInv
<1>2. PICK d : DraftHolds(d, Recorded, RecordedTemplates) /\ draft = Reconciled(d)
  BY DEF EditorInv, PageInv
<1>3. DraftHolds(draft, Recorded, RecordedTemplates) /\ Reconciled(draft) = draft
  BY <1>1, <1>2, DraftReconciled
<1> QED
  BY <1>1, <1>3 DEF Page, CatalogShown

LEMMA EditorStartsSound ==
  Init => EditorInv
<1> SUFFICES ASSUME Init PROVE EditorInv
  OBVIOUS
<1>1. CASE RequestStarts
  <2>1. draft \in Drafts /\ DraftAccepted(draft) /\ catalog \in Catalogs /\ stage = "prepare"
    BY <1>1 DEF RequestStarts
  <2>2. IsDraft(draft) /\ OnRecord(draft, Recorded, RecordedTemplates)
    BY <2>1, StoredAssumption DEF Recorded, RecordedTemplates
  <2>3. DraftHolds(draft, Recorded, RecordedTemplates)
    BY <2>1, <2>2, DraftHoldsMeans DEF DraftAccepted
  <2> QED
    BY <2>1, <2>3 DEF EditorInv, PageInv, SubmittedInv
<1>2. CASE EditorStarts
  <2>1. PICK page \in EditorPages : DraftAccepted(page[2]) /\ OpenedWith(page[1], page[2])
    BY <1>2 DEF EditorStarts
  <2>2. /\ catalog = page[1] /\ shown = EditorCatalog(catalog) /\ draft = Reconciled(page[2]) /\ form = NoForm
        /\ stage = "edit"
    BY <1>2, <2>1 DEF EditorStarts, OpenedWith
  <2>3. IsCatalog(page[1]) /\ IsDraft(page[2]) /\ OnRecord(page[2], Recorded, RecordedTemplates)
    BY <2>2, StoredAssumption DEF Recorded, RecordedTemplates
  <2>4. DraftHolds(page[2], Recorded, RecordedTemplates)
    BY <2>1, <2>3, DraftHoldsMeans DEF DraftAccepted
  <2> QED
    BY <2>2, <2>3, <2>4, EmptyFormFits DEF EditorInv, PageInv, SubmittedInv, CatalogShown
<1>3. CASE EngineStarts
  BY <1>3 DEF EngineStarts, EditorInv, PageInv, SubmittedInv
<1> QED
  BY <1>1, <1>2, <1>3 DEF Init

\* What the page's invariant says depends on what the page shows and on the catalog.
LEMMA RecordedAsBefore ==
  UNCHANGED catalog => Recorded' = Recorded /\ RecordedTemplates' = RecordedTemplates
BY DEF Recorded, RecordedTemplates, ProductsOnRecord, TemplatesOnRecord

LEMMA ShownAsBefore ==
  CatalogShown /\ UNCHANGED <<catalog, shown>> => CatalogShown'
<1> SUFFICES ASSUME CatalogShown, UNCHANGED <<catalog, shown>> PROVE CatalogShown'
  OBVIOUS
<1> QED
  BY DEF CatalogShown

LEMMA PageKeeps ==
  ASSUME EditorInv, stage = "edit", stage' = "edit",
         UNCHANGED <<catalog, shown>>, FormFits(form'),
         \E d : DraftHolds(d, Recorded, RecordedTemplates) /\ draft' = Reconciled(d)
  PROVE  EditorInv'
<1>1. Recorded' = Recorded /\ RecordedTemplates' = RecordedTemplates
  BY RecordedAsBefore
<1>2. CatalogShown'
  BY ShownAsBefore DEF EditorInv, PageInv
<1>3. FormFits(form)'
  BY <1>1 DEF FormFits
<1>4. PICK d : DraftHolds(d, Recorded, RecordedTemplates) /\ draft' = Reconciled(d)
  OBVIOUS
<1>5. DraftHolds(d, Recorded', RecordedTemplates') /\ draft' = Reconciled(d)'
  BY <1>1, <1>4, ReconciledAsShown
<1>6. (\E e : DraftHolds(e, Recorded, RecordedTemplates) /\ draft = Reconciled(e))'
  BY <1>5
<1> QED
  BY <1>2, <1>3, <1>6 DEF EditorInv, PageInv, SubmittedInv

LEMMA EditorKeeps ==
  EditorInv /\ CalculationInv /\ [Next]_vars => EditorInv'
<1> SUFFICES ASSUME EditorInv, CalculationInv, [Next]_vars PROVE EditorInv'
  OBVIOUS
<1>1. CASE stage = "edit" /\ Edit /\ UNCHANGED <<operation, reply, engineVars>>
  <2>1. stage = "edit" /\ stage' = "edit"
    BY <1>1 DEF engineVars
  <2>2. Page /\ FormFits(form)
    BY <2>1, PageHolds
  <2>3. CASE Edited
    <3>1. FormFits(form')
      BY <2>2, <2>3, EmptyFormFits DEF Edited
    <3> QED
      BY <2>1, <2>3, <3>1, PageKeeps DEF Edited
  <2>4. CASE Filled
    <3>1. \E d : DraftHolds(d, Recorded, RecordedTemplates) /\ draft' = Reconciled(d)
      BY <2>1, <2>4 DEF Filled, EditorInv, PageInv
    <3> QED
      BY <2>1, <2>4, <3>1, PageKeeps DEF Filled
  <2> QED
    BY <1>1, <2>2, <2>3, <2>4, EditsAreEdits
<1>2. CASE Submit
  <2>1. stage = "edit" /\ stage' = "prepare" /\ UNCHANGED <<draft, catalog>>
    BY <1>2 DEF Submit, editorVars
  <2>2. DraftHolds(draft, Recorded, RecordedTemplates)
    BY <2>1, PageHolds DEF Page
  <2>3. Recorded' = Recorded /\ RecordedTemplates' = RecordedTemplates
    BY <2>1, RecordedAsBefore
  <2>4. DraftHolds(draft, Recorded, RecordedTemplates)'
    BY <2>1, <2>2, <2>3
  <2> QED
    BY <2>1, <2>4 DEF EditorInv, PageInv, SubmittedInv
<1>3. CASE Prepare
  BY <1>3 DEF Prepare, EditorInv, PageInv, SubmittedInv
<1>4. CASE Calculate
  <2>1. stage \in Stages
    BY <1>4 DEF Stages, Calculate, Parse, EmitSections, GroupSupports, EmitJoints, EmitFittings,
                EmitSupports, EmitEndpoints, EmitManualItems, Suppress, Build
  <2>2. EngineInv'
    BY <1>4, <2>1, StagesKeep DEF CalculationInv, EngineKept
  <2>3. stage' \notin {"edit", "prepare"}
    BY <2>2 DEF EngineInv, Stages
  <2> QED
    BY <2>3 DEF EditorInv, PageInv, SubmittedInv
<1>5. CASE Respond
  BY <1>5 DEF Respond, EditorInv, PageInv, SubmittedInv
<1>6. CASE UNCHANGED vars
  <2>1. UNCHANGED <<stage, draft, catalog, shown, form>>
    BY <1>6 DEF vars, engineVars, editorVars
  <2>2. Recorded' = Recorded /\ RecordedTemplates' = RecordedTemplates
    BY <2>1, RecordedAsBefore
  <2>3. SubmittedInv'
    <3>1. ASSUME stage' = "prepare" PROVE DraftHolds(draft, Recorded, RecordedTemplates)'
      BY <2>1, <2>2, <3>1 DEF EditorInv, SubmittedInv
    <3> QED
      BY <3>1 DEF SubmittedInv
  <2>4. CASE stage = "edit"
    <3>1. FormFits(form')
      BY <2>1, <2>4 DEF EditorInv, PageInv
    <3>2. \E d : DraftHolds(d, Recorded, RecordedTemplates) /\ draft' = Reconciled(d)
      BY <2>1, <2>4 DEF EditorInv, PageInv
    <3> QED
      BY <2>1, <2>4, <3>1, <3>2, PageKeeps
  <2>5. CASE stage # "edit"
    BY <2>1, <2>3, <2>5 DEF EditorInv, PageInv
  <2> QED
    BY <2>4, <2>5
<1> QED
  BY <1>1, <1>2, <1>3, <1>4, <1>5, <1>6 DEF Next

LEMMA EditorInvariance ==
  Spec => []EditorInv
BY StartsWithNothing, RequestsKeep, EditorStartsSound, EditorKeeps, PTL DEF Spec

\* Whatever is edited, for how long and in whatever order, and whatever the catalog offers:
\* the parts of the draft refer to each other as its schema demands; nothing is left in it
\* that the catalog does not offer, so that clearing it once is enough; what the page offers
\* to calculate passes the preflight, but for a manual item in another unit than its
\* product's; and a draft that the schema accepts, the tables accept (project-editor.tsx,
\* project-editor-sections.tsx, catalog-selection.ts, project-service.ts, replaceGraph of
\* project-repository.ts).
THEOREM EditedDraftsAreSound ==
  Spec => []DraftsAreSound
<1>1. EditorInv => AcceptedIsStorable
  <2> SUFFICES ASSUME EditorInv, stage \in {"edit", "prepare"}, DraftAccepted(draft)
               PROVE  Storable(draft, ProductsOnRecord(catalog), TemplatesOnRecord(catalog))
    BY DEF AcceptedIsStorable
  <2>1. DraftHolds(draft, Recorded, RecordedTemplates)
    BY PageHolds DEF EditorInv, SubmittedInv, Page
  <2> QED
    BY <2>1, HeldIsStorable DEF Recorded, RecordedTemplates
<1>2. EditorInv => EditorIsSound
  <2> SUFFICES ASSUME EditorInv, stage = "edit"
               PROVE  /\ DraftReferencesAccepted(draft) /\ Reconciled(draft) = draft
                      /\ CanCalculateLocally /\ ~Leftovers(draft) /\ OfferedAsUsed(catalog)
                           => PreflightIssues(catalog, draft) \subseteq {"MANUAL_CATALOG_UNIT_MISMATCH"}
    BY DEF EditorIsSound
  <2>1. DraftHolds(draft, Recorded, RecordedTemplates) /\ CatalogShown /\ Reconciled(draft) = draft
    BY PageHolds DEF Page
  <2>2. DraftReferencesAccepted(draft)
    BY <2>1, DraftHoldsMeans
  <2> QED
    BY <2>1, <2>2, PreflightPasses
<1> QED
  BY <1>1, <1>2, EditorInvariance, PTL DEF DraftsAreSound

---------------------------------------------------------------------------
(* What the selections of a draft become.                                                  *)

\* The engine is given the translation of the draft, and what it demands for a support
\* group is of that group.
PreparedInv ==
  stage \in Stages =>
    /\ AssembledInv
    /\ operation # "calculateV2" => IsDraft(draft) /\ input = CalculationParts(catalog, draft)

LEMMA PreparedStarts ==
  Init => PreparedInv
<1> SUFFICES ASSUME Init, stage \in Stages PROVE AssembledInv /\ operation = "calculateV2"
  BY DEF PreparedInv
<1>1. events = {}
  BY DEF Init, NothingComputed
<1>2. EngineStarts
  BY DEF Init, RequestStarts, EditorStarts, Stages
<1> QED
  BY <1>1, <1>2 DEF EngineStarts, AssembledInv

LEMMA InputStays ==
  Calculate => UNCHANGED input
BY Zenon DEF Calculate, Parse, EmitSections, GroupSupports, EmitJoints, EmitFittings, EmitSupports, EmitEndpoints,
             EmitManualItems, Suppress, Build, Emit, Refuse

LEMMA PreparedKeeps ==
  PreparedInv /\ CalculationInv /\ EditorInv /\ [Next]_vars => PreparedInv'
<1> SUFFICES ASSUME PreparedInv, CalculationInv, EditorInv, [Next]_vars PROVE PreparedInv'
  OBVIOUS
<1>1. CASE UNCHANGED <<stage, events, input, operation, draft, catalog>>
  BY <1>1 DEF PreparedInv, AssembledInv
<1>2. CASE Submit
  BY <1>2 DEF Submit, PreparedInv, Stages
<1>3. CASE Prepare
  <2>1. UNCHANGED <<events, draft, catalog, operation>> /\ stage = "prepare" /\ stage' \in {"answered", "parse"}
    BY <1>3 DEF Prepare, editorVars
  <2>2. AssembledInv'
    BY <2>1 DEF CalculationInv, NothingYet, AssembledInv
  <2>3. CASE stage' = "parse"
    <3>1. input' = CalculationParts(catalog, draft)
      BY <1>3, <2>3 DEF Prepare
    <3>2. IsDraft(draft)
      BY <2>1, DraftHoldsMeans DEF EditorInv, SubmittedInv
    <3>3. (IsDraft(draft) /\ input = CalculationParts(catalog, draft))'
      BY <2>1, <3>1, <3>2
    <3> QED
      BY <2>2, <3>3 DEF PreparedInv
  <2>4. CASE stage' = "answered"
    BY <2>4 DEF PreparedInv, Stages
  <2> QED
    BY <2>1, <2>3, <2>4
<1>4. CASE Calculate /\ UNCHANGED <<operation, editorVars, reply>>
  <2>1. stage \in Stages
    BY <1>4 DEF Stages, Calculate, Parse, EmitSections, GroupSupports, EmitJoints, EmitFittings,
                EmitSupports, EmitEndpoints, EmitManualItems, Suppress, Build
  <2>2. UNCHANGED <<input, operation, draft, catalog>>
    BY <1>4, InputStays DEF editorVars
  <2>3. AssembledInv'
    BY <1>4, <2>1, StagesAssemble DEF PreparedInv, CalculationInv, EngineKept
  <2> QED
    BY <2>1, <2>2, <2>3 DEF PreparedInv
<1>5. CASE Respond
  BY <1>5 DEF Respond, PreparedInv, Stages
<1>6. CASE stage = "edit" /\ Edit /\ UNCHANGED <<operation, reply, engineVars>>
  <2>1. stage' = "edit"
    BY <1>6 DEF engineVars
  <2> QED
    BY <2>1 DEF PreparedInv, Stages
<1>7. vars' = vars => UNCHANGED <<stage, events, input, operation, draft, catalog>>
  BY DEF vars, engineVars, editorVars
<1> QED
  BY <1>1, <1>2, <1>3, <1>4, <1>5, <1>6, <1>7 DEF Next

LEMMA PreparedInvariance ==
  Spec => []PreparedInv
BY StartsWithNothing, RequestsKeep, EditorStartsSound, EditorKeeps, PreparedStarts, PreparedKeeps, PTL DEF Spec

\* What a route becomes: its selections stay what they are.
LEMMA RouteTranslated ==
  ASSUME NEW c, NEW d, IsDraft(d), NEW in, in = CalculationParts(c, d), NEW r \in DOMAIN d.routes,
         NEW route, route = d.routes[r]
  PROVE  /\ Routes(in) = DOMAIN d.routes
         /\ in.routes[r].product = route.straight
         /\ in.routes[r].supports = SupportsInput(route)
         /\ DOMAIN in.routes[r].geometry = DOMAIN route.geometry
         /\ \A i \in DOMAIN route.geometry :
              Straight(route.geometry[i]) => in.routes[r].geometry[i] = route.geometry[i]
<1>1. in.routes = [q \in DOMAIN d.routes |-> RouteInput(d, d.routes[q])]
  BY DEF CalculationParts
<1>2. in.routes[r] = RouteInput(d, route)
  BY <1>1
<1>3. PICK geometry, ends, supports :
        /\ geometry = [i \in DOMAIN route.geometry |-> GeometryInput(route.geometry[i])]
        /\ ends = [i \in 1..2 |-> EndInput(d, route.ends[i])]
        /\ supports = SupportsInput(route)
  OBVIOUS
<1>4. in.routes[r] = [product |-> route.straight, option |-> route.option, geometry |-> geometry, ends |-> ends,
                      supports |-> supports]
  BY <1>2, <1>3, Zenon DEF RouteInput
<1>5. /\ in.routes[r].product = route.straight /\ in.routes[r].supports = supports
      /\ in.routes[r].geometry = geometry
  BY <1>4
<1>6. \A i \in DOMAIN route.geometry : Straight(route.geometry[i]) => geometry[i] = route.geometry[i]
  BY <1>3 DEF GeometryInput
<1>7. DOMAIN geometry = DOMAIN route.geometry
  BY <1>3
<1>8. Routes(in) = DOMAIN d.routes
  BY <1>1 DEF Routes
<1> QED
  BY <1>3, <1>5, <1>6, <1>7, <1>8

Chosen == {"spacing", "product", "template", "anchor", "anchorOverride", "wstb", "wstbMode", "wstbQuantity"}

LEMMA SupportsTranslated ==
  ASSUME NEW route, IsSupports(route.supports), NEW s, s = SupportsInput(route)
  PROVE  \A f \in Chosen : s[f] = route.supports[f]
<1>1. Chosen \subseteq ((DOMAIN route.supports) \ {"extras"}) \cup {"wstbRule", "extra"}
  BY DEF IsSupports, Chosen
<1>2. \A f \in Chosen : f \notin {"wstbRule", "extra"}
  BY DEF Chosen
<1>3. PICK extra : extra = MapThenSumSet(LAMBDA x : x.quantity, route.supports.extras)
  OBVIOUS
<1>4. s = [f \in ((DOMAIN route.supports) \ {"extras"}) \cup {"wstbRule", "extra"} |->
             CASE f = "wstbRule" -> WstbRule(route)
               [] f = "extra" -> extra
               [] f \notin {"wstbRule", "extra"} -> route.supports[f]]
  BY <1>3, Zenon DEF SupportsInput
<1> QED
  BY <1>1, <1>2, <1>4

\* Routes of one configuration choose the same.
LEMMA KeysAgree ==
  ASSUME NEW s, NEW t, SupportKey(s) = SupportKey(t)
  PROVE  \A f \in Chosen : s[f] = t[f]
<1>1. /\ s.spacing = t.spacing /\ s.product = t.product /\ s.template = t.template /\ s.anchor = t.anchor
      /\ s.anchorOverride = t.anchorOverride /\ s.wstb = t.wstb /\ s.wstbMode = t.wstbMode
      /\ s.wstbQuantity = t.wstbQuantity
  BY DEF SupportKey
<1> QED
  BY <1>1 DEF Chosen

\* The rows of a template that the calculation is given are rows of the catalog.
LEMMA TemplateTranslated ==
  ASSUME NEW c, NEW d, NEW in, in = CalculationParts(c, d), NEW t \in DOMAIN in.templates,
         NEW x \in in.templates[t].components
  PROVE  \E row \in RowsOf(c, t) : row.product = x.product /\ row.quantity = x.quantity
<1>1. in.templates = [u \in UsableTemplates(c) |-> TemplateSnapshot(c, u)]
  BY DEF CalculationParts
<1>2. in.templates[t] = TemplateSnapshot(c, t)
  BY <1>1
<1>4. TemplateSnapshot(c, t).components =
        { [ id |-> row.id, product |-> row.product, role |-> RoleIn(c, row), quantity |-> row.quantity,
            unit |-> row.unit, mode |-> row.mode, suppress |-> row.suppress ] : row \in RowsOf(c, t) }
  BY DEF TemplateSnapshot
<1>3. x \in { [ id |-> row.id, product |-> row.product, role |-> RoleIn(c, row), quantity |-> row.quantity,
                unit |-> row.unit, mode |-> row.mode, suppress |-> row.suppress ] : row \in RowsOf(c, t) }
  BY <1>2, <1>4
<1> QED
  BY <1>3

\* The numbers of anchors that the selected template, or its override, allows.
AnchorChoices(c, s) ==
  IF s.anchorOverride = 0
  THEN { row.quantity : row \in { w \in RowsOf(c, s.template) : w.product = s.anchor } }
  ELSE {Whole(s.anchorOverride)}

LEMMA AnchorsTranslated ==
  ASSUME NEW c, NEW d, NEW in, in = CalculationParts(c, d), NEW s, s.template \in DOMAIN in.templates
  PROVE  AnchorsPer(s, in.templates[s.template]) \subseteq AnchorChoices(c, s)
<1>1. PICK template : template = in.templates[s.template]
  OBVIOUS
<1>2. CASE s.anchorOverride = 0
  <2> SUFFICES ASSUME NEW n \in AnchorsPer(s, template) PROVE n \in AnchorChoices(c, s)
    BY <1>1
  <2>1. PICK x \in template.components : x.product = s.anchor /\ n = x.quantity
    BY <1>2 DEF AnchorsPer
  <2>2. PICK row \in RowsOf(c, s.template) : row.product = x.product /\ row.quantity = x.quantity
    BY <1>1, <2>1, TemplateTranslated
  <2> QED
    BY <1>2, <2>1, <2>2 DEF AnchorChoices
<1>3. CASE s.anchorOverride # 0
  BY <1>3 DEF AnchorsPer, AnchorChoices
<1> QED
  BY <1>2, <1>3

\* What a route selects is what its group is configured with, and is demanded for it.
LEMMA RouteIsServed ==
  ASSUME PreparedInv, CalculationInv, Calculated, result.ready, operation # "calculateV2",
         NEW r \in DOMAIN draft.routes, NEW group, group = (CHOOSE g \in groups : r \in g),
         NEW s, s = draft.routes[r].supports, NEW supports, supports = SupportCount(input, group)
  PROVE  IsServed(group, s, supports, PerSupport(s), AnchorChoices(catalog, s))
<1>1. /\ EngineInv /\ AccountInv /\ AssembledInv
      /\ IsDraft(draft) /\ input = CalculationParts(catalog, draft)
  BY DEF PreparedInv, CalculationInv, EngineKept, Calculated, Stages
<1>2. /\ InputAccepted(input) /\ groups = SupportGroups(input)
  BY <1>1 DEF AccountInv, TopologyKept
<1>3. PICK route : route = draft.routes[r]
  OBVIOUS
<1>4. Routes(input) = DOMAIN draft.routes /\ input.routes[r].supports = SupportsInput(route)
  BY <1>1, <1>3, RouteTranslated
<1>5. \E g \in groups : r \in g
  BY <1>2, <1>4, GroupsDivide
<1>6. group \in groups /\ r \in group
  BY <1>5, Zenon
<1>7. PICK own : own = SupportsInput(route)
  OBVIOUS
<1>8. PICK lead : lead = Configuration(input, group)
  OBVIOUS
<1>9. SupportKey(own) = SupportKey(lead)
  BY <1>2, <1>4, <1>6, <1>7, <1>8, GroupShares
<1>10. IsSupports(route.supports)
  BY <1>1, <1>3 DEF IsDraft, IsRoute
<1>11. \A f \in Chosen : lead[f] = s[f]
  BY <1>3, <1>7, <1>9, <1>10, SupportsTranslated, KeysAgree
<1>12. /\ lead.product = s.product /\ lead.template = s.template /\ lead.anchor = s.anchor
       /\ lead.anchorOverride = s.anchorOverride /\ lead.wstb = s.wstb /\ lead.wstbMode = s.wstbMode
       /\ lead.wstbQuantity = s.wstbQuantity
  BY <1>11 DEF Chosen
<1>13. /\ lead.template # None
       /\ IsServed(group, lead, supports, ClampsPer(lead), AnchorsPer(lead, input.templates[lead.template]))
  BY <1>1, <1>6, <1>8, ReadyGroupIsServed
<1>14. ClampsPer(lead) = PerSupport(s)
  BY <1>12, Zenon DEF ClampsPer, PerSupport
<1>15. lead.template \in DOMAIN input.templates
  BY <1>2, <1>6, <1>8, <1>13, GroupFits, ConfigurationFacts
<1>16. AnchorsPer(lead, input.templates[lead.template]) \subseteq AnchorChoices(catalog, lead)
  BY <1>1, <1>15, AnchorsTranslated
<1>17. AnchorChoices(catalog, lead) = AnchorChoices(catalog, s)
  BY <1>12, Zenon DEF AnchorChoices
<1>18. IsServed(group, lead, supports, PerSupport(s), AnchorChoices(catalog, s))
  BY <1>13, <1>14, <1>16, <1>17 DEF IsServed
<1> QED
  BY <1>12, <1>18 DEF IsServed

\* Its segments have the sections that it selects.
LEMMA SegmentsAreServed ==
  ASSUME PreparedInv, CalculationInv, Calculated, result.ready, operation # "calculateV2",
         NEW r \in DOMAIN draft.routes, NEW route, route = draft.routes[r],
         NEW i \in DOMAIN route.geometry, Straight(route.geometry[i])
  PROVE  \E e \in sections :
           /\ e.from[2] = <<"segment", route.geometry[i].id>>
           /\ e.product = route.straight
           /\ Leq(route.geometry[i].length, Multiply(e.count, e.length))
<1>1. EngineInv /\ IsDraft(draft) /\ input = CalculationParts(catalog, draft)
  BY DEF PreparedInv, CalculationInv, EngineKept, Calculated, Stages
<1>2. /\ Routes(input) = DOMAIN draft.routes /\ input.routes[r].product = route.straight
      /\ DOMAIN input.routes[r].geometry = DOMAIN route.geometry
      /\ input.routes[r].geometry[i] = route.geometry[i]
  BY <1>1, RouteTranslated
<1>3. PICK g : g = <<r, i>>
  OBVIOUS
<1>4. Item(input, g) = route.geometry[i] /\ g[1] = r
  BY <1>2, <1>3 DEF Item
<1>5. g \in Items(input)
  BY <1>2, <1>3 DEF Items
<1>6. g \in Segments(input)
  BY <1>4, <1>5 DEF Segments
<1>7. PICK e \in sections :
        /\ e.from[2] = <<"segment", Item(input, g).id>> /\ e.product = input.routes[g[1]].product
        /\ Leq(Item(input, g).length, Multiply(e.count, e.length))
  BY <1>1, <1>6, ReadySegmentIsCovered
<1> QED
  BY <1>2, <1>4, <1>7

\* When a result of a draft is ready for approval, whatever the draft, the catalog and the
\* editing before it: every route has sections of its selected product for its whole length,
\* and its support group has supports, anchors and WSTB of the products and in the numbers
\* per support that it asks for, though the engine reads them of another route
\* (calculationParts of project-service.ts, support-groups.ts, supports.ts).
THEOREM SelectionsAlwaysHonoured ==
  Spec => []SelectionsAreHonoured
<1>1. PreparedInv /\ CalculationInv => SelectionsAreHonoured
  <2> SUFFICES ASSUME PreparedInv, CalculationInv, Calculated, result.ready, operation # "calculateV2",
                      NEW r \in DOMAIN draft.routes
               PROVE
      LET route == draft.routes[r]
          s == route.supports
          group == CHOOSE g \in groups : r \in g
          OfItsGroup(category, p) == Total({ e \in events : /\ e.from[2] = <<"supportGroup", group>>
                                                                   /\ e.category = category /\ e.product = p })
          supports == SupportCount(input, group)
          perAxis == { row.quantity : row \in { w \in RowsOf(catalog, s.template) : w.product = s.anchor } }
      IN /\ \A i \in DOMAIN route.geometry : Straight(route.geometry[i]) =>
              \E e \in sections :
                /\ e.from[2] = <<"segment", route.geometry[i].id>>
                /\ e.product = route.straight
                /\ Leq(route.geometry[i].length, Multiply(e.count, e.length))
         /\ s.product # None => OfItsGroup("support", s.product) = supports
         /\ s.wstb # None => OfItsGroup("wstb", s.wstb) = Multiply(supports, Whole(PerSupport(s)))
         /\ s.anchor # None =>
              OfItsGroup("anchor", s.anchor) \in
                { Multiply(supports, n) : n \in IF s.anchorOverride = 0 THEN perAxis
                                                ELSE {Whole(s.anchorOverride)} }
    BY Zenon DEF SelectionsAreHonoured
  <2>1. PICK route, s, group, supports :
          /\ route = draft.routes[r] /\ s = route.supports /\ group = (CHOOSE g \in groups : r \in g)
          /\ supports = SupportCount(input, group)
    OBVIOUS
  <2>2. \A i \in DOMAIN route.geometry : Straight(route.geometry[i]) =>
          \E e \in sections : /\ e.from[2] = <<"segment", route.geometry[i].id>>
                              /\ e.product = route.straight
                              /\ Leq(route.geometry[i].length, Multiply(e.count, e.length))
    BY <2>1, SegmentsAreServed
  <2>3. IsServed(group, s, supports, PerSupport(s), AnchorChoices(catalog, s))
    <3>1. s = draft.routes[r].supports
      BY <2>1
    <3> QED
      BY <2>1, <3>1, RouteIsServed
  <2> DEFINE S == draft.routes[r].supports
             G == CHOOSE g \in groups : r \in g
             N == SupportCount(input, G)
             choices == IF S.anchorOverride = 0
                        THEN { row.quantity : row \in { w \in RowsOf(catalog, S.template) : w.product = S.anchor } }
                        ELSE {Whole(S.anchorOverride)}
             Demand(category, p) == { e \in events : /\ e.from[2] = <<"supportGroup", G>>
                                                       /\ e.category = category /\ e.product = p }
  <2>4. S = s /\ G = group /\ N = supports
    BY <2>1
  <2>5. choices = AnchorChoices(catalog, S)
    BY Zenon DEF AnchorChoices
  <2>6. \A category, p : Demand(category, p) = OfGroup(G, category, p)
    BY DEF OfGroup, GroupSubject
  <2> HIDE DEF S, G, N, choices, Demand
  <2>7. IsServed(G, S, N, PerSupport(S), choices)
    BY <2>3, <2>4, <2>5, Zenon
  <2>8. /\ S.product # None => Total(Demand("support", S.product)) = N
        /\ S.wstb # None => Total(Demand("wstb", S.wstb)) = Multiply(N, Whole(PerSupport(S)))
        /\ S.anchor # None => Total(Demand("anchor", S.anchor)) \in { Multiply(N, n) : n \in choices }
    BY <2>6, <2>7 DEF IsServed
  <2>9. \A i \in DOMAIN draft.routes[r].geometry : Straight(draft.routes[r].geometry[i]) =>
          \E e \in sections : /\ e.from[2] = <<"segment", draft.routes[r].geometry[i].id>>
                              /\ e.product = draft.routes[r].straight
                              /\ Leq(draft.routes[r].geometry[i].length, Multiply(e.count, e.length))
    BY <2>1, <2>2
  <2> QED
    BY <2>8, <2>9, Zenon DEF S, G, N, choices, Demand
<1> QED
  BY <1>1, CalculationInvariance, PreparedInvariance, PTL

\* A result follows its draft, in the counts and in the selections together.
THEOREM ResultAlwaysFollowsDraft ==
  Spec => []ResultFollowsDraft
BY CalculationsFollowTopology, SelectionsAlwaysHonoured, PTL DEF ResultFollowsDraft

=============================================================================
