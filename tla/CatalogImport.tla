--------------------------- MODULE CatalogImport ---------------------------
(***************************************************************************)
(* The pipeline that judges an uploaded catalog (packages/catalog-import/  *)
(* src/pipeline.ts) and what the tables of a catalog version can hold      *)
(* (materializeCandidate in apps/backend/src/catalog-repository.ts and the *)
(* constraints of the migrations of stages 4 and 5).                       *)
(*                                                                         *)
(* An upload is a record of sheets, each a sequence of rows.  A number is  *)
(* 0 where the cell is empty and negative where it is no positive decimal; *)
(* the page of a row that is no product is 0 where it is no integer.  A    *)
(* flag is "yes", "no" or "bad"; any other empty cell is None.  Codes are  *)
(* in lower case.  "complete" says whether the required texts of a row     *)
(* that nothing else looks at are there, "unknown" whether some sheet has  *)
(* a column that the schema does not know.                                 *)
(*                                                                         *)
(* "source" is the document and the printed page that a row names.  "fits" *)
(* says that what is written of a row fits its columns: no text is longer  *)
(* than they are (that of its document's edition included), no number is   *)
(* too large, and no positive number is rounded to zero.                   *)
(***************************************************************************)
EXTENDS Integers, Sequences, Functions, FiniteSets

None == "none"
Bad == "bad"

PersistedUnits == {"pcs", "m", "mm", "kg", "pairs", "Nm"}
WeightBasisUnits == {"kg_per_100_m", "kg_per_100_pcs", "kg_per_100_pairs"}
SupportedUnits == PersistedUnits \cup WeightBasisUnits
Categories == {"straightSection", "fitting", "support", "structure", "anchor", "wstb", "accessory", "other"}
Roles == {"support", "structure", "anchor", "fastener", "accessory"}
Modes == {"fixed", "per_support", "per_level", "manual"}
TemplateTypes == {"wall", "ceiling", "floor", "custom"}

Issue(condition, code) == IF condition THEN {code} ELSE {}
UnitIssue(unit) == Issue(unit # None /\ unit \notin SupportedUnits, "UNSUPPORTED_UNIT")
Number(n) == IF n > 0 THEN n ELSE 0

\* The rows of a sheet that are kept, under their row numbers.
Kept(sheet, Keep(_)) == [i \in { j \in DOMAIN sheet : Keep(sheet[j]) } |-> sheet[i]]
IssuesOf(sheet, Of(_)) == UNION { Of(sheet[i]) : i \in DOMAIN sheet }

---------------------------------------------------------------------------
(* What each sheet is normalised to, and the issues of its rows. *)

ManifestIssues(m) ==
  Issue(~m.complete \/ m.version = None \/ m.scope = None, "REQUIRED_FIELD")
  \cup Issue(~m.schema, "UNSUPPORTED_SCHEMA_VERSION")
  \cup Issue(m.full = Bad, "INVALID_BOOLEAN") \cup Issue(~m.checksum, "INVALID_SHA256")
ManifestKept(m) == m.schema /\ m.full # Bad

ProductRows ==
  [ code : STRING, category : STRING, family : STRING, system : STRING, version : STRING, complete : BOOLEAN,
    orderable : STRING, indoor : STRING, review : STRING, package : Int, packUnit : STRING, orderUnit : STRING,
    height : Int, width : Int, length : Int, material : STRING, finish : STRING, weight : Int,
    weightUnit : STRING, basis : Int, basisUnit : STRING, approval : BOOLEAN, note : BOOLEAN, page : Int,
    source : STRING, fits : BOOLEAN ]
ProductIssues(p) ==
  LET sizes == {p.height, p.width, p.length, p.weight, p.basis}
      weighed == p.weight # 0 \/ p.weightUnit # None
      based == p.basis # 0 \/ p.basisUnit # None
  IN Issue(\E n \in sizes : n < 0, "INVALID_POSITIVE_NUMBER")
     \cup Issue(~p.complete \/ p.code = None \/ p.orderUnit = None, "REQUIRED_FIELD")
     \cup Issue(p.category \notin Categories, "INVALID_CATEGORY")
     \cup Issue(Bad \in {p.orderable, p.indoor, p.review}, "INVALID_BOOLEAN")
     \cup Issue(\/ p.orderable = "yes" /\ (p.package <= 0 \/ p.packUnit = None)
                \/ p.orderable # "yes" /\ p.package < 0, "INVALID_PACK_QUANTITY")
     \cup Issue(p.page < 0, "INVALID_PDF_PAGE")
     \cup Issue(\/ weighed # (p.weight > 0 /\ p.weightUnit # None)
                \/ based # (p.basis > 0 /\ p.basisUnit # None)
                \/ weighed # based, "INVALID_WEIGHT_BASIS")
     \cup UNION { UnitIssue(unit) : unit \in {p.packUnit, p.orderUnit, p.weightUnit, p.basisUnit} }
ProductKept(p) ==
  p.code # None /\ p.category \in Categories /\ Bad \notin {p.orderable, p.indoor, p.review}
NormalProduct(p) ==
  [p EXCEPT !.height = Number(@), !.width = Number(@), !.length = Number(@), !.weight = Number(@),
            !.basis = Number(@)]

\* values are the types of the value columns that are filled ("text", "number", "boolean"),
\* readable says that they can be read.
AttributeKept(a) == Cardinality(a.values) = 1 /\ a.readable /\ a.product # None /\ a.key # None
AttributeIssues(a) ==
  IF Cardinality(a.values) # 1 \/ ~a.readable THEN {"ATTRIBUTE_TYPED_VALUE"}
  ELSE IF ~AttributeKept(a) THEN {"REQUIRED_FIELD"} ELSE UnitIssue(a.unit)

IncludedKept(x) == x.parent # None /\ x.child # None /\ x.quantity > 0 /\ x.unit \in SupportedUnits
IncludedIssues(x) == Issue(~IncludedKept(x), "INVALID_INCLUDED_ITEM")

RuleKept(r) == r.code # None /\ r.allowed # Bad /\ r.verification \in {"verified", "unverified"}
RuleIssues(r) ==
  IF RuleKept(r) THEN Issue(r.selector = Bad, "INVALID_SELECTOR_JSON") ELSE {"INVALID_COMPATIBILITY_RULE"}
NormalRule(r) == [r EXCEPT !.selector = IF @ = Bad THEN None ELSE @]

TemplateKept(t) == t.code # None /\ t.type \in TemplateTypes /\ t.review # Bad
TemplateIssues(t) == Issue(~TemplateKept(t), "INVALID_TEMPLATE")

ComponentKept(c) == c.role \in Roles /\ c.mode \in Modes /\ c.quantity > 0 /\ c.suppress # Bad
ComponentIssues(c) == Issue(~ComponentKept(c), "INVALID_TEMPLATE_COMPONENT")

\* An observation that is not kept is no issue.
ObservationKept(o) == o.product # None /\ o.field # None /\ o.authoritative # Bad

\* The normalised bundle, its rows under their row numbers.
Bundle(u) ==
  LET products == Kept(u.products, ProductKept)
      rules == Kept(u.rules, RuleKept)
  IN [ manifest |-> Kept(u.manifest, ManifestKept),
       products |-> [i \in DOMAIN products |-> NormalProduct(products[i])],
       attributes |-> Kept(u.attributes, AttributeKept), included |-> Kept(u.included, IncludedKept),
       rules |-> [i \in DOMAIN rules |-> NormalRule(rules[i])],
       templates |-> Kept(u.templates, TemplateKept), components |-> Kept(u.components, ComponentKept),
       observations |-> Kept(u.observations, ObservationKept) ]

\* The content hash tells any two bundles apart, and takes in row numbers except those of the
\* products: of these it sees the order.
SameRows(f, g) ==
  \E h \in [DOMAIN f -> DOMAIN g] :
    /\ \A k \in DOMAIN g : \E i \in DOMAIN f : h[i] = k
    /\ \A i, j \in DOMAIN f : f[i] = g[h[i]] /\ (i < j <=> h[i] < h[j])
SameHash(b, c) ==
  [b EXCEPT !.products = << >>] = [c EXCEPT !.products = << >>] /\ SameRows(b.products, c.products)

---------------------------------------------------------------------------
(* What the rows of a bundle say of each other. *)

\* Two rows of a sheet agree on what should tell them apart.
Repeats(sheet, Key(_)) == \E i, j \in DOMAIN sheet : i # j /\ Key(sheet[i]) = Key(sheet[j])

CodesOf(b) == { p.code : p \in Range(b.products) }

DuplicateProduct(b) == Repeats(b.products, LAMBDA p : p.code)
\* Mutant: attributes are not looked up in the set of those seen.
DuplicateAttributeNever(b) == FALSE
DuplicateAttribute(b) == Repeats(b.attributes, LAMBDA a : <<a.product, a.key>>)

\* A graph has a cycle where some of its nodes each have an edge to one of them.
Cycle(b) ==
  LET edges == { <<x.parent, x.child>> : x \in Range(b.included) }
      nodes == { e[1] : e \in edges }
  IN \E some \in SUBSET nodes : some # {} /\ \A c \in some : \E d \in some : <<c, d>> \in edges

Contradiction(b) ==
  \E r, q \in Range(b.rules) : r.signature = q.signature /\ r.selector = q.selector /\ r.allowed # q.allowed

RelationIssues(b) ==
  LET codes == CodesOf(b)
      templates == { t.code : t \in Range(b.templates) }
      referring == { a.product : a \in Range(b.attributes) } \cup { c.product : c \in Range(b.components) }
      included == { x.parent : x \in Range(b.included) } \cup { x.child : x \in Range(b.included) }
  IN Issue(DuplicateProduct(b), "DUPLICATE_PRODUCT_CODE")
     \cup Issue(DuplicateAttribute(b), "DUPLICATE_ATTRIBUTE")
     \cup Issue(~(referring \subseteq codes), "UNKNOWN_PRODUCT_REFERENCE")
     \cup Issue(~(included \subseteq codes), "UNKNOWN_INCLUDED_PRODUCT")
     \cup Issue(Cycle(b), "INCLUDED_ITEM_CYCLE")
     \cup Issue(Contradiction(b), "CONTRADICTORY_COMPATIBILITY_RULE")
     \cup Issue(~({ c.template : c \in Range(b.components) } \subseteq templates), "UNKNOWN_TEMPLATE_REFERENCE")

\* The attributes that an anchor must have.
RequiredAttributes(family) ==
  (IF family = "NSA"
   THEN {"diameter", "length", "head_drive", "drill_hole_diameter", "recommended_tightening_torque", "substrate"}
   ELSE {"connection_thread", "length", "drill_hole_diameter", "clamping_range_max",
         "effective_anchoring_depth", "substrate"})
  \cup (IF family = "DAZ" THEN {"washer_diameter"} ELSE {})

AnchorIssues(b, p) ==
  Issue(p.review # "yes" \/ ~p.note, "ANCHOR_ENGINEERING_POLICY")
  \cup Issue(p.family = "NSA" /\ (p.indoor # "yes" \/ p.system # "concrete"), "NSA_APPLICATION_RESTRICTION")
  \cup Issue(~(RequiredAttributes(p.family) \subseteq
                 { a.key : a \in { x \in Range(b.attributes) : x.product = p.code } }), "MISSING_CATEGORY_ATTRIBUTE")
  \cup Issue(~p.approval \/ p.system # "concrete" \/ 0 \in {p.weight, p.basis}, "ANCHOR_REQUIRED_FIELDS")

StraightIssues(p) ==
  Issue(\/ 0 \in {p.height, p.width, p.length, p.weight}
        \/ None \in {p.system, p.material, p.finish}
        \/ p.basisUnit # "kg_per_100_m", "STRAIGHT_SECTION_REQUIRED_FIELDS")

CategoryIssues(b) ==
  UNION { CASE p.category = "anchor" -> AnchorIssues(b, p)
            [] p.category = "straightSection" -> StraightIssues(p)
            [] p.category \notin {"anchor", "straightSection"} -> {} : p \in Range(b.products) }

\* Observations of one field that disagree are a conflict, or a warning where one of them is
\* declared authoritative by a policy.
ConflictIssues(b) ==
  LET Of(o) == { x \in Range(b.observations) : x.product = o.product /\ x.field = o.field }
  IN { IF \E x \in Of(o) : x.authoritative = "yes" /\ x.policy
       THEN "SOURCE_CONFLICT_RESOLVED" ELSE "SOURCE_CONFLICT_UNRESOLVED"
       : o \in { x \in Range(b.observations) : \E y \in Of(x) : y.value # x.value } }

VersionIssues(b) ==
  LET versions == { m.version : m \in Range(b.manifest) }
  IN Issue(b.manifest = << >>, "MISSING_MANIFEST")
     \cup Issue(Cardinality(versions) > 1 \/ (\E p \in Range(b.products) : p.version \notin versions),
                "CATALOG_VERSION_MISMATCH")
     \cup Issue(Cardinality({ m.scope : m \in Range(b.manifest) }) > 1, "CATALOG_SCOPE_MISMATCH")

\* runCatalogPipeline: everything an upload is reported for.
Issues(u) ==
  LET b == Bundle(u)
  IN Issue(u.unknown, "UNKNOWN_COLUMN")
     \cup IssuesOf(u.manifest, ManifestIssues) \cup IssuesOf(u.products, ProductIssues)
     \cup IssuesOf(u.attributes, AttributeIssues) \cup IssuesOf(u.included, IncludedIssues)
     \cup IssuesOf(u.rules, RuleIssues) \cup IssuesOf(u.templates, TemplateIssues)
     \cup IssuesOf(u.components, ComponentIssues)
     \cup RelationIssues(b) \cup CategoryIssues(b) \cup ConflictIssues(b) \cup VersionIssues(b)

\* A resolved conflict is a warning; every other issue is an error or a conflict.
Valid(u) == Issues(u) \subseteq {"SOURCE_CONFLICT_RESOLVED"}

---------------------------------------------------------------------------
(* What the tables hold. *)

\* The sheets whose rows name a source, in the order in which they are gone through.
Sourced(b) == <<b.products, b.attributes, b.included, b.rules>>

\* A source is written once, with the page of the first row that names it.
Pages(b) ==
  LET sheets == Sourced(b)
      rows == UNION { {s} \X DOMAIN sheets[s] : s \in DOMAIN sheets }
      Row(at) == sheets[at[1]][at[2]]
      Before(at, to) == at[1] < to[1] \/ (at[1] = to[1] /\ at[2] < to[2])
      first == { at \in rows : \A other \in rows : Before(other, at) => Row(other).source # Row(at).source }
  IN { Row(at).page : at \in first }

\* The units that are written: canonicalUnit refuses those of a weight basis.
Units(b) ==
  (UNION { {p.orderUnit, p.packUnit} : p \in Range(b.products) }) \cup { a.unit : a \in Range(b.attributes) }
  \cup { x.unit : x \in Range(b.included) } \cup { c.unit : c \in Range(b.components) }

Fits(b) ==
  LET sheets == Sourced(b) \o <<b.templates, b.components>>
  IN \A s \in DOMAIN sheets : \A row \in Range(sheets[s]) : row.fits

\* product_attributes_typed_value: only a number has a unit.
TypedUnits(b) == \A a \in Range(b.attributes) : a.unit # None => a.values = {"number"}

\* The constraints of the tables that materializeCandidate fills.
Storable(b) ==
  /\ Fits(b)
  /\ \A page \in Pages(b) : page >= 0
  /\ Units(b) \subseteq PersistedUnits \cup {None}
  /\ TypedUnits(b)
  /\ \A p \in Range(b.products) :
       /\ (p.package = 0) = (p.packUnit = None) /\ p.package >= 0
       /\ p.orderUnit # None
       /\ (p.basis = 0) = (p.basisUnit = None) /\ p.basisUnit \in WeightBasisUnits \cup {None}
       /\ p.review = "yes" => p.note
  /\ ~DuplicateProduct(b)
  /\ ~Repeats(b.attributes, LAMBDA a : <<a.product, a.key>>)
  /\ ~Repeats(b.included, LAMBDA x : <<x.parent, x.child>>)
  /\ \A x \in Range(b.included) : x.parent # x.child /\ x.unit # None
  /\ ~Repeats(b.rules, LAMBDA r : r.code) /\ ~Repeats(b.templates, LAMBDA t : t.code)
  /\ { a.product : a \in Range(b.attributes) } \cup { x.parent : x \in Range(b.included) }
     \cup { x.child : x \in Range(b.included) } \cup { c.product : c \in Range(b.components) } \subseteq CodesOf(b)
  /\ { c.template : c \in Range(b.components) } \subseteq { t.code : t \in Range(b.templates) }
  /\ \A c \in Range(b.components) : c.unit # None

\* Those of the table that the observations go to.
ObservationsStorable(b) == \A o \in Range(b.observations) : o.fits /\ o.page >= 0

\* What the pipeline does not look at and the tables do: what does not fit its column; the
\* pages of attributes, included items, rules and observations; units of a weight where a
\* quantity has one; a unit of an attribute that is a text or a boolean; a unit of a package
\* without its quantity or of a weight basis that is none; a note for a product other than
\* an anchor; repeated included items, rule and template codes; units of template rows.
Careful(b) ==
  /\ Fits(b)
  /\ \A page \in Pages(b) : page >= 0
  /\ ObservationsStorable(b)
  /\ Units(b) \subseteq PersistedUnits \cup {None}
  /\ TypedUnits(b)
  /\ \A p \in Range(b.products) :
       /\ p.orderable # "yes" => (p.package = 0) = (p.packUnit = None)
       /\ p.basisUnit \in WeightBasisUnits \cup {None}
       /\ p.review = "yes" => p.note
  /\ ~Repeats(b.included, LAMBDA x : <<x.parent, x.child>>)
  /\ ~Repeats(b.rules, LAMBDA r : r.code) /\ ~Repeats(b.templates, LAMBDA t : t.code)
  /\ \A c \in Range(b.components) : c.unit # None
=============================================================================
