------------------------ MODULE CalculationPreparation ------------------------
(***************************************************************************)
(* How the backend makes a calculation input of a stored project draft     *)
(* (apps/backend/src/project-service.ts): the preflight that tells the     *)
(* editor what blocks the calculation, and the translation of the draft    *)
(* and of the catalog it is pinned to.  DraftAccepted is the refinement of *)
(* the draft schema (packages/domain/src/schemas/v2/project-transport.ts). *)
(*                                                                         *)
(* A catalog c has products, compatibility rules, templates, the sequence  *)
(* of their rows, included items and joint rules, as stored; a product is  *)
(* named by its code, a route by its position in the draft or, in the id   *)
(* of a rule, by its code.  The exact selection of a route is the tuple of *)
(* its system, dimension, material and finish, None where nothing is       *)
(* chosen.  A field that is left empty is Zero, 0 or None where that is no *)
(* value of it, Blank otherwise; a quantity and the reason that must go    *)
(* with it are one entry.  An additional support (extra) is of its route   *)
(* ("route") or of one of its geometry items.                              *)
(***************************************************************************)
EXTENDS CalculationInput, Functions

Prj == <<"project", "prj">>
Issue(condition, code) == IF condition THEN {code} ELSE {}
AsFunction(pairs) == [x \in { p[1] : p \in pairs } |-> (CHOOSE p \in pairs : p[1] = x)[2]]

---------------------------------------------------------------------------
(* The draft schema. *)

Blank == -1
SubstrateTypes == {"concrete", "steel", "masonry", "unknown"}

\* The fields of a draft, and the values that fit them whether they are accepted or not.
IsEnd(end) == {"id", "type", "product", "texts"} \subseteq DOMAIN end

IsItem(item) ==
  {"kind", "id", "length"} \cup (IF item.kind = "straight" THEN {"option"} ELSE {"type", "described", "product"})
    \subseteq DOMAIN item

IsSupports(s) ==
  /\ {"spacing", "type", "product", "template", "levels", "substrate", "anchor", "anchorOverride", "wstb",
      "wstbMode", "wstbQuantity", "extras", "manualValues"} \subseteq DOMAIN s
  /\ s.spacing \in Fractions /\ s.type \in SupportTypes \cup {None} /\ s.substrate \in SubstrateTypes \cup {None}
  /\ s.wstbMode \in {"one", "two", "custom", None} /\ s.wstbQuantity \in Nat /\ s.anchorOverride \in Nat \cup {Blank}
  /\ Collection(s.extras, LAMBDA x : {"id", "of", "quantity"} \subseteq DOMAIN x)

IsRoute(route) ==
  /\ {"code", "selection", "straight", "option", "geometry", "ends", "supports"} \subseteq DOMAIN route
  /\ DOMAIN route.selection = 1..4
  /\ IsSequence(route.geometry) /\ \A i \in DOMAIN route.geometry : IsItem(route.geometry[i])
  /\ DOMAIN route.ends = 1..2 /\ \A j \in 1..2 : IsEnd(route.ends[j])
  /\ IsSupports(route.supports)

IsConnection(x) ==
  /\ {"id", "type", "physicalBreak", "supports", "participants", "before", "after", "material", "corrections"}
       \subseteq DOMAIN x
  /\ IsSequence(x.participants)

IsDraft(d) ==
  /\ {"routes", "connections", "accessories", "manualItems", "reserve", "load"} \subseteq DOMAIN d
  /\ IsSequence(d.routes) /\ \A r \in DOMAIN d.routes : IsRoute(d.routes[r])
  /\ \A x \in d.connections : IsConnection(x)

\* The texts that an end of this type must have.
NeededTexts(type) ==
  (IF type = "equipment" THEN {"equipmentReference"} ELSE {})
  \cup (IF type = "custom" THEN {"customDescription"} ELSE {})

DraftEndAccepted(end) ==
  NeededTexts(end.type) \subseteq end.texts /\ (end.type \in {"freeEnd", "routeContinuation"} => end.product = None)

DraftItemAccepted(item) ==
  IF Straight(item) THEN item.length # Zero ELSE item.type = "custom" => item.described

DraftSupportsAccepted(s) ==
  /\ s.wstbMode = "custom" => s.wstbQuantity # 0
  /\ s.anchorOverride # Blank
  /\ \A x \in s.extras : x.quantity # Blank
  /\ \A v \in s.manualValues : v.quantity # Zero /\ IsQuantity(v.quantity, v.unit)

DraftManualItemAccepted(m) ==
  /\ m.quantity # Zero /\ IsQuantity(m.quantity, m.unit)
  /\ m.override # None => IsQuantity(m.adjusted, m.unit)
  /\ m.packaging[1] = "incrementOverride" => IsQuantity(m.packaging[2], m.unit)
  /\ m.product = None => m.packaging[1] # "catalogDefault"

EndsOf(d) == { <<r, j>> : r \in DOMAIN d.routes, j \in 1..2 }
ParticipantEnds(x) == { x.participants[i].endpoint : i \in DOMAIN x.participants }
\* The ends that a connection joins, as <<route, position>>.
Joined(d, x) ==
  { e \in EndsOf(d) : \E i \in DOMAIN x.participants :
                        x.participants[i] = [route |-> e[1], endpoint |-> d.routes[e[1]].ends[e[2]].id] }

ConnectionContinues(d, x) ==
  x.type = "logicalContinuation" => /\ ~x.physicalBreak /\ x.material = None
                                    /\ \A e \in Joined(d, x) : d.routes[e[1]].ends[e[2]].type = "routeContinuation"

DraftRouteAccepted(route) ==
  /\ route.code # None
  /\ \A j \in 1..2 : DraftEndAccepted(route.ends[j])
  /\ \A i \in DOMAIN route.geometry : DraftItemAccepted(route.geometry[i])
  /\ DraftSupportsAccepted(route.supports)

\* What somebody enters in a field: the schemas of the parts of a draft.
DraftEntriesAccepted(d) ==
  /\ d.reserve # Blank
  /\ \A r \in DOMAIN d.routes : DraftRouteAccepted(d.routes[r])
  /\ Distinct(DOMAIN d.routes, LAMBDA r : d.routes[r].code)
  /\ \A x \in d.connections : ConnectionContinues(d, x)
  /\ \A m \in d.manualItems : DraftManualItemAccepted(m)

\* Mutant of ConnectionJoins: two starts or two ends may be joined.
ConnectionJoinsAnyEnds(d, x) ==
  /\ Len(x.participants) \in
          CASE x.type = "tee" -> {3} [] x.type = "custom" -> {2, 3} [] x.type \notin {"tee", "custom"} -> {2}
  /\ Cardinality({ e[1] : e \in Joined(d, x) }) = Len(x.participants)
  /\ Distinct(x.corrections, LAMBDA k : k.product)

\* A connection joins ends of different routes; two of them a start to an end.
ConnectionJoins(d, x) ==
  /\ Len(x.participants) \in
          CASE x.type = "tee" -> {3} [] x.type = "custom" -> {2, 3} [] x.type \notin {"tee", "custom"} -> {2}
  /\ Cardinality({ e[1] : e \in Joined(d, x) }) = Len(x.participants)
  /\ Len(x.participants) = 2 => { e[2] : e \in Joined(d, x) } = {1, 2}
  /\ Distinct(x.corrections, LAMBDA k : k.product)

ItemsOf(d) == UNION { {r} \X (DOMAIN d.routes[r].geometry) : r \in DOMAIN d.routes }

\* How the parts refer to each other: unique identifiers, connections between ends that
\* exist, each in one connection, and additional supports of their own route or its items.
DraftReferencesAccepted(d) ==
  /\ Distinct(EndsOf(d), LAMBDA e : d.routes[e[1]].ends[e[2]].id)
  /\ Distinct(ItemsOf(d), LAMBDA g : d.routes[g[1]].geometry[g[2]].id)
  /\ \A x \in d.connections : ConnectionJoins(d, x)
  /\ \A x, y \in d.connections : x # y => x.id # y.id /\ ParticipantEnds(x) \cap ParticipantEnds(y) = {}
  /\ \A r \in DOMAIN d.routes :
       LET route == d.routes[r]
       IN /\ Distinct(route.supports.manualValues, LAMBDA v : v.component)
          /\ Distinct(route.supports.extras, LAMBDA x : x.id)
          /\ { x.of : x \in route.supports.extras } \ {"route"}
               \subseteq { route.geometry[i].id : i \in DOMAIN route.geometry }
  /\ Distinct(d.manualItems, LAMBDA m : m.id)

\* ProjectDraftInputV2Schema.
DraftAccepted(d) == DraftEntriesAccepted(d) /\ DraftReferencesAccepted(d)

---------------------------------------------------------------------------
(* The catalog as the calculation sees it. *)

\* Products have codes; an exact selection names a system, a dimension, a material and a
\* finish.
IsCatalog(c) ==
  /\ None \notin DOMAIN c.products
  /\ \A rule \in c.compatibility : rule.type = "selection" => IsSequence(rule.selection) /\ Len(rule.selection) = 4

\* packageIncrement: none unless it is in the order unit.
PackageOf(product) == IF product.packageUnit = product.unit THEN product.package ELSE Zero
SupportedProduct(product) == product.unit # None /\ (product.orderable => PackageOf(product) # Zero)
Demandable(product) == SupportedProduct(product) /\ product.active /\ product.orderable
Known(c) == { p \in DOMAIN c.products : SupportedProduct(c.products[p]) }
InCatalog(c, p, Accepted(_)) == p \in DOMAIN c.products /\ Accepted(c.products[p])

\* effectiveComponentRole: a WSTB product is one in every template.
RoleIn(c, row) ==
  IF InCatalog(c, row.product, LAMBDA x : x.category = "wstb") THEN "wstb" ELSE row.role

\* selectedProducts: the product with the code, or those that a selector matches.
Selected(c, code, selectors) ==
  IF code \in DOMAIN c.products THEN {code} \cap Known(c)
  ELSE { p \in Known(c) : \E f \in selectors : \A k \in DOMAIN f : c.products[p].attributes[k] = f[k] }

\* contextualRoles: a template row gives its product a role, the last row in the order of
\* reading prevails; otherwise a connector rule makes it a connector.
RoleRows(c, p) ==
  { i \in DOMAIN c.rows :
      /\ c.rows[i].product = p
      /\ RoleIn(c, c.rows[i]) \in {"support", "structure", "anchor", "accessory", "wstb", "fastener"} }
IsConnector(c, p) ==
  \E rule \in c.compatibility :
    rule.type = "connector" /\ p \in Selected(c, rule.target, rule.targetSelectors)

\* roleFor: the role of a product in the whole catalog.
RoleOf(c, p) ==
  IF RoleRows(c, p) # {} THEN RoleIn(c, c.rows[Max(RoleRows(c, p))])
  ELSE IF IsConnector(c, p) THEN "connector" ELSE c.products[p].category

SupplyOption(p) == "supply:" \o p
SupplyRule(p) == "rule:supply:" \o p
WstbRule(route) == "rule:wstb:" \o route.code

ProductSnapshot(c, p) ==
  LET product == c.products[p]
  IN [ role |-> RoleOf(c, p), unit |-> product.unit, package |-> PackageOf(product),
       orderable |-> product.orderable, active |-> product.active, review |-> product.review,
       options |-> IF RoleOf(c, p) = "straightSection" /\ product.length # 0
                   THEN {[ id |-> SupplyOption(p), length |-> product.length, orderable |-> product.orderable,
                           active |-> product.active, rule |-> SupplyRule(p) ]}
                   ELSE {},
       included |-> { [child |-> i.child, quantity |-> i.quantity] :
                        i \in { j \in c.included : j.parent = p /\ j.unit = "pcs" /\ j.child \in Known(c) } } ]

RowsOf(c, t) == { row \in Range(c.rows) : row.template = t }

\* Mutant of RowUsable: a row may count another unit than its product's.
RowUsableInAnyUnit(c, row) ==
  /\ InCatalog(c, row.product, Demandable)
  /\ row.quantity # Zero /\ row.mode # None /\ ~row.expression
  /\ RoleIn(c, row) \in {"support", "structure", "anchor", "fastener", "accessory", "wstb"}

\* A row that templateSnapshots can translate; one that it cannot drops the whole template.
RowUsable(c, row) ==
  /\ InCatalog(c, row.product, Demandable)
  /\ row.quantity # Zero /\ row.mode # None /\ ~row.expression
  /\ row.unit = c.products[row.product].unit
  /\ RoleIn(c, row) \in {"support", "structure", "anchor", "fastener", "accessory", "wstb"}

UsableTemplates(c) ==
  { t \in DOMAIN c.templates : /\ c.templates[t].active /\ RowsOf(c, t) # {}
                               /\ \A row \in RowsOf(c, t) : RowUsable(c, row) }
TemplateSnapshot(c, t) ==
  [ review |-> c.templates[t].review,
    components |-> { [ id |-> row.id, product |-> row.product, role |-> RoleIn(c, row),
                       quantity |-> row.quantity, unit |-> row.unit, mode |-> row.mode,
                       suppress |-> row.suppress ] : row \in RowsOf(c, t) } ]

\* explicitCalculationRules: a joint rule between demandable products of the right kinds.
JointRules(c) ==
  { <<j.id, [ type |-> "internalJoint", straight |-> j.straight, option |-> j.option,
              product |-> j.product, quantity |-> j.quantity, confidence |-> j.confidence ]>> :
      j \in { k \in c.joints :
                /\ InCatalog(c, k.straight, LAMBDA x : x.category = "straightSection" /\ Demandable(x))
                /\ InCatalog(c, k.product, LAMBDA x : x.unit = "pcs" /\ Demandable(x))
                /\ RoleOf(c, k.product) = "connector"
                /\ k.option # None => /\ c.products[k.straight].length # 0
                                      /\ k.option = SupplyOption(k.straight) } }

\* exactProjectSelectionEvidence, exactAnchorEvidence and templateComponentEvidence.
SelectionEvidence(c, route) ==
  \E rule \in c.compatibility :
    /\ rule.type = "selection" /\ rule.allowed
    /\ rule.source = route.straight /\ rule.selection = route.selection
AnchorEvidence(c, s) ==
  \E rule \in c.compatibility :
    /\ rule.type = "anchor" /\ rule.allowed
    /\ rule.source = s.anchor /\ rule.substrate = s.substrate /\ s.substrate # None
RowEvidence(c, t, p, role) == \E row \in RowsOf(c, t) : row.product = p /\ RoleIn(c, row) = role
\* selectedTemplateAnchorQuantity.
AnchorBaseline(c, t) == \E row \in RowsOf(c, t) : RoleIn(c, row) = "anchor" /\ row.quantity # Zero

---------------------------------------------------------------------------
(* preflightIssues: the codes of what blocks the calculation of a draft. *)

SelectionIssues(c, route) ==
  LET usable == /\ route.straight \in Known(c)
                /\ c.products[route.straight].category = "straightSection"
                /\ Demandable(c.products[route.straight])
  IN Issue(None \in Range(route.selection), "SELECTION_REQUIRED")
     \cup Issue(route.straight = None, "STRAIGHT_PRODUCT_REQUIRED")
     \cup Issue(route.straight # None /\ ~usable, "STRAIGHT_PRODUCT_INVALID")
     \cup Issue(usable /\ ~SelectionEvidence(c, route), "PROJECT_SELECTION_RULE_MISSING")
     \cup Issue(~( /\ route.straight \in Known(c) /\ c.products[route.straight].length # 0
                   /\ route.option = SupplyOption(route.straight)), "SUPPLY_OPTION_REQUIRED")

\* Fittings, ends, connections and accessories cannot have a material of their own yet.
MaterialIssues(c, p, code) ==
  Issue(p # None, IF p \in Known(c) THEN code ELSE "CATALOG_PRODUCT_MISSING")

GeometryIssues(c, route) ==
  Issue(route.geometry = << >>, "GEOMETRY_REQUIRED")
  \cup (UNION { MaterialIssues(c, route.geometry[i].product, "FITTING_RULE_MISSING") :
                 i \in { j \in DOMAIN route.geometry : ~Straight(route.geometry[j]) } })
  \cup UNION { MaterialIssues(c, route.ends[i].product, "ENDPOINT_MATERIAL_RULE_MISSING") : i \in 1..2 }

SupportIssues(c, s) ==
  Issue(s.spacing = Zero, "SUPPORT_SPACING_REQUIRED")
  \cup Issue(s.type = None, "SUPPORT_TYPE_REQUIRED")
  \cup Issue(s.wstbMode = None, "WSTB_SELECTION_REQUIRED")
  \cup Issue(~({s.product, s.anchor, s.wstb} \subseteq Known(c) \cup {None}), "CATALOG_PRODUCT_MISSING")
  \cup Issue(\E p \in {s.product, s.anchor} \cap Known(c) : ~Demandable(c.products[p]),
             "CATALOG_PRODUCT_NOT_ORDERABLE")
  \cup Issue(s.wstb \in Known(c) /\ ~InCatalog(c, s.wstb, LAMBDA x : x.category = "wstb" /\ Demandable(x)),
             "WSTB_PRODUCT_INVALID")
  \cup Issue(s.product \in Known(c) /\ ~RowEvidence(c, s.template, s.product, "support"),
             "SUPPORT_RULE_MISSING")
  \cup Issue(s.anchor \in Known(c) /\ ~AnchorEvidence(c, s), "ANCHOR_SUBSTRATE_RULE_MISSING")
  \cup Issue(s.template # None /\ s.template \notin UsableTemplates(c), "ASSEMBLY_TEMPLATE_MISSING")
  \cup Issue(s.anchorOverride # 0 /\ ~AnchorBaseline(c, s.template), "ANCHOR_BASELINE_MISSING")

TemplateIssues(c, route) ==
  LET s == route.supports
      template == c.templates[s.template]
      clamps == { row.product : row \in { w \in RowsOf(c, s.template) : RoleIn(c, w) = "wstb" } }
  IN IF s.template \in DOMAIN c.templates /\ template.active
     THEN Issue(s.type # None /\ template.type # s.type, "TEMPLATE_SUPPORT_TYPE_MISMATCH")
          \cup Issue(template.system = None, "TEMPLATE_SYSTEM_MISSING")
          \cup Issue(template.system \notin {None, route.selection[1]}, "TEMPLATE_SYSTEM_MISMATCH")
          \cup Issue(clamps # {} /\ s.wstb \notin clamps, "TEMPLATE_WSTB_SELECTION_MISSING")
          \cup Issue(clamps = {} /\ s.wstb # None, "TEMPLATE_WSTB_MISMATCH")
          \cup Issue(s.anchor # None /\ ~RowEvidence(c, s.template, s.anchor, "anchor"),
                     "TEMPLATE_ANCHOR_MISMATCH")
     ELSE Issue(s.wstb # None, "TEMPLATE_WSTB_MISMATCH")

ManualIssues(c, m) ==
  Issue(m.product \notin Known(c), "CATALOG_PRODUCT_MISSING")
  \cup Issue(m.product \in Known(c) /\ ~InCatalog(c, m.product, Demandable),
             "MANUAL_CATALOG_PRODUCT_NOT_ORDERABLE")
  \cup Issue(m.product \in Known(c) /\ ~InCatalog(c, m.product, LAMBDA x : x.unit = m.unit),
             "MANUAL_CATALOG_UNIT_MISMATCH")

PreflightIssues(c, d) ==
  Issue(d.routes = << >>, "ROUTE_REQUIRED")
  \cup (UNION { SelectionIssues(c, d.routes[r]) \cup GeometryIssues(c, d.routes[r])
                \cup SupportIssues(c, d.routes[r].supports) \cup TemplateIssues(c, d.routes[r]) :
                  r \in DOMAIN d.routes })
  \cup (UNION { MaterialIssues(c, x.material, "CONNECTION_MATERIAL_RULE_MISSING")
                \cup Issue(x.corrections # {}, "CONNECTOR_CORRECTION_BASELINE_MISSING") : x \in d.connections })
  \cup (UNION { MaterialIssues(c, p, "ACCESSORY_RULE_MISSING") : p \in d.accessories })
  \cup UNION { ManualIssues(c, m) : m \in { n \in d.manualItems : n.product # None } }

---------------------------------------------------------------------------
(* calculationParts: the input that a draft without issues becomes. *)

\* What the selections of a route authorize, as <<context, product>>.
RouteEvidence(c, route) ==
  LET s == route.supports
  IN { x \in {<<"straightSection", route.straight>>} : SelectionEvidence(c, route) }
     \cup { x \in {<<"support", s.product>>} : RowEvidence(c, s.template, s.product, "support") }
     \cup { x \in {<<"anchor", s.anchor>>} : AnchorEvidence(c, s) }
     \cup { x \in {<<"wstb", s.wstb>>} : RowEvidence(c, s.template, s.wstb, "wstb") }
     \cup { <<IF RoleIn(c, row) \in {"structure", "support"} THEN RoleIn(c, row) ELSE "accessory", row.product>> :
              row \in { w \in RowsOf(c, s.template) : RoleIn(c, w) \notin {"anchor", "wstb"} } }

Relations(c, d) ==
  { [context |-> x[1], subject |-> Prj, product |-> x[2], allowed |-> TRUE] :
      x \in (UNION { RouteEvidence(c, d.routes[r]) : r \in DOMAIN d.routes })
            \cup { <<"manualCatalog", m.product>> : m \in { n \in d.manualItems : n.product # None } } }

PerSupport(s) == CASE s.wstbMode = "one" -> 1 [] s.wstbMode = "two" -> 2 [] s.wstbMode = "custom" -> s.wstbQuantity
SupplyRules(c) ==
  { <<SupplyRule(p), [type |-> "supplyOption", product |-> p, option |-> SupplyOption(p)]>> :
      p \in { q \in Known(c) : c.products[q].category = "straightSection" /\ c.products[q].length # 0 } }
WstbRules(d) ==
  { <<WstbRule(d.routes[r]), [type |-> "wstbPerSupport", quantity |-> PerSupport(d.routes[r].supports)]>> :
      r \in DOMAIN d.routes }

GeometryInput(item) ==
  IF Straight(item) THEN item
  ELSE [ kind |-> "fitting", id |-> item.id, product |-> item.product, connectionRule |-> None,
         supportRule |-> None, length |-> item.length ]

\* An end belongs to the connection that it takes part in.
EndInput(d, end) ==
  [ id |-> end.id, type |-> end.type, rule |-> None,
    connection |-> IF \E x \in d.connections : end.id \in ParticipantEnds(x)
                   THEN (CHOOSE x \in d.connections : end.id \in ParticipantEnds(x)).id ELSE None ]

SupportsInput(route) ==
  [f \in ((DOMAIN route.supports) \ {"extras"}) \cup {"wstbRule", "extra"} |->
     CASE f = "wstbRule" -> WstbRule(route)
       [] f = "extra" -> MapThenSumSet(LAMBDA x : x.quantity, route.supports.extras)
       [] f \notin {"wstbRule", "extra"} -> route.supports[f]]

RouteInput(d, route) ==
  [ product |-> route.straight, option |-> route.option,
    geometry |-> [i \in DOMAIN route.geometry |-> GeometryInput(route.geometry[i])],
    ends |-> [i \in 1..2 |-> EndInput(d, route.ends[i])],
    supports |-> SupportsInput(route) ]

ConnectionInput(x) ==
  [ id |-> x.id, type |-> x.type, participants |-> x.participants, physicalBreak |-> x.physicalBreak,
    supports |-> x.supports, rule |-> None, before |-> x.before, after |-> x.after, corrections |-> {} ]

\* A catalog item is named as the catalog names its product.
ManualInput(m) ==
  [f \in (DOMAIN m) \cup {"named"} |-> IF f = "named" THEN TRUE ELSE m[f]]

CalculationParts(c, d) ==
  [ project |-> Prj, load |-> d.load, reserve |-> d.reserve,
    routes |-> [r \in DOMAIN d.routes |-> RouteInput(d, d.routes[r])],
    connections |-> { ConnectionInput(x) : x \in d.connections },
    products |-> [p \in Known(c) |-> ProductSnapshot(c, p)],
    rules |-> AsFunction(JointRules(c) \cup SupplyRules(c) \cup WstbRules(d)),
    templates |-> [t \in UsableTemplates(c) |-> TemplateSnapshot(c, t)],
    compatibility |-> Relations(c, d), accessories |-> d.accessories,
    manualItems |-> { ManualInput(m) : m \in d.manualItems },
    adjustments |-> {}, linePolicies |-> {},
    options |-> [unresolved |-> "warnAndOmit", mismatch |-> "splitWithEngineeringReview", packaging |-> TRUE] ]
=============================================================================
