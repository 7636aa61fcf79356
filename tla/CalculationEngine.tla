------------------------- MODULE CalculationEngine -------------------------
(***************************************************************************)
(* The calculation engine (packages/calculation-engine/src): it turns one  *)
(* calculation input into the lines of a bill of materials, its warnings   *)
(* and a verdict on approval, or refuses it with an error code.            *)
(*                                                                         *)
(* calculateV2 is one synchronous function; each action below is one of    *)
(* its stages, in its order.  An error thrown by a stage ends the run.     *)
(*                                                                         *)
(* A product, rule or template is referred to by its identifier.  A        *)
(* subject is a pair <<kind, identifier>>, a warning <<code, subject,      *)
(* override>>: the collector keeps one warning per such triple.  The value *)
(* of an absent length, level count, package increment or override is 0.   *)
(***************************************************************************)
EXTENDS CalculationInput

VARIABLES
  input,        \* the calculation input
  stage,        \* the stage that calculateV2 runs next
  failure,      \* the code of the error that ended the run, or None
  warnings,     \* the warning collector
  sections,     \* the demand events of the straight segments
  groups,       \* the logical support groups: sets of routes
  events,       \* the demand events that are emitted so far
  unsuppressed, \* the demand events that included items leave
  result        \* the calculation result

engineVars == <<input, stage, failure, warnings, sections, groups, events, unsuppressed, result>>

---------------------------------------------------------------------------
(* What a rule returns: demand events, warnings, and the errors it throws. *)

Out(emitted, warned, thrown) == [events |-> emitted, warnings |-> warned, failures |-> thrown]
Emits(emitted) == Out(emitted, {}, {})
Warns(warned) == Out({}, warned, {})
Throws(code) == Out({}, {}, {code})
Both(a, b) == Out(a.events \cup b.events, a.warnings \cup b.warnings, a.failures \cup b.failures)
All(outs) == Out(UNION {o.events : o \in outs}, UNION {o.warnings : o \in outs},
                 UNION {o.failures : o \in outs})

Warning(code, subject) == <<code, subject, None>>
Overridden(code, subject, override) == <<code, subject, override>>

\* failIfRequired: a material that is left out is an error under the policy "fail".
Unresolved(in, warned) ==
  Out({}, warned, IF in.options.unresolved = "fail" THEN {"UNRESOLVED_MATERIAL"} ELSE {})

\* An index lookup of an identifier that the input schema has checked.
WithKnown(map, id, out) == IF id \in DOMAIN map THEN out ELSE Throws("INTERNAL_INVARIANT_FAILED")

\* The warnings that forbid an approval, and those that ask for an engineer.
Blocking ==
  { "MISSING_SUBSTRATE_OR_BASE", "UNKNOWN_SUBSTRATE", "MISSING_ANCHOR_SELECTION",
    "ANCHOR_PRODUCT_INCOMPATIBLE", "MISSING_COMPATIBILITY_RULE",
    "PRODUCT_SELECTION_INCOMPATIBLE", "UNRESOLVED_SECTION_SUPPLY_OPTION",
    "UNRESOLVED_JOINT_PRODUCT", "UNRESOLVED_FITTING_CONNECTION",
    "UNRESOLVED_ENDPOINT_MATERIAL", "ASSEMBLY_TEMPLATE_MISSING",
    "TEMPLATE_COMPONENT_MANUAL_VALUE_REQUIRED" }
EngineeringReview ==
  { "MISSING_CABLE_LOAD", "ANCHOR_ENGINEERING_CHECK_REQUIRED", "SUPPORT_CONFIGURATION_MISMATCH",
    "FITTING_ADDITIONAL_SUPPORT_UNRESOLVED", "WSTB_PROJECT_RULE_UNCONFIRMED",
    "WSTB_TEMPLATE_RULE_CONFLICT", "ENGINEERING_CHECK_REQUIRED" }

---------------------------------------------------------------------------
(* Compatibility evidence and policies. *)

Available(in, p) == in.products[p].active /\ in.products[p].orderable

\* The verdicts that the evidence gives on a product in a context: none, one or both.
Evidence(in, context, p, subject) ==
  { r.allowed : r \in { c \in in.compatibility :
                          /\ c.context = context /\ c.product = p
                          /\ c.subject \in {subject, in.project} } }

\* requireCompatibleProduct, and what its caller does when the product is not compatible.
IfCompatible(in, context, p, subject, event) ==
  LET evidence == Evidence(in, context, p, subject)
  IN CASE evidence = BOOLEAN -> Throws("SEMANTIC_INPUT_INVALID")
       [] evidence # BOOLEAN /\ (~Available(in, p) \/ FALSE \in evidence) ->
            Unresolved(in, {Warning(IF context = "anchor" THEN "ANCHOR_PRODUCT_INCOMPATIBLE"
                                    ELSE "PRODUCT_SELECTION_INCOMPATIBLE", subject)})
       [] evidence = {} /\ Available(in, p) ->
            Unresolved(in, {Warning("MISSING_COMPATIBILITY_RULE", subject)})
       [] evidence = {TRUE} /\ Available(in, p) -> Emits({event})

MatchingPolicies(in, p, manual) ==
  { l \in in.linePolicies :
      l.target \in {<<"product", p>>, <<"manual", manual>>} \ {<<"product", None>>, <<"manual", None>>} }

\* resolvePolicies: a matching line policy replaces both defaults.  Two policies for one
\* target are refused with the input, so only a manual item can match two of them.
Policies(in, p, manual, reserve, packaging) ==
  LET matching == MatchingPolicies(in, p, manual)
  IN IF matching = {}
     THEN [reserve |-> reserve, packaging |-> packaging, boundary |-> None]
     ELSE LET l == CHOOSE l \in matching : TRUE
          IN [reserve |-> l.reserve, packaging |-> l.packaging, boundary |-> l.id]

\* The demand event of a catalog product.  "from" is <<category, subject, product, rule or
\* template row>>; "traced" is the sum of the trace steps that contribute to the demand.
Event(in, from, p, category, quantity, status) ==
  LET policies == Policies(in, p, None, ProjectReserve, CatalogPackaging)
  IN [ from |-> from, product |-> p, manual |-> None, category |-> category,
       quantity |-> quantity, unit |-> in.products[p].unit, option |-> None,
       length |-> Zero, count |-> Zero, reserve |-> policies.reserve,
       packaging |-> policies.packaging, boundary |-> <<None, policies.boundary>>,
       status |-> status, eligible |-> FALSE, traced |-> quantity ]

---------------------------------------------------------------------------
(* Straight sections and the joints inside straight runs. *)

SectionEvent(in, route, item, option) ==
  LET unit == in.products[route.product].unit
      length == Fraction(option.length, 1000)
      count == Ceil(Divide(item.length, length))
      quantity == IF unit = "m" THEN Multiply(count, length) ELSE count
  IN [Event(in, <<"linearSection", <<"segment", item.id>>, route.product, None>>, route.product,
            "linearSection", quantity, "calculated")
        EXCEPT !.option = option.id, !.length = length, !.count = count]

\* emitSectionDemands, for one straight segment.
SectionDemand(in, g) ==
  LET route == in.routes[g[1]]
      p == route.product
      item == Item(in, g)
      subject == <<"segment", item.id>>
      chosen == IF item.option = None THEN route.option ELSE item.option
      options == { o \in in.products[p].options : o.id = chosen /\ o.active /\ o.orderable }
      option == CHOOSE o \in options : TRUE
      rule == in.rules[option.rule]
  IN IF options = {}
     THEN Unresolved(in, {Warning("UNRESOLVED_SECTION_SUPPLY_OPTION", subject)})
     ELSE IF rule.type = "supplyOption" /\ rule.product = p /\ rule.option = option.id
     THEN IfCompatible(in, "straightSection", p, subject, SectionEvent(in, route, item, option))
     ELSE Throws("SEMANTIC_INPUT_INVALID")

\* ... and for all of them.
SectionDemands(in) ==
  All({ SectionDemand(in, g) : g \in Segments(in) }
      \cup { Throws("SEMANTIC_INPUT_INVALID")
               : r \in { q \in Routes(in) : in.products[in.routes[q].product].unit = "kg" } })

\* The blocks of a partition of S that the pairs connect (the disjoint sets of the code).
JoinBlocks(pair, partition) ==
  LET touched == { b \in partition : b \cap pair # {} }
  IN (partition \ touched) \cup {UNION touched}
Blocks(S, pairs) == FoldSet(JoinBlocks, { {s} : s \in S }, { q \in pairs : q \subseteq S })

\* Mutant of Continues: a physical splice continues a straight run.
ContinuesAnyhow(c) == TRUE

\* A connection across which a straight run goes on.
Continues(c) == c.type = "logicalContinuation" /\ ~c.physicalBreak

\* The geometry item of a route at the endpoint a participant names.
BoundaryItem(in, participant) ==
  LET route == in.routes[participant.route]
  IN <<participant.route,
       IF route.ends[1].id = participant.endpoint THEN 1 ELSE Len(route.geometry)>>

SameProduct(in, g, h) == in.routes[g[1]].product = in.routes[h[1]].product

\* The pairs of segments that buildStraightRuns unites.
Adjacent(in, emitted) ==
  { {g, h} : g, h \in emitted } \cap
  ( { {g, <<g[1], g[2] + 1>>} : g \in emitted }
    \cup UNION { { {BoundaryItem(in, c.participants[1]), BoundaryItem(in, c.participants[i])}
                     : i \in { j \in 2..Len(c.participants) :
                                 SameProduct(in, BoundaryItem(in, c.participants[1]),
                                             BoundaryItem(in, c.participants[j])) } }
                 : c \in { d \in in.connections : Continues(d) } } )

StraightRuns(in, emitted) == Blocks(emitted, Adjacent(in, emitted))

\* countProductEvent: demand in pieces.  Evidence is asked for when no rule names the
\* product; a product that a rule names must be available, else it is left out.
CountDemand(in, p, category, context, subject, quantity, status, rule) ==
  LET event == Event(in, <<category, subject, p, rule>>, p, category, quantity, status)
  IN WithKnown(in.products, p,
       IF in.products[p].unit # "pcs" THEN Throws("SEMANTIC_INPUT_INVALID")
       ELSE IF rule = None THEN IfCompatible(in, context, p, subject, event)
       ELSE IF Available(in, p) THEN Emits({event}) ELSE Unresolved(in, {}))

\* The section event of a segment.
SectionOf(in, emitted, g) ==
  CHOOSE e \in emitted : e.from[2] = <<"segment", Item(in, g).id>>
SegmentsOf(in, emitted) ==
  { g \in Segments(in) : <<"segment", Item(in, g).id>> \in { e.from[2] : e \in emitted } }

RunSections(in, emitted, run) == SumOver(LAMBDA g : SectionOf(in, emitted, g).count, run)

\* emitJointDemands, for one straight run: one joint less than it has sections.
JointDemand(in, emitted, run) ==
  LET product == in.routes[(CHOOSE g \in run : TRUE)[1]].product
      options == { SectionOf(in, emitted, g).option : g \in run }
      count == RunSections(in, emitted, run)
      subject == <<"straightRun", { Item(in, g).id : g \in run }>>
      matching == { r \in DOMAIN in.rules :
                      /\ in.rules[r].type = "internalJoint"
                      /\ in.rules[r].straight = product
                      /\ in.rules[r].option = None \/ options = {in.rules[r].option} }
      rule == CHOOSE r \in matching : TRUE
  IN IF Leq(count, One) THEN Emits({})
     ELSE IF Cardinality(matching) # 1
     THEN Unresolved(in, {Warning("UNRESOLVED_JOINT_PRODUCT", subject)})
     ELSE CountDemand(in, in.rules[rule].product, "connector", "connection", subject,
                      Multiply(Subtract(count, One), Whole(in.rules[rule].quantity)),
                      in.rules[rule].confidence, rule)

---------------------------------------------------------------------------
(* Fittings, physical connections, endpoints and accessories. *)

\* emitRuleComponents, for the components of a rule that name one product; a connector
\* correction replaces the quantity of the rule, if it quotes it correctly.
RuleComponentDemand(in, r, p, subject, corrections) ==
  LET rule == in.rules[r]
      original == SumOver(LAMBDA c : Whole(c.quantity * c.sides),
                          { c \in rule.components : c.product = p })
      correction == CHOOSE c \in corrections : c.product = p
      context == IF subject[1] = "fitting" THEN "fitting" ELSE "connection"
  IN IF \A c \in corrections : c.product # p
     THEN CountDemand(in, p, "connector", context, subject, original, rule.confidence, r)
     ELSE IF Whole(correction.original) # original THEN Throws("SEMANTIC_INPUT_INVALID")
     ELSE Both(Warns({Overridden("MANUAL_QUANTITY_OVERRIDE", subject, correction.id)}),
               CountDemand(in, p, "connector", context, subject, Whole(correction.adjusted),
                           "manual", r))

RuleDemand(in, r, subject, corrections) ==
  All({ RuleComponentDemand(in, r, p, subject, corrections)
          : p \in { c.product : c \in in.rules[r].components } })

\* emitFittingAndConnectionDemands, for one fitting: the fitting and what joins its ports.
FittingDemand(in, g) ==
  LET item == Item(in, g)
      subject == <<"fitting", item.id>>
      r == item.connectionRule
  IN Both(IF item.product = None THEN Emits({})
          ELSE CountDemand(in, item.product, "fitting", "fitting", subject, One,
                           "catalogConfirmed", None),
          IF r = None
          THEN Unresolved(in, {Warning("UNRESOLVED_FITTING_CONNECTION", subject)})
          ELSE IF in.rules[r].type = "fittingConnection" /\ in.rules[r].owner = item.id
          THEN RuleDemand(in, r, subject, {})
          ELSE Throws("SEMANTIC_INPUT_INVALID"))

\* ... and for one connection: a logical continuation needs no material.
ConnectionDemand(in, c) ==
  LET subject == <<"connection", c.id>>
      r == c.rule
  IN IF c.type = "logicalContinuation" THEN Emits({})
     ELSE IF r = None
     THEN Unresolved(in, {Warning("UNRESOLVED_FITTING_CONNECTION", subject)})
     ELSE IF in.rules[r].type = "physicalConnection" /\ in.rules[r].owner = c.id
     THEN RuleDemand(in, r, subject, c.corrections)
     ELSE Throws("SEMANTIC_INPUT_INVALID")

\* An endpoint with a material of its own: not a free end, and not owned by a connection.
OwnsMaterial(end) ==
  end.connection = None /\ end.type \in {"endCap", "equipment", "physicalSplice"}

EndpointDemand(in, end) ==
  LET subject == <<"endpoint", end.id>>
      rule == in.rules[end.rule]
  IN IF ~OwnsMaterial(end) THEN Emits({})
     ELSE IF end.rule = None
     THEN Unresolved(in, {Warning("UNRESOLVED_ENDPOINT_MATERIAL", subject)})
     ELSE IF rule.type = "endpointMaterial" /\ rule.owner = end.id
     THEN CountDemand(in, rule.product, "endpointMaterial", "endpoint", subject,
                      Whole(rule.quantity), rule.confidence, end.rule)
     ELSE Throws("SEMANTIC_INPUT_INVALID")

AccessoryDemand(in, p) ==
  CountDemand(in, p, "accessory", "accessory", in.project, One, "catalogConfirmed", None)

---------------------------------------------------------------------------
(* Support groups and what each support carries. *)

\* Mutant of SupportKey: the WSTB mode is left out of it.
SupportKeyWithoutWstb(s) ==
  <<s.spacing, s.type, s.product, s.template, s.levels, s.substrate, s.anchor, s.anchorOverride, s.wstb>>

\* supportConfigurationKey.  The manual values of template components are not part of it.
SupportKey(s) ==
  <<s.spacing, s.type, s.product, s.template, s.levels, s.substrate, s.anchor,
    s.anchorOverride, s.wstb, s.wstbMode, s.wstbQuantity>>

Shared(c) == Continues(c) /\ c.supports = "shared"
RoutesOf(c) == { c.participants[i].route : i \in DOMAIN c.participants }
Compatible(in, c) ==
  Cardinality({ SupportKey(in.routes[r].supports) : r \in RoutesOf(c) }) = 1

\* buildLogicalSupportGroups.
SupportGroups(in) ==
  Blocks(Routes(in), UNION { { {c.participants[1].route, r} : r \in RoutesOf(c) } :
                               c \in { d \in in.connections : Shared(d) /\ Compatible(in, d) } })

Mismatches(in) == { c \in in.connections : Shared(c) /\ ~Compatible(in, c) }

\* The route whose configuration counts for the whole group.
Leader(group) == CHOOSE r \in group : \A q \in group : r <= q
Configuration(in, group) == in.routes[Leader(group)].supports

GroupItems(in, group) == { g \in Items(in) : g[1] \in group }
GroupFittings(in, group) == Fittings(in) \cap GroupItems(in, group)

\* Mutant of ConnectionExtras: the group of either side receives both extras.
ConnectionExtrasTwice(in, group) ==
  SumOver(LAMBDA c : Whole(c.before + c.after), { c \in in.connections : RoutesOf(c) \cap group # {} })

\* The supports that a connection adds before its first and after its second participant.
ConnectionExtras(in, group) ==
  Add(SumOver(LAMBDA c : Whole(c.before),
              { c \in in.connections : c.participants[1].route \in group }),
      SumOver(LAMBDA c : Whole(c.after),
              { c \in in.connections : c.participants[2].route \in group }))

\* calculateSupportCount: a support at each end, and none further apart than the spacing.
SupportCount(in, group) ==
  LET length == SumOver(LAMBDA g : Item(in, g).length, GroupItems(in, group))
      base == Add(Ceil(Divide(length, Configuration(in, group).spacing)), One)
      resolved == { g \in GroupFittings(in, group) : Item(in, g).supportRule # None }
      fittingExtras == SumOver(LAMBDA g : Whole(in.rules[Item(in, g).supportRule].quantity), resolved)
      manualExtras == SumOver(LAMBDA r : Whole(in.routes[r].supports.extra), group)
  IN Add(Add(base, fittingExtras), Add(manualExtras, ConnectionExtras(in, group)))

\* The warnings and errors of calculateSupportCount.
SupportCountOut(in, group) ==
  All({ IF Item(in, g).supportRule = None
        THEN Warns({Warning("FITTING_ADDITIONAL_SUPPORT_UNRESOLVED", <<"fitting", Item(in, g).id>>)})
        ELSE IF LET rule == in.rules[Item(in, g).supportRule]
                IN rule.type = "fittingAdditionalSupport" /\ rule.owner = Item(in, g).id
        THEN Emits({}) ELSE Throws("SEMANTIC_INPUT_INVALID")
          : g \in GroupFittings(in, group) }
      \cup { Warns({Overridden("MANUAL_EXTRA_SUPPORT", <<"manualSupport", r>>, r)})
               : r \in { q \in group : in.routes[q].supports.extra > 0 } })

GroupSubject(group) == <<"supportGroup", group>>

\* eventForProduct: the demand of a support group for a product.
GroupDemand(in, group, p, context, category, quantity, status, source) ==
  IfCompatible(in, context, p, GroupSubject(group),
               Event(in, <<category, GroupSubject(group), p, source>>, p, category, quantity, status))

\* Mutant of ManualQuantities: a missing value counts as zero.
ManualQuantitiesOrZero(s, component) ==
  { v.quantity : v \in { w \in s.manualValues : w.component = component.id } } \cup
  (IF \E v \in s.manualValues : v.component = component.id THEN {} ELSE {Zero})

\* The value that the group's configuration gives a manual template component, if any.
ManualQuantities(s, component) ==
  { v.quantity : v \in { w \in s.manualValues : w.component = component.id } }

\* templateComponentQuantity: the set of its one value, or empty if it is unresolved.
ComponentQuantities(in, group, component, supports) ==
  LET s == Configuration(in, group)
  IN CASE component.mode = "fixed" -> {component.quantity}
       [] component.mode = "perSupport" -> {Multiply(component.quantity, supports)}
       [] component.mode = "perLevel" ->
            IF s.levels = 0 THEN {} ELSE {Multiply(component.quantity, Whole(s.levels))}
       [] component.mode = "manual" -> ManualQuantities(s, component)

\* The template rows that emitTemplateComponents leaves to the dedicated demands.
Dedicated(s, component) ==
  \/ component.role \in {"anchor", "wstb"}
  \/ component.role = "support" /\ component.product = s.product

ComponentCategory(component) ==
  IF component.role \in {"structure", "support"} THEN component.role ELSE "accessory"

ComponentDemand(in, group, template, component, supports) ==
  LET subject == <<"templateComponent", component.id>>
      p == component.product
      category == ComponentCategory(component)
      quantities == ComponentQuantities(in, group, component, supports)
      status == IF template.review THEN "engineeringReview" ELSE "calculated"
      demand == GroupDemand(in, group, p, category, category, CHOOSE q \in quantities : TRUE,
                            status, component.id)
      manual == IF component.mode = "manual"
                THEN {Overridden("MANUAL_QUANTITY_OVERRIDE", subject, component.id)} ELSE {}
  IN IF Dedicated(Configuration(in, group), component) THEN Emits({})
     ELSE WithKnown(in.products, p,
       IF component.unit # in.products[p].unit THEN Throws("SEMANTIC_INPUT_INVALID")
       ELSE IF quantities = {}
       THEN Warns({Warning("TEMPLATE_COMPONENT_MANUAL_VALUE_REQUIRED", subject)})
       ELSE Out({ [e EXCEPT !.eligible = component.suppress] : e \in demand.events },
                demand.warnings \cup manual, demand.failures))

\* emitAnchor: anchors per support, from the template row of the selected anchor.
AnchorDemand(in, group, template, supports) ==
  LET s == Configuration(in, group)
      p == s.anchor
      rows == { c \in template.components : c.role = "anchor" /\ c.product = p }
      row == CHOOSE c \in rows : TRUE
      perAxis == IF s.anchorOverride = 0 THEN row.quantity ELSE Whole(s.anchorOverride)
      review == in.products[p].review \/ template.review
      Missing(code) == Unresolved(in, {Warning(code, GroupSubject(group))})
  IN CASE s.substrate = None -> Missing("MISSING_SUBSTRATE_OR_BASE")
       [] s.substrate = "unknown" -> Missing("UNKNOWN_SUBSTRATE")
       [] s.substrate \notin {None, "unknown"} /\ p = None -> Missing("MISSING_ANCHOR_SELECTION")
       [] s.substrate \notin {None, "unknown"} /\ p # None ->
            WithKnown(in.products, p,
              IF rows = {} \/ row.mode # "perSupport" \/ row.unit # "pcs"
              THEN Missing("ASSEMBLY_TEMPLATE_MISSING")
              ELSE Both(Warns((IF s.anchorOverride = 0 THEN {} ELSE
                                 {Overridden("MANUAL_ANCHOR_OVERRIDE", GroupSubject(group), p)})
                              \cup (IF review THEN
                                 {Warning("ANCHOR_ENGINEERING_CHECK_REQUIRED", <<"product", p>>)}
                                 ELSE {})),
                        GroupDemand(in, group, p, "anchor", "anchor", Multiply(supports, perAxis),
                                    IF review THEN "engineeringReview" ELSE "calculated", None)))

\* emitWstb: clamps per support, from the rule of the chosen mode and not from the template.
WstbDemand(in, group, template, supports) ==
  LET s == Configuration(in, group)
      p == s.wstb
      perSupport == CASE s.wstbMode = "one" -> 1 [] s.wstbMode = "two" -> 2
                      [] s.wstbMode = "custom" -> s.wstbQuantity
      conflicts == { c \in template.components :
                       /\ c.role = "wstb"
                       /\ \/ c.product # p \/ c.mode # "perSupport"
                          \/ c.quantity # Whole(perSupport) }
  IN IF p = None THEN Emits({})
     ELSE WithKnown(in.products, p,
       IF s.wstbMode # "custom" /\ in.rules[s.wstbRule].quantity # perSupport
       THEN Throws("SEMANTIC_INPUT_INVALID")
       ELSE Both(Warns({Warning("WSTB_PROJECT_RULE_UNCONFIRMED", GroupSubject(group))}
                       \cup { Overridden("MANUAL_QUANTITY_OVERRIDE", GroupSubject(group), m)
                                : m \in {s.wstbMode} \cap {"custom"} }
                       \cup { Warning("WSTB_TEMPLATE_RULE_CONFLICT", <<"templateComponent", c.id>>)
                                : c \in conflicts }),
                 GroupDemand(in, group, p, "wstb", "wstb", Multiply(supports, Whole(perSupport)),
                             "projectRule", s.wstbRule)))

\* emitSupportDemands, for one group.
SupportDemand(in, group) ==
  LET s == Configuration(in, group)
      supports == SupportCount(in, group)
      template == in.templates[s.template]
  IN All({ SupportCountOut(in, group),
           IF s.product = None THEN Emits({})
           ELSE WithKnown(in.products, s.product,
                  GroupDemand(in, group, s.product, "support", "support", supports, "calculated", None)),
           IF s.template = None
           THEN Unresolved(in, {Warning("ASSEMBLY_TEMPLATE_MISSING", GroupSubject(group))})
           ELSE All({ ComponentDemand(in, group, template, c, supports) : c \in template.components }
                    \cup { AnchorDemand(in, group, template, supports),
                           WstbDemand(in, group, template, supports) }) })

---------------------------------------------------------------------------
(* Manual items. *)

\* emitManualItemDemands, for one item; "named" says that code and description are the product's.
ManualDemand(in, m) ==
  LET subject == <<"manualInput", m.id>>
      policies == Policies(in, m.product, m.id, m.reserve, m.packaging)
      quantity == IF m.override = None THEN m.quantity ELSE m.adjusted
      event == [ from |-> <<"manual", subject, m.product, None>>, product |-> m.product,
                 manual |-> m.id, category |-> "manual", quantity |-> quantity, unit |-> m.unit,
                 option |-> None, length |-> Zero, count |-> Zero,
                 reserve |-> policies.reserve, packaging |-> policies.packaging,
                 boundary |-> <<m.id, policies.boundary>>, status |-> "manual",
                 eligible |-> FALSE, traced |-> quantity ]
      warned == { Overridden("MANUAL_PACKAGE_OVERRIDE", subject, w[3])
                    : w \in { x \in {policies.packaging} : x[1] = "incrementOverride" } }
                \cup { Overridden("MANUAL_QUANTITY_OVERRIDE", subject, w[3])
                    : w \in { x \in {policies.reserve} : x[1] # "projectDefault" } }
                \cup { Overridden("MANUAL_QUANTITY_OVERRIDE", subject, w)
                    : w \in {m.override} \ {None} }
      demand == IF m.product = None THEN Emits({event})
                ELSE IfCompatible(in, "manualCatalog", m.product, subject, event)
  IN IF m.product # None /\ (~m.named \/ in.products[m.product].unit # m.unit)
     THEN Throws("SEMANTIC_INPUT_INVALID")
     ELSE IF Cardinality(MatchingPolicies(in, m.product, m.id)) > 1 /\ demand.failures = {}
             /\ demand.events # {}
     THEN Throws("AMBIGUOUS_LINE_POLICY")
     ELSE Both(demand, IF demand.events = {} THEN Emits({}) ELSE Warns(warned))

---------------------------------------------------------------------------
(* Included items, aggregation, policies and the result. *)

\* annotateEngineeringProducts.
EngineeringChecks(in, S) ==
  { Warning("ENGINEERING_CHECK_REQUIRED", <<"product", e.product>>) :
      e \in { d \in S : /\ d.product # None /\ d.category # "anchor"
                        /\ in.products[d.product].review } }

\* What the events of S deliver of product p inside the products that include it.
Capacity(in, S, p) ==
  SumOver(LAMBDA e : Multiply(e.quantity,
                       SumOver(LAMBDA i : Whole(i.quantity),
                               { i \in in.products[e.product].included : i.child = p })),
          { e \in S : e.product # None /\ e.unit = "pcs" })

Eligible(S) == { e \in S : e.eligible /\ e.product # None /\ e.unit = "pcs" }

\* The orders in which suppressIncludedDemand may visit the eligible events: it sorts them
\* by identifiers that are hashes.
Orders(S) ==
  { f \in [Eligible(S) -> 1..Cardinality(Eligible(S))] :
      \A d, e \in Eligible(S) : d # e => f[d] # f[e] }

\* Mutant of Remaining: every event may use the whole capacity.
RemainingOfAll(in, S, order, e) ==
  LET capacity == Capacity(in, S, e.product)
  IN IF Leq(e.quantity, capacity) THEN Zero ELSE Subtract(e.quantity, capacity)

\* What an eligible event still demands, after the events before it have used the capacity.
Remaining(in, S, order, e) ==
  LET capacity == Capacity(in, S, e.product)
      through == SumOver(LAMBDA d : d.quantity,
                         { d \in Eligible(S) : d.product = e.product /\ order[d] <= order[e] })
  IN IF Leq(through, capacity) THEN Zero
     ELSE Minimum(e.quantity, Subtract(through, capacity))

\* suppressIncludedDemand: a reduced event is traced by its remaining quantity alone.
Suppressed(in, S, order) ==
  { IF e \in Eligible(S)
    THEN [e EXCEPT !.quantity = Remaining(in, S, order, e), !.traced = Remaining(in, S, order, e)]
    ELSE e : e \in S }

\* aggregationKey.
Key(e) ==
  <<e.product, e.manual, e.category, e.unit, e.option, e.reserve, e.packaging, e.boundary, e.status>>

\* aggregateDemands, for the events of S that share a key.
Aggregate(S) ==
  LET first == CHOOSE e \in S : TRUE
  IN [first EXCEPT !.from = <<"line", Key(first)>>,
                   !.quantity = SumOver(LAMBDA e : e.quantity, S),
                   !.traced = SumOver(LAMBDA e : e.traced, S),
                   !.count = SumOver(LAMBDA e : e.count, S)]

Demands(S) ==
  LET demanded == { e \in S : e.quantity # Zero }
  IN { Aggregate({ e \in demanded : Key(e) = k }) : k \in { Key(e) : e \in demanded } }

Of(demands, p) == { d \in demands : d.product = p }

\* aggregateDemands refuses to add up sections of two lengths.
AggregateFailures(S) ==
  { "INTERNAL_INVARIANT_FAILED" :
      d \in { x \in S : \E e \in S : Key(x) = Key(e) /\ x.length # e.length } }

\* The errors of applyProductQuantityAdjustments.
AdjustmentFailures(in, demands) ==
  (UNION { IF Cardinality(Of(demands, a.product)) # 1 THEN {"AMBIGUOUS_LINE_POLICY"}
           ELSE LET d == CHOOSE d \in Of(demands, a.product) : TRUE
                IN IF a.unit = d.unit /\ a.original = d.quantity
                      /\ (d.length = Zero \/ IsInteger(Divide(a.adjusted, d.length)))
                   THEN {} ELSE {"SEMANTIC_INPUT_INVALID"} : a \in in.adjustments })
  \cup { "AMBIGUOUS_LINE_POLICY" : l \in { m \in in.linePolicies :
           m.target[1] = "product" /\ Cardinality(Of(demands, m.target[2])) > 1 } }

Adjusted(in, d) ==
  LET own == { a \in in.adjustments : a.product = d.product }
      a == CHOOSE a \in own : TRUE
  IN IF own = {} THEN d
     ELSE [d EXCEPT !.quantity = a.adjusted, !.traced = a.adjusted, !.status = "manual",
                    !.count = IF d.length = Zero THEN @ ELSE Divide(a.adjusted, d.length)]

\* attachPolicyWarnings.
PolicyWarnings(d) ==
  { Overridden("MANUAL_QUANTITY_OVERRIDE", d.from, d.reserve[3])
      : x \in {d.reserve[1]} \ {"projectDefault"} }
  \cup { Overridden("MANUAL_PACKAGE_OVERRIDE", d.from, d.packaging[3])
      : x \in { y \in {d.packaging[1]} : \/ y = "incrementOverride"
                                         \/ y = "disabled" /\ d.packaging[3] # None } }

ReservePercent(in, d) ==
  CASE d.reserve[1] = "projectDefault" -> in.reserve
    [] d.reserve[1] = "disabled" -> 0
    [] d.reserve[1] = "percentageOverride" -> d.reserve[2]

WithReserve(in, d, x) == Multiply(x, Fraction(100 + ReservePercent(in, d), 100))

\* finalizeQuantities: whole sections, whole pieces, and other quantities exactly.
Reserved(in, d) ==
  CASE d.length # Zero /\ d.unit = "m" -> Multiply(Ceil(WithReserve(in, d, d.count)), d.length)
    [] d.length # Zero /\ d.unit # "m" -> Ceil(WithReserve(in, d, d.count))
    [] d.length = Zero /\ d.unit = "pcs" -> Ceil(WithReserve(in, d, d.quantity))
    [] d.length = Zero /\ d.unit # "pcs" -> WithReserve(in, d, d.quantity)

Packaged(in, d) == in.options.packaging /\ d.packaging[1] # "disabled"

\* packageIncrement; Zero if the product has none.
Increment(in, d) ==
  IF Packaged(in, d) /\ d.packaging[1] = "incrementOverride" THEN d.packaging[2]
  ELSE IF d.product = None THEN One ELSE in.products[d.product].package

FinalizeFailures(in, d) ==
  IF ~Leq(d.quantity, Reserved(in, d)) THEN {"NEGATIVE_DOMAIN_VALUE"}
  ELSE IF \/ Increment(in, d) = Zero
          \/ Packaged(in, d) /\ d.product = None /\ d.packaging[1] = "catalogDefault"
          \/ /\ Packaged(in, d) /\ d.length # Zero /\ d.unit = "m"
             /\ ~IsInteger(Divide(Increment(in, d), d.length))
  THEN {"SEMANTIC_INPUT_INVALID"} ELSE {}

\* Mutant of Ordered: packages are rounded before the reserve is added.
OrderedBeforeReserve(in, d) ==
  WithReserve(in, d, Multiply(Ceil(Divide(d.quantity, Increment(in, d))), Increment(in, d)))

Ordered(in, d) ==
  IF Packaged(in, d)
  THEN Multiply(Ceil(Divide(Reserved(in, d), Increment(in, d))), Increment(in, d))
  ELSE Reserved(in, d)

\* A line of the bill of materials.
Line(in, d) ==
  [d |-> d, technical |-> d.quantity, reserved |-> Reserved(in, d), ordered |-> Ordered(in, d)]

\* buildIncludedItems: what comes with the product of a line, none of it unknown.
IncludedIn(in, d) == IF d.product = None THEN {} ELSE { i.child : i \in in.products[d.product].included }

\* The output schema: pieces are whole.
WholePieces(in, line) ==
  line.d.unit = "pcs" =>
    \A x \in {line.technical, line.reserved, line.ordered, Increment(in, line.d)} : IsInteger(x)

OutputFailures(in, lines) ==
  { "INTERNAL_INVARIANT_FAILED" :
      l \in { m \in lines : ~WholePieces(in, m) \/ ~(IncludedIn(in, m.d) \subseteq DOMAIN in.products) } }

---------------------------------------------------------------------------
(* The stages.  When several subjects of a stage are refused, the code     *)
(* reports the first in the order of their identifiers; here it is any.    *)

\* The run ends with an error, or the stage adds what it emits and warns of.
Refuse(failures) ==
  /\ failure' \in failures
  /\ stage' = "done"
  /\ UNCHANGED <<input, warnings, sections, groups, events, unsuppressed, result>>

Emit(out, next) ==
  IF out.failures # {} THEN Refuse(out.failures)
  ELSE /\ warnings' = warnings \cup out.warnings
       /\ events' = events \cup out.events
       /\ stage' = next
       /\ UNCHANGED <<input, failure, sections, groups, unsuppressed, result>>

NoResult == [lines |-> {}, ready |-> FALSE, review |-> FALSE]

\* The result with these lines, after warnings of these codes.
Summary(lines, codes) ==
  [lines |-> lines, ready |-> codes \cap Blocking = {},
   review |-> codes \cap (Blocking \cup EngineeringReview) # {}]

NothingComputed ==
  /\ failure = None
  /\ warnings = {} /\ sections = {} /\ groups = {} /\ events = {} /\ unsuppressed = {}
  /\ result = NoResult

Parse ==
  /\ stage = "parse"
  /\ IF InputAccepted(input)
     THEN Emit(Warns(IF input.load THEN {} ELSE {Warning("MISSING_CABLE_LOAD", input.project)}), "sections")
     ELSE Refuse({"INPUT_SCHEMA_INVALID"})

EmitSections ==
  /\ stage = "sections"
  /\ LET out == SectionDemands(input)
     IN IF out.failures # {} THEN Refuse(out.failures)
        ELSE /\ sections' = out.events
             /\ events' = out.events
             /\ warnings' = warnings \cup out.warnings
             /\ stage' = "groups"
             /\ UNCHANGED <<input, failure, groups, unsuppressed, result>>

GroupSupports ==
  /\ stage = "groups"
  /\ IF Mismatches(input) # {} /\ input.options.mismatch = "fail"
     THEN Refuse({"SUPPORT_CONFIGURATION_MISMATCH"})
     ELSE /\ groups' = SupportGroups(input)
          /\ warnings' = warnings \cup
               { Warning("SUPPORT_CONFIGURATION_MISMATCH", <<"connection", c.id>>) : c \in Mismatches(input) }
          /\ stage' = "joints"
          /\ UNCHANGED <<input, failure, sections, events, unsuppressed, result>>

EmitJoints ==
  /\ stage = "joints"
  /\ Emit(All({ JointDemand(input, sections, run) : run \in StraightRuns(input, SegmentsOf(input, sections)) }),
          "fittings")

EmitFittings ==
  /\ stage = "fittings"
  /\ Emit(All({ FittingDemand(input, g) : g \in Fittings(input) }
              \cup { ConnectionDemand(input, c) : c \in input.connections }), "supports")

EmitSupports ==
  /\ stage = "supports"
  /\ Emit(All({ SupportDemand(input, group) : group \in groups }), "endpoints")

EmitEndpoints ==
  /\ stage = "endpoints"
  /\ Emit(All({ EndpointDemand(input, end) : end \in Ends(input) }
              \cup { AccessoryDemand(input, p) : p \in input.accessories }), "manualItems")

EmitManualItems ==
  /\ stage = "manualItems"
  /\ LET out == All({ ManualDemand(input, m) : m \in input.manualItems })
     IN Emit(Both(out, Warns(EngineeringChecks(input, events \cup out.events))), "suppress")

Suppress ==
  /\ stage = "suppress"
  /\ \E order \in Orders(events) : unsuppressed' = Suppressed(input, events, order)
  /\ stage' = "build"
  /\ UNCHANGED <<input, failure, warnings, sections, groups, events, result>>

Build ==
  /\ stage = "build"
  /\ LET demands == Demands(unsuppressed)
         adjusted == { Adjusted(input, d) : d \in demands }
         lines == { Line(input, d) : d \in adjusted }
         warned == warnings
                   \cup { Overridden("MANUAL_QUANTITY_OVERRIDE", <<"product", a.product>>, a.id) : a \in input.adjustments }
                   \cup UNION { PolicyWarnings(d) : d \in adjusted }
         Failing(failures, otherwise) == IF failures # {} THEN failures ELSE otherwise
         failures == Failing(AggregateFailures(unsuppressed),
                       Failing(AdjustmentFailures(input, demands),
                         Failing(UNION { FinalizeFailures(input, d) : d \in adjusted },
                                 OutputFailures(input, lines))))
     IN IF failures # {} THEN Refuse(failures)
        ELSE /\ warnings' = warned
             /\ result' = Summary(lines, { w[1] : w \in warned })
             /\ stage' = "done"
             /\ UNCHANGED <<input, failure, sections, groups, events, unsuppressed>>

Calculate ==
  \/ Parse \/ EmitSections \/ GroupSupports \/ EmitJoints \/ EmitFittings
  \/ EmitSupports \/ EmitEndpoints \/ EmitManualItems \/ Suppress \/ Build

Calculated == stage = "done" /\ failure = None

\* One call of calculateV2 with any input at all.
EngineInit == stage = "parse" /\ NothingComputed
EngineSpec == EngineInit /\ [][Calculate]_engineVars

---------------------------------------------------------------------------
(* What a calculation promises. *)

Total(S) == SumOver(LAMBDA e : e.quantity, S)
Emitted(category, kind) == { e \in events : e.category = category /\ e.from[2][1] = kind }

\* What the material of an input must come from: <<category, subject, product, source>>.
\* A product that a rule names counts only while it is active and orderable; a joint rule
\* counts for a run if it is for the supply length of all its sections; a manual item or a
\* connector that somebody has corrected to nothing is not material.
FromRule(in, r, subject, corrected) ==
  { <<"connector", subject, p, r>> :
      p \in { c.product : c \in in.rules[r].components } \ corrected }
FromGroup(in, group) ==
  LET s == Configuration(in, group)
      subject == GroupSubject(group)
      selected == { <<"support", s.product>>, <<"anchor", s.anchor>> }
  IN { <<x[1], subject, x[2], None>> : x \in { y \in selected : y[2] # None } }
     \cup { <<"wstb", subject, p, s.wstbRule>> : p \in {s.wstb} \ {None} }
     \cup { <<ComponentCategory(c), subject, c.product, c.id>> :
              c \in { d \in in.templates[s.template].components : ~Dedicated(s, d) } }
FromRun(in, run) ==
  LET product == in.routes[(CHOOSE g \in run : TRUE)[1]].product
  IN { <<"connector", <<"straightRun", { Item(in, g).id : g \in run }>>, in.rules[r].product, r>> :
         r \in { q \in DOMAIN in.rules :
                   /\ in.rules[q].type = "internalJoint" /\ in.rules[q].straight = product
                   /\ \A g \in run : in.rules[q].option \in {None, SectionOf(in, sections, g).option}
                   /\ RunSections(in, sections, run) # One } }
Needed(in) ==
  { <<"linearSection", <<"segment", Item(in, g).id>>, in.routes[g[1]].product, None>> : g \in Segments(in) }
  \cup (UNION { FromRun(in, run) : run \in StraightRuns(in, SegmentsOf(in, sections)) })
  \cup { <<"fitting", <<"fitting", Item(in, g).id>>, Item(in, g).product, None>> :
           g \in { h \in Fittings(in) : Item(in, h).product # None } }
  \cup (UNION { FromRule(in, Item(in, g).connectionRule, <<"fitting", Item(in, g).id>>, {}) : g \in Fittings(in) })
  \cup (UNION { FromRule(in, c.rule, <<"connection", c.id>>, { x.product : x \in c.corrections }) :
                 c \in { d \in in.connections : d.type # "logicalContinuation" } })
  \cup { <<"endpointMaterial", <<"endpoint", end.id>>, in.rules[end.rule].product, end.rule>> :
           end \in { e \in Ends(in) : OwnsMaterial(e) } }
  \cup { <<"accessory", in.project, p, None>> : p \in in.accessories }
  \cup (UNION { FromGroup(in, group) : group \in groups })
  \cup { <<"manual", <<"manualInput", m.id>>, m.product, None>> :
           m \in { n \in in.manualItems : n.override = None \/ n.adjusted # Zero } }

\* A result that is ready for approval leaves no material out: every segment, joint,
\* fitting, connection, endpoint, accessory, manual item, and every support, anchor, WSTB
\* and template row of a support group has a demand (the warnings of the rules against the
\* verdict of result-builder.ts).
ReadyLeavesNothingOut ==
  Calculated /\ result.ready =>
    { from \in Needed(input) : from[4] \in DOMAIN input.rules => Available(input, from[3]) }
      \subseteq { e.from : e \in { d \in events : d.quantity # Zero } }

Deliverable(d) == IF d.length # Zero /\ d.unit = "m" THEN d.length
                  ELSE IF d.length # Zero \/ d.unit = "pcs" THEN One ELSE Zero

\* The lines account for the demand: for every product and manual item that no one
\* adjusted they add up to the demand that is left, each line is traced to its quantity,
\* and what is ordered covers quantity and reserve, in whole packages, sections and
\* pieces, without a package or piece more than that takes (aggregation.ts, policies.ts).
LinesAccountForDemand ==
  Calculated =>
    /\ \A key \in { <<e.product, e.manual>> : e \in unsuppressed } :
         LET own == { l \in result.lines : <<l.d.product, l.d.manual>> = key }
         IN \/ \E a \in input.adjustments : a.product = key[1]
            \/ SumOver(LAMBDA l : l.technical, own) =
               Total({ e \in unsuppressed : <<e.product, e.manual>> = key })
    /\ \A l \in result.lines :
         LET wanted == WithReserve(input, l.d, l.technical)
             step == IF Packaged(input, l.d) THEN Increment(input, l.d) ELSE Zero
         IN /\ l.d.traced = l.technical
            /\ Leq(wanted, l.ordered)
            /\ step # Zero => IsInteger(Divide(l.ordered, step))
            /\ l.ordered = wanted \/ ~Leq(Add(wanted, Add(step, Deliverable(l.d))), l.ordered)

\* Supports are counted once: the groups divide the routes as finely as the shared
\* continuations of like configurations allow, each group's length takes one support more
\* than it has spacings, and what a fitting, a route or a connection adds is counted in one
\* group (support-groups.ts, supports.ts).
SupportsAreCountedOnce ==
  LET counted == { e \in events : e.category = "support" /\ e.from[4] = None }
      sharing == { c \in input.connections :
                     /\ c.type = "logicalContinuation" /\ c.supports = "shared"
                     /\ Compatible(input, c) }
      fitted == { g \in Fittings(input) : Item(input, g).supportRule # None }
  IN Calculated =>
       /\ UNION groups = Routes(input)
       /\ \A g, h \in groups : g # h => g \cap h = {}
       /\ \A c \in sharing : \E group \in groups : RoutesOf(c) \subseteq group
       /\ \A apart \in SUBSET Routes(input) :
            (\A c \in sharing : RoutesOf(c) \subseteq apart \/ RoutesOf(c) \cap apart = {}) =>
              \A group \in groups : group \subseteq apart \/ group \cap apart = {}
       /\ Cardinality(counted) = Cardinality(groups) =>
            Total(counted) =
              Add(SumOver(LAMBDA group :
                    Add(One, Ceil(Divide(SumOver(LAMBDA g : Item(input, g).length, GroupItems(input, group)),
                                         Configuration(input, group).spacing))), groups),
                  Add(SumOver(LAMBDA c : Whole(c.before + c.after), input.connections),
                      Add(SumOver(LAMBDA g : Whole(input.rules[Item(input, g).supportRule].quantity), fitted),
                          SumOver(LAMBDA r : Whole(input.routes[r].supports.extra), Routes(input)))))

\* The links of the continuations: each joins the route of the first participant to that of
\* another one, which may be the same route.
Links(in) ==
  UNION { { <<c, i>> : i \in 2..Len(c.participants) } :
            c \in { d \in in.connections : d.type = "logicalContinuation" } }
Linked(l) == { l[1].participants[1].route, l[1].participants[l[2]].route }

\* Links close a ring when each of their routes is linked to itself or by another of them.
ClosesRing(in) ==
  \E ring \in (SUBSET Links(in)) \ {{}} :
    \A l \in ring : \A r \in Linked(l) : Linked(l) = {r} \/ \E k \in ring \ {l} : r \in Linked(k)

\* Joints fill the gaps: where every joint is resolved, there is one for each gap inside a
\* segment, between consecutive segments and across a continuation of one product, and none
\* across a splice (straight-runs.ts, which does not close a ring: docs/calculation-engine/
\* formulas.md counts a joint less than pieces for any run).
JointsFillTheGaps ==
  LET placed == SegmentsOf(input, sections)
      gaps == { g \in placed : <<g[1], g[2] + 1>> \in placed }
      across == { l \in Links(input) :
                    LET g == BoundaryItem(input, l[1].participants[1])
                        h == BoundaryItem(input, l[1].participants[l[2]])
                    IN {g, h} \subseteq placed /\ SameProduct(input, g, h) }
      joints == { e \in events : e.from[2][1] = "straightRun" }
      inside == SumOver(LAMBDA g : Subtract(SectionOf(input, sections, g).count, One), placed)
  IN Calculated /\ ~ClosesRing(input) /\ (\A w \in warnings : w[1] # "UNRESOLVED_JOINT_PRODUCT")
     /\ (\A r \in DOMAIN input.rules : input.rules[r].type = "internalJoint" =>
           input.rules[r].quantity = 1 /\ Available(input, input.rules[r].product)) =>
       Total(joints) = Add(inside, Whole(Cardinality(gaps) + Cardinality(across)))

\* What is counted follows the topology of the routes: supports and joints.
CountsFollowTopology == SupportsAreCountedOnce /\ JointsFillTheGaps

\* Whatever the order of the demands, suppression takes from a product's eligible demand
\* what the included items deliver of it, and never more, and leaves the rest alone
\* (included-items.ts).
SuppressionIsExact ==
  stage = "build" =>
    /\ { e \in unsuppressed : ~e.eligible } = { e \in events : ~e.eligible }
    /\ \A p \in Products(input) :
         LET before == Total({ e \in Eligible(events) : e.product = p })
             capacity == Capacity(input, events, p)
         IN Total({ e \in Eligible(unsuppressed) : e.product = p }) =
              IF Leq(before, capacity) THEN Zero ELSE Subtract(before, capacity)
=============================================================================
