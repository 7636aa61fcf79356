------------------------- MODULE MCCalculationInputs -------------------------
(***************************************************************************)
(* Calculation inputs for TLC: one project of two routes, and the inputs   *)
(* that differ from it in a few of the choices that the rules depend on.   *)
(***************************************************************************)
EXTENDS CalculationInput

Project == <<"project", "prj">>

Product(role, unit, package, included) ==
  [ role |-> role, unit |-> unit, package |-> package, orderable |-> TRUE, active |-> TRUE,
    review |-> FALSE, options |-> {}, included |-> included ]
Option(id, length, rule) ==
  [id |-> id, length |-> length, orderable |-> TRUE, active |-> TRUE, rule |-> rule]

BaseProducts ==
  [ tray |-> [Product("straightSection", "m", Whole(6), {}) EXCEPT
                !.options = {Option("o3", 3000, "supply3"), Option("o6", 6000, "supply6")}],
    joint |-> Product("connector", "pcs", Whole(4), {}),
    bend |-> Product("fitting", "pcs", One, {[child |-> "joint", quantity |-> 1]}),
    bracket |-> Product("support", "pcs", One, {[child |-> "nut", quantity |-> 2]}),
    bolt |-> [Product("anchor", "pcs", Whole(5), {}) EXCEPT !.review = TRUE],
    clamp |-> Product("wstb", "pcs", One, {}),
    nut |-> Product("fastener", "pcs", Whole(10), {}),
    cap |-> Product("endpointMaterial", "pcs", One, {}),
    paint |-> Product("other", "kg", Fraction(5, 2), {}) ]

JointRule(option) ==
  [ type |-> "internalJoint", straight |-> "tray", option |-> option, product |-> "joint",
    quantity |-> 1, confidence |-> "catalogConfirmed" ]
ComponentRule(type, owner) ==
  [ type |-> type, owner |-> owner, confidence |-> "projectRule",
    components |-> {[product |-> "joint", quantity |-> 1, sides |-> 2]} ]

BaseRules ==
  [ supply3 |-> [type |-> "supplyOption", product |-> "tray", option |-> "o3"],
    supply6 |-> [type |-> "supplyOption", product |-> "tray", option |-> "o6"],
    joints |-> JointRule(None),
    bendRule |-> ComponentRule("fittingConnection", "f1"),
    spliceRule |-> ComponentRule("physicalConnection", "c1"),
    bendSupports |-> [type |-> "fittingAdditionalSupport", owner |-> "f1", quantity |-> 1],
    capRule |-> [ type |-> "endpointMaterial", owner |-> "e4", product |-> "cap", quantity |-> 1,
                  confidence |-> "catalogConfirmed" ],
    wstb2 |-> [type |-> "wstbPerSupport", quantity |-> 2] ]

Row(id, p, role, quantity, mode) ==
  [ id |-> id, product |-> p, role |-> role, quantity |-> quantity, unit |-> "pcs", mode |-> mode,
    suppress |-> FALSE ]
BaseTemplate ==
  [ review |-> FALSE,
    components |-> { Row("tBracket", "bracket", "support", One, "perSupport"),
                     Row("tBolt", "bolt", "anchor", Whole(2), "perSupport"),
                     Row("tClamp", "clamp", "wstb", Whole(2), "perSupport"),
                     [Row("tNut", "nut", "fastener", Whole(3), "perSupport") EXCEPT !.suppress = TRUE],
                     [Row("tSpare", "nut", "accessory", Whole(2), "perLevel") EXCEPT !.suppress = TRUE],
                     Row("tCap", "cap", "accessory", One, "manual") } ]

BaseSupports ==
  [ spacing |-> Fraction(3, 2), type |-> "wall", product |-> "bracket", template |-> "T",
    levels |-> 2, substrate |-> "concrete", anchor |-> "bolt", anchorOverride |-> 0,
    wstb |-> "clamp", wstbMode |-> "two", wstbQuantity |-> 0, wstbRule |-> "wstb2", extra |-> 0,
    manualValues |-> {[component |-> "tCap", quantity |-> Whole(3)]} ]

Segment(id, length) == [kind |-> "straight", id |-> id, length |-> length, option |-> None]
Bend ==
  [ kind |-> "fitting", id |-> "f1", product |-> "bend", connectionRule |-> "bendRule",
    supportRule |-> "bendSupports", length |-> Fraction(1, 2) ]
End(id, type, rule, connection) == [id |-> id, type |-> type, rule |-> rule, connection |-> connection]

BaseRoutes ==
  << [ product |-> "tray", option |-> "o3",
       geometry |-> <<Segment("s1", Whole(7)), Segment("s2", Whole(4)), Bend, Segment("s3", Whole(3))>>,
       ends |-> <<End("e1", "freeEnd", None, None), End("e2", "routeContinuation", None, "c1")>>,
       supports |-> BaseSupports ],
     [ product |-> "tray", option |-> "o3",
       geometry |-> <<Segment("s4", Whole(6))>>,
       ends |-> <<End("e3", "routeContinuation", None, "c1"), End("e4", "endCap", "capRule", None)>>,
       supports |-> BaseSupports ] >>

Continuation ==
  [ id |-> "c1", type |-> "logicalContinuation", physicalBreak |-> FALSE, supports |-> "shared",
    participants |-> <<[route |-> 1, endpoint |-> "e2"], [route |-> 2, endpoint |-> "e3"]>>,
    rule |-> None, before |-> 1, after |-> 2, corrections |-> {} ]
Splice == [Continuation EXCEPT !.type = "physicalSplice", !.physicalBreak = TRUE, !.rule = "spliceRule"]

Allow(context, p) == [context |-> context, subject |-> Project, product |-> p, allowed |-> TRUE]
BaseCompatibility ==
  { Allow("straightSection", "tray"), Allow("fitting", "bend"), Allow("support", "bracket"),
    Allow("anchor", "bolt"), Allow("wstb", "clamp"), Allow("accessory", "nut"),
    Allow("accessory", "cap"), Allow("manualCatalog", "paint") }

Paint ==
  [ id |-> "m1", product |-> "paint", named |-> TRUE, quantity |-> Fraction(13, 10), unit |-> "kg",
    override |-> None, adjusted |-> Zero, reserve |-> ProjectReserve, packaging |-> CatalogPackaging ]
FreeText == [Paint EXCEPT !.id = "m2", !.product = None, !.packaging = <<"disabled", Zero, None>>]

Base ==
  [ project |-> Project, load |-> TRUE, reserve |-> 10, routes |-> BaseRoutes,
    connections |-> {Continuation}, products |-> BaseProducts, rules |-> BaseRules,
    templates |-> [T |-> BaseTemplate], compatibility |-> BaseCompatibility, accessories |-> {},
    manualItems |-> {Paint, FreeText}, adjustments |-> {}, linePolicies |-> {},
    options |-> [unresolved |-> "warnAndOmit", mismatch |-> "split", packaging |-> TRUE] ]

---------------------------------------------------------------------------
(* Inputs that differ from the base. *)

Correction(original) == [id |-> "k1", product |-> "joint", original |-> original, adjusted |-> 5]
Supports(changes) == { [Base EXCEPT !.routes[1].supports = s, !.routes[2].supports = s] : s \in changes }
WithProducts(changes) == { [Base EXCEPT !.products = ps] : ps \in changes }
WithRules(changes) == { [Base EXCEPT !.rules = rs] : rs \in changes }
WithCompatibility(changes) == { [Base EXCEPT !.compatibility = cs] : cs \in changes }

\* How the two routes meet, and how their supports differ.
Meetings ==
  { [Base EXCEPT !.connections = cs, !.routes[2].supports = s, !.reserve = reserve,
                 !.routes[1].ends[2].connection = IF cs = {} THEN None ELSE "c1",
                 !.routes[2].ends[1].connection = IF cs = {} THEN None ELSE "c1"] :
      cs \in { {}, {Continuation}, {[Continuation EXCEPT !.supports = "separate"]}, {Splice},
               {[Splice EXCEPT !.rule = None]}, {[Continuation EXCEPT !.physicalBreak = TRUE]},
               {[Splice EXCEPT !.corrections = {Correction(2)}]},
               {[Splice EXCEPT !.corrections = {Correction(3)}]} },
      s \in { BaseSupports, [BaseSupports EXCEPT !.spacing = Whole(1)],
              [BaseSupports EXCEPT !.extra = 1] },
      reserve \in {0, 10} }

\* Continuations that join three routes, close a ring, or join a route to itself.
Third ==
  [ BaseRoutes[1] EXCEPT !.geometry = <<Segment("s5", Whole(5))>>,
                         !.ends = <<End("e5", "freeEnd", None, None), End("e6", "freeEnd", None, None)>> ]
Joining(id, ends) == [Continuation EXCEPT !.id = id, !.participants = ends]
At(route, endpoint) == [route |-> route, endpoint |-> endpoint]

Joinings ==
  { [Base EXCEPT !.connections = cs, !.routes = Append(BaseRoutes, Third),
                 !.routes[1].ends[2].connection = None, !.routes[2].ends[1].connection = None] :
      cs \in { {Joining("c1", <<At(1, "e2"), At(2, "e3"), At(3, "e5")>>)},
               {Joining("c1", <<At(2, "e3"), At(1, "e2")>>), Joining("c2", <<At(2, "e4"), At(3, "e5")>>)},
               {Joining("c1", <<At(1, "e2"), At(2, "e3"), At(2, "e4")>>)},
               {Joining("c1", <<At(2, "e3"), At(2, "e4")>>)},
               {Joining("c1", <<At(1, "e2"), At(2, "e3")>>), Joining("c2", <<At(2, "e4"), At(1, "e1")>>)} } }

SupportChoices ==
  Supports({ [BaseSupports EXCEPT !.substrate = x] : x \in {None, "unknown"} }
    \cup { [BaseSupports EXCEPT !.anchor = None], [BaseSupports EXCEPT !.anchorOverride = 3],
           [BaseSupports EXCEPT !.template = None], [BaseSupports EXCEPT !.product = None],
           [BaseSupports EXCEPT !.wstb = None], [BaseSupports EXCEPT !.wstbMode = "one"],
           [BaseSupports EXCEPT !.wstbMode = "custom", !.wstbQuantity = 3],
           [BaseSupports EXCEPT !.levels = 0], [BaseSupports EXCEPT !.manualValues = {}],
           [BaseSupports EXCEPT !.manualValues = {[component |-> "tCap", quantity |-> Fraction(5, 2)]}] })

ProductChoices ==
  WithProducts(
    { [BaseProducts EXCEPT ![p].active = FALSE] : p \in {"joint", "bend", "bolt", "paint"} }
    \cup { [BaseProducts EXCEPT !["tray"].unit = u] : u \in {"pcs", "kg"} }
    \cup { [BaseProducts EXCEPT !["tray"].package = Whole(n)] : n \in {3, 5} }
    \cup { [BaseProducts EXCEPT !["bracket"].included = {[child |-> "nut", quantity |-> n]}] : n \in {1, 3, 4} }
    \cup { [BaseProducts EXCEPT !["tray"].options = {Option("o3", 3000, "supply3")}],
           [BaseProducts EXCEPT !["tray"].options =
              {[Option("o3", 3000, "supply3") EXCEPT !.orderable = FALSE]}],
           [BaseProducts EXCEPT !["nut"].included = {[child |-> "bend", quantity |-> 1]},
                                !["joint"].included = {[child |-> "nut", quantity |-> 1]}],
           [BaseProducts EXCEPT !["nut"].package = Zero], [BaseProducts EXCEPT !["joint"].unit = "m"] })
  \cup { [Base EXCEPT !.routes[1].geometry[1].option = "o6"],
          \* A run of two supply lengths, with a joint rule for each and one for both.
          [Base EXCEPT !.routes[1].geometry[1].option = "o6",
                       !.rules = [r \in DOMAIN BaseRules \cup {"joints6"} |->
                                    IF r = "joints6" THEN JointRule("o6") ELSE BaseRules[r]]] }

RuleChoices ==
  WithRules({ [BaseRules EXCEPT !["joints"] = JointRule("o3")], [BaseRules EXCEPT !["joints"] = JointRule("o6")],
              [BaseRules EXCEPT !["joints"].quantity = 2], [BaseRules EXCEPT !["capRule"].owner = "e1"],
              [BaseRules EXCEPT !["wstb2"].quantity = 1], [BaseRules EXCEPT !["bendRule"].owner = "f9"],
              [BaseRules EXCEPT !["bendSupports"].owner = "f9"] })
  \cup { [Base EXCEPT !.routes[1].geometry[3] = f] :
           f \in { [Bend EXCEPT !.connectionRule = None], [Bend EXCEPT !.supportRule = None],
                   [Bend EXCEPT !.product = None] } }
  \cup { [Base EXCEPT !.routes[2].ends[2].rule = None] }

EvidenceChoices ==
  WithCompatibility(UNION { { BaseCompatibility \ {c}, (BaseCompatibility \ {c}) \cup {[c EXCEPT !.allowed = FALSE]},
                              BaseCompatibility \cup {[c EXCEPT !.allowed = FALSE]} } : c \in BaseCompatibility })

Override == <<"percentageOverride", 50, "x1">>
ManualChoices ==
  { [Base EXCEPT !.manualItems = {m, FreeText}] :
      m \in { [Paint EXCEPT !.named = FALSE], [Paint EXCEPT !.override = "x2", !.adjusted = Whole(7)],
              [Paint EXCEPT !.override = "x2", !.adjusted = Zero],
              [Paint EXCEPT !.reserve = Override],
              [Paint EXCEPT !.packaging = <<"incrementOverride", Whole(2), "x3">>],
              [Paint EXCEPT !.packaging = <<"disabled", Zero, "x4">>], [FreeText EXCEPT !.id = "m3"] } }
  \cup { [Base EXCEPT !.adjustments = {[id |-> "a1", product |-> p, unit |-> "m", original |-> x, adjusted |-> y]}] :
           p \in {"tray", "nut"}, x \in {Whole(24), Whole(9)}, y \in {Whole(27), Whole(28)} }
  \cup { [Base EXCEPT !.linePolicies = {[ id |-> "l1", target |-> target, reserve |-> Override,
                                          packaging |-> packaging]}] :
           target \in {<<"product", "tray">>, <<"product", "paint">>, <<"manual", "m1">>, <<"product", "nut">>},
           packaging \in {CatalogPackaging, <<"incrementOverride", Whole(4), "x5">>} }
  \cup { [Base EXCEPT !.linePolicies = { [ id |-> t[2], target |-> t, reserve |-> Override, packaging |-> CatalogPackaging ] :
                                           t \in {<<"product", "paint">>, <<"manual", "m1">>} }] }

OtherChoices ==
  { [Base EXCEPT !.load = FALSE], [Base EXCEPT !.accessories = {"nut", "cap"}],
    [Base EXCEPT !.accessories = {"bend"}], [Base EXCEPT !.options.packaging = FALSE] }

MCInputs ==
  { [in EXCEPT !.options.unresolved = u, !.options.mismatch = m] :
      in \in Meetings \cup Joinings \cup SupportChoices \cup ProductChoices \cup RuleChoices \cup EvidenceChoices
             \cup ManualChoices \cup OtherChoices,
      u \in {"warnAndOmit", "fail"}, m \in {"split", "fail"} }
=============================================================================
