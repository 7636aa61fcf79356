------------------------ MODULE MCProjectCalculation ------------------------
(***************************************************************************)
(* Catalogs and drafts for TLC: one catalog and one draft of two routes,   *)
(* and those that differ from them in what the preflight looks at.         *)
(***************************************************************************)
EXTENDS ProjectCalculation, TLC

Product(category, unit, package) ==
  [ category |-> category, attributes |-> [system |-> "wsl"], unit |-> unit, package |-> package,
    packageUnit |-> unit, orderable |-> TRUE, active |-> TRUE, review |-> FALSE, length |-> 0 ]

BaseProducts ==
  [ tray |-> [Product("straightSection", "m", Whole(6)) EXCEPT !.length = 3000],
    joint |-> Product("accessory", "pcs", Whole(4)),
    bracket |-> Product("support", "pcs", One), bolt |-> Product("anchor", "pcs", Whole(5)),
    clamp |-> Product("wstb", "pcs", One), nut |-> Product("fastener", "pcs", Whole(10)),
    bend |-> Product("fitting", "pcs", One) ]

Row(id, product, role, quantity, mode) ==
  [ id |-> id, template |-> "T", product |-> product, role |-> role, quantity |-> quantity, unit |-> "pcs",
    mode |-> mode, expression |-> FALSE, suppress |-> FALSE ]
\* The clamp is filed as a support, as in the catalog of stage 5.
BaseRows ==
  << Row("tBracket", "bracket", "support", One, "perSupport"), Row("tBolt", "bolt", "anchor", Whole(2), "perSupport"),
     Row("tClamp", "clamp", "support", One, "perSupport"), Row("tNut", "nut", "fastener", One, "manual") >>

Compatibility(type) ==
  [ type |-> type, allowed |-> TRUE, source |-> None, sourceSelectors |-> {}, selection |-> << >>,
    substrate |-> None, target |-> None, targetSelectors |-> {} ]
Chosen(finish) == <<"wsl", "60x200", "steel", finish>>
SelectionRule == [Compatibility("selection") EXCEPT !.source = "tray", !.selection = Chosen("zinc")]
AnchorRule == [Compatibility("anchor") EXCEPT !.source = "bolt", !.substrate = "concrete"]
ConnectorRule == [Compatibility("connector") EXCEPT !.source = "tray", !.target = "joint"]

BaseCatalog ==
  [ products |-> BaseProducts, compatibility |-> {SelectionRule, AnchorRule, ConnectorRule},
    templates |-> [T |-> [active |-> TRUE, type |-> "wall", system |-> "wsl", review |-> FALSE]],
    rows |-> BaseRows,
    included |-> {[parent |-> "bracket", child |-> "nut", quantity |-> 1, unit |-> "pcs"]},
    joints |-> {[ id |-> "joints", straight |-> "tray", option |-> None, product |-> "joint",
                  quantity |-> 1, confidence |-> "catalogConfirmed" ]} ]

ProductVariants ==
  { [BaseProducts EXCEPT ![p].active = FALSE] : p \in {"tray", "bolt", "clamp", "nut"} }
  \cup { [BaseProducts EXCEPT ![p].unit = None] : p \in {"joint", "nut"} }
  \cup { [BaseProducts EXCEPT !["tray"].packageUnit = "pcs"], [BaseProducts EXCEPT !["tray"].length = 0],
         [BaseProducts EXCEPT !["tray"].package = Whole(5)], [BaseProducts EXCEPT !["bolt"].unit = "kg", !["bolt"].packageUnit = "kg"] }
\* Products that nobody selects.
Unselected ==
  { [spare |-> [BaseProducts["tray"] EXCEPT !.length = n, !.unit = u, !.packageUnit = u]] : n \in {0, 6000}, u \in {"m", "pcs"} }

RowVariants ==
  { [i \in 1..3 |-> BaseRows[IF i < n THEN i ELSE i + 1]] : n \in 1..4 }
  \cup { [BaseRows EXCEPT ![4] = row] :
           row \in { [Row("tNut", "nut", "fastener", One, "manual") EXCEPT !.unit = "m"],
                     [Row("tNut", "nut", "fastener", One, None) EXCEPT !.expression = TRUE],
                     Row("tNut", "bracket", "structure", One, "perSupport"),
                     Row("tNut", "nut", "fastener", Fraction(1, 2), "perSupport"),
                     Row("tNut", "nut", "fastener", One, "perSupport") } }
CompatibilityVariants ==
  { BaseCatalog.compatibility \ {rule} : rule \in BaseCatalog.compatibility }
  \cup { {SelectionRule, AnchorRule, [ConnectorRule EXCEPT !.target = None, !.targetSelectors = {[system |-> "wsl"]}]} }

MCCatalogs ==
  {BaseCatalog}
  \cup { [BaseCatalog EXCEPT !.products = ps] : ps \in ProductVariants }
  \cup { [BaseCatalog EXCEPT !.products = BaseProducts @@ spare] : spare \in Unselected }
  \cup {[BaseCatalog EXCEPT !.included = @ \cup {[parent |-> "nut", child |-> "bracket", quantity |-> 1, unit |-> "pcs"]}]}
  \cup { [BaseCatalog EXCEPT !.rows = rows] : rows \in RowVariants }
  \cup { [BaseCatalog EXCEPT !.compatibility = rules] : rules \in CompatibilityVariants }
  \cup { [BaseCatalog EXCEPT !.templates["T"] = t] :
           t \in { [active |-> FALSE, type |-> "wall", system |-> "wsl", review |-> FALSE],
                   [active |-> TRUE, type |-> "floor", system |-> "wsl", review |-> FALSE],
                   [active |-> TRUE, type |-> "wall", system |-> "wsc", review |-> TRUE],
                   [active |-> TRUE, type |-> "wall", system |-> None, review |-> FALSE] } }

---------------------------------------------------------------------------

NutValue(quantity, unit) == [component |-> "tNut", quantity |-> quantity, unit |-> unit]
BaseSupports ==
  [ spacing |-> Fraction(3, 2), type |-> "wall", product |-> "bracket", template |-> "T", levels |-> 2,
    substrate |-> "concrete", anchor |-> "bolt", anchorOverride |-> 0, wstb |-> "clamp",
    wstbMode |-> "one", wstbQuantity |-> 0, extras |-> {},
    manualValues |-> {NutValue(Whole(4), "pcs")} ]

Segment(id, length) == [kind |-> "straight", id |-> id, length |-> length, option |-> None]
Bend ==
  [ kind |-> "fitting", id |-> "f1", type |-> "horizontalBend", described |-> FALSE, product |-> None,
    length |-> Zero ]
End(id, type) == [id |-> id, type |-> type, product |-> None, texts |-> {}]
Route(code, geometry, ends) ==
  [ code |-> code, selection |-> Chosen("zinc"), straight |-> "tray",
    option |-> SupplyOption("tray"), geometry |-> geometry, ends |-> ends, supports |-> BaseSupports ]

Continuation ==
  [ id |-> "c1", type |-> "logicalContinuation", physicalBreak |-> FALSE, supports |-> "shared",
    participants |-> <<[route |-> 1, endpoint |-> "e2"], [route |-> 2, endpoint |-> "e3"]>>,
    before |-> 0, after |-> 1, material |-> None, corrections |-> {} ]
NutItem ==
  [ id |-> "m1", product |-> "nut", quantity |-> Whole(7), unit |-> "pcs", override |-> None, adjusted |-> Zero,
    reserve |-> <<"projectDefault", 0, None>>, packaging |-> <<"catalogDefault", 0, None>> ]

BaseDraft ==
  [ routes |-> << Route("R1", <<Segment("s1", Whole(6)), Segment("s2", Whole(2))>>,
                        <<End("e1", "freeEnd"), End("e2", "routeContinuation")>>),
                  Route("R2", <<Segment("s3", Whole(4))>>,
                        <<End("e3", "routeContinuation"), End("e4", "freeEnd")>>) >>,
    connections |-> {Continuation}, accessories |-> {}, manualItems |-> {NutItem}, reserve |-> 10, load |-> TRUE ]

\* Changes to both routes' supports, and to those of the second route alone.
SupportVariants ==
  { [BaseSupports EXCEPT !.spacing = Zero], [BaseSupports EXCEPT !.type = None],
    [BaseSupports EXCEPT !.wstbMode = None], [BaseSupports EXCEPT !.product = None],
    [BaseSupports EXCEPT !.product = "nut"], [BaseSupports EXCEPT !.anchor = None],
    [BaseSupports EXCEPT !.substrate = "steel"], [BaseSupports EXCEPT !.anchor = "gone"],
    [BaseSupports EXCEPT !.anchorOverride = 3], [BaseSupports EXCEPT !.wstb = None],
    [BaseSupports EXCEPT !.wstb = "bracket"], [BaseSupports EXCEPT !.manualValues = {}],
    [BaseSupports EXCEPT !.template = None], [BaseSupports EXCEPT !.wstb = None, !.anchor = None, !.template = None, !.product = None],
    [BaseSupports EXCEPT !.template = None, !.anchorOverride = 1],
    [BaseSupports EXCEPT !.manualValues = {NutValue(Fraction(1, 2), "m")}] }
SecondSupports ==
  { [BaseSupports EXCEPT !.wstbMode = "two"], [BaseSupports EXCEPT !.wstbMode = "custom", !.wstbQuantity = 3],
    [BaseSupports EXCEPT !.spacing = Whole(2)], [BaseSupports EXCEPT !.extras = {[id |-> "a1", of |-> "s3", quantity |-> 1]}],
    [BaseSupports EXCEPT !.anchorOverride = 1] }

RouteVariants ==
  { [BaseDraft EXCEPT !.routes[1] = r] :
      r \in { [BaseDraft.routes[1] EXCEPT !.selection[4] = None], [BaseDraft.routes[1] EXCEPT !.straight = None],
              [BaseDraft.routes[1] EXCEPT !.straight = "bend"], [BaseDraft.routes[1] EXCEPT !.selection = Chosen("paint")],
              [BaseDraft.routes[1] EXCEPT !.option = None], [BaseDraft.routes[1] EXCEPT !.geometry = << >>],
              [BaseDraft.routes[1] EXCEPT !.geometry[2] = Bend],
              [BaseDraft.routes[1] EXCEPT !.geometry[2] = [Bend EXCEPT !.product = "bend"]],
              [BaseDraft.routes[1] EXCEPT !.geometry[1].option = "supply:bend"] } }
  \cup { [BaseDraft EXCEPT !.routes[2].ends[2] = [End("e4", "endCap") EXCEPT !.product = p]] : p \in {None, "nut", "gone"} }
OtherVariants ==
  { [BaseDraft EXCEPT !.connections = cs] :
      cs \in { {}, {[Continuation EXCEPT !.supports = "separate"]}, {[Continuation EXCEPT !.type = "physicalSplice"]},
               {[Continuation EXCEPT !.type = "custom", !.material = "joint"]},
               {[Continuation EXCEPT !.type = "custom", !.corrections = {[id |-> "k1", product |-> "joint", adjusted |-> 2]}]} } }
  \cup { [BaseDraft EXCEPT !.accessories = {p}] : p \in {"nut", "gone"} }
  \cup { [BaseDraft EXCEPT !.manualItems = {m}] :
           m \in { [NutItem EXCEPT !.unit = "m"], [NutItem EXCEPT !.product = "gone"],
                   [NutItem EXCEPT !.product = None, !.packaging = <<"disabled", Zero, None>>],
                   [NutItem EXCEPT !.product = None, !.packaging = <<"incrementOverride", Whole(2), "x1">>],
                   [NutItem EXCEPT !.packaging = <<"incrementOverride", Whole(2), "x1">>],
                   [NutItem EXCEPT !.override = "x2", !.adjusted = Whole(9)] } }
  \cup { [BaseDraft EXCEPT !.routes = << >>, !.connections = {}], [BaseDraft EXCEPT !.load = FALSE] }

\* Drafts that the schema refuses, each for one of its rules.
RefusedVariants ==
  LET Joining(e, f, type) ==
        {[Continuation EXCEPT !.type = type, !.participants = <<[route |-> 1, endpoint |-> e], [route |-> 2, endpoint |-> f]>>]}
  IN { [BaseDraft EXCEPT !.connections = cs] :
         cs \in { Joining("e1", "e3", "physicalSplice"), Joining("e2", "e4", "physicalSplice"), Joining("e2", "e9", "physicalSplice"),
                  Joining("e1", "e4", "logicalContinuation"), Joining("e2", "e3", "tee"),
                  {Continuation, [Continuation EXCEPT !.id = "c2", !.type = "physicalSplice"]} } }
     \cup { [BaseDraft EXCEPT !.routes[1].geometry[2] = item] :
              item \in { Segment("s1", Whole(1)), Segment("s3", Whole(1)), Segment("s2", Zero), [Bend EXCEPT !.type = "custom"] } }
     \cup { [BaseDraft EXCEPT !.routes[1].ends[1] = end] :
              end \in {End("e4", "freeEnd"), End("e1", "equipment"), End("e1", "custom")} }
     \cup { [BaseDraft EXCEPT !.routes[2].code = "R1"], [BaseDraft EXCEPT !.manualItems = {[NutItem EXCEPT !.quantity = Zero]}],
            [BaseDraft EXCEPT !.manualItems = @ \cup {[NutItem EXCEPT !.unit = "m"]}],
            [BaseDraft EXCEPT !.routes[1].supports.anchorOverride = Blank],
            [BaseDraft EXCEPT !.routes[1].supports.wstbMode = "custom"] }

DraftVariants ==
  {BaseDraft} \cup RouteVariants \cup OtherVariants
  \cup { [BaseDraft EXCEPT !.routes[1].supports = s, !.routes[2].supports = s] : s \in SupportVariants }
  \cup { [BaseDraft EXCEPT !.routes[2].supports = s] : s \in SecondSupports }
MCDrafts == DraftVariants \cup RefusedVariants

\* Two routes that share their supports but want different numbers of a template's nuts.
TwoValues ==
  {[BaseDraft EXCEPT !.routes[2].supports.manualValues = {NutValue(Whole(9), "pcs")}]}
OneCatalog == {BaseCatalog}

---------------------------------------------------------------------------
(* Pages of the editor: a catalog that also has a second tray and a template for ceilings,  *)
(* and drafts that can be calculated, or hold what was chosen from an earlier catalog.      *)

EditorRows ==
  BaseRows \o
  << [Row("uBracket", "bracket", "support", One, "perSupport") EXCEPT !.template = "U"],
     [Row("uArm", "arm", "structure", One, "perLevel") EXCEPT !.template = "U"],
     [Row("uScrew", "screw", "anchor", Whole(2), "perSupport") EXCEPT !.template = "U"],
     [Row("uBolt", "bolt", "anchor", Whole(2), "perSupport") EXCEPT !.template = "U"] >>
EditorCatalogs ==
  LET products == BaseProducts @@ [ plain |-> BaseProducts["tray"], arm |-> Product("support", "pcs", One),
                                    screw |-> BaseProducts["bolt"] ]
      base == [BaseCatalog EXCEPT
                 !.products = products, !.rows = EditorRows,
                 !.templates = @ @@ [U |-> [active |-> TRUE, type |-> "ceiling", system |-> "wsl", review |-> FALSE]],
                 !.compatibility = @ \cup
                   { [SelectionRule EXCEPT !.source = "plain", !.selection = Chosen("paint")],
                     [AnchorRule EXCEPT !.source = "screw", !.substrate = "steel"] }]
      bySelector == [AnchorRule EXCEPT !.source = None, !.sourceSelectors = {[system |-> "wsl"]}]
  IN { base, [base EXCEPT !.compatibility = @ \cup {bySelector}],
       \* and one that its schema refuses: a template row of half a bolt.
       [base EXCEPT !.rows[8].quantity = Fraction(1, 2)] }

EditorDrafts ==
  LET extra == [id |-> "a1", of |-> "s3", quantity |-> 1]
      base == [BaseDraft EXCEPT !.routes[2].supports.extras = {extra}]
  IN { base,
       [base EXCEPT !.routes[1].supports =
          [BaseSupports EXCEPT !.type = "ceiling", !.template = "U", !.anchor = "screw", !.substrate = "steel",
                               !.wstb = None, !.manualValues = {}]],
       [base EXCEPT !.accessories = {"nut"}, !.routes[1].geometry[2] = [Bend EXCEPT !.product = "bend"],
                    !.routes[2].ends[2] = [End("e4", "endCap") EXCEPT !.product = "nut"],
                    !.connections = {[Continuation EXCEPT !.type = "custom", !.material = "joint",
                                        !.corrections = {[id |-> "k1", product |-> "joint", adjusted |-> 2]}]},
                    !.routes[1].supports = [BaseSupports EXCEPT !.anchor = "gone", !.wstb = "gone"]] }
MCPages == EditorCatalogs \X EditorDrafts
MCUuids == <<"new1", "new2", "new3", "new4", "new5", "new6", "new7", "new8", "new9">>
MCLengths == {Whole(1)}
MCJoins ==
  { [type |-> "logicalContinuation", physicalBreak |-> TRUE, supports |-> "shared", before |-> 0, after |-> 1],
    [type |-> "tee", physicalBreak |-> TRUE, supports |-> "separate", before |-> 1, after |-> 0] }

\* The inputs of the engine alone.
Direct == INSTANCE MCCalculationInputs
MCInputs == Direct!MCInputs
=============================================================================
