------------------------- MODULE MCCatalogLifecycle -------------------------
(***************************************************************************)
(* Uploads for TLC: a catalog of three products, others of its version and *)
(* of its scope, and those that differ from it in what is looked at.       *)
(***************************************************************************)
EXTENDS CatalogLifecycle, TLC

SymmetricRequests == Permutations(Requests)

Product(code, category) ==
  [ code |-> code, category |-> category, family |-> "F", system |-> "wsl", version |-> "v1", complete |-> TRUE,
    orderable |-> "yes", indoor |-> "no", review |-> "no", package |-> 6, packUnit |-> "pcs", orderUnit |-> "pcs",
    height |-> 60, width |-> 200, length |-> 3000, material |-> "st", finish |-> "f",
    weight |-> 0, weightUnit |-> None, basis |-> 0, basisUnit |-> None, approval |-> FALSE, note |-> FALSE, page |-> 7,
    source |-> "kr", fits |-> TRUE ]

Weighed(p, basisUnit) == [p EXCEPT !.weight = 5, !.weightUnit = "kg", !.basis = 100, !.basisUnit = basisUnit]
Tray == Weighed([Product("tray", "straightSection") EXCEPT !.orderUnit = "m", !.packUnit = "m"], "kg_per_100_m")
Bolt == [Weighed(Product("bolt", "anchor"), "kg_per_100_pcs") EXCEPT
           !.family = "NSA", !.system = "concrete", !.indoor = "yes", !.review = "yes", !.note = TRUE, !.approval = TRUE]
Joint == [Product("joint", "accessory") EXCEPT !.height = 0, !.width = 0, !.length = 0, !.page = 0, !.source = "kb"]

Attribute(key) ==
  [ product |-> "bolt", key |-> key, values |-> {"number"}, readable |-> TRUE, unit |-> None, page |-> 8,
    source |-> "ka", fits |-> TRUE ]
BoltAttributes ==
  << Attribute("diameter"), Attribute("length"), [Attribute("head_drive") EXCEPT !.values = {"text"}],
     Attribute("drill_hole_diameter"), [Attribute("recommended_tightening_torque") EXCEPT !.unit = "Nm"],
     [Attribute("substrate") EXCEPT !.values = {"text"}] >>

Manifest == [schema |-> TRUE, full |-> "yes", checksum |-> TRUE, complete |-> TRUE, version |-> "v1", scope |-> "s"]
Included ==
  [ parent |-> "tray", child |-> "joint", quantity |-> 2, unit |-> "pcs", page |-> 9, source |-> "kr", fits |-> TRUE ]
Rule == [ code |-> "R1", allowed |-> "yes", verification |-> "verified", selector |-> None,
          signature |-> "tray", page |-> 9, source |-> "kr", fits |-> TRUE ]
Template == [code |-> "T", type |-> "wall", review |-> "no", fits |-> TRUE]
Component == [ template |-> "T", product |-> "joint", role |-> "accessory", quantity |-> 1, unit |-> "pcs",
               mode |-> "per_support", suppress |-> "yes", fits |-> TRUE ]
Observation(value, authoritative) ==
  [ product |-> "joint", field |-> "package", value |-> value, authoritative |-> authoritative,
    policy |-> authoritative = "yes", page |-> 9, fits |-> TRUE ]

Base ==
  [ unknown |-> FALSE, manifest |-> <<Manifest>>, products |-> <<Tray, Bolt, Joint>>, attributes |-> BoltAttributes,
    included |-> <<Included>>, rules |-> <<Rule>>, templates |-> <<Template>>, components |-> <<Component>>,
    observations |-> <<Observation(50, "yes"), Observation(100, "no")>> ]

Corrected == [Base EXCEPT !.products[3].package = 50]
Mistaken == [Base EXCEPT !.unknown = TRUE]
Successor ==
  [Base EXCEPT !.manifest[1].version = "v2", !.products = [i \in 1..3 |-> [@[i] EXCEPT !.version = "v2"]]]

\* Changes to one product, and rows that other sheets get.
ProductChanges ==
  << [Tray EXCEPT !.length = 0], [Tray EXCEPT !.length = -1], [Tray EXCEPT !.packUnit = "kg_per_100_m"],
     [Tray EXCEPT !.weightUnit = None], [Weighed(Tray, "pcs") EXCEPT !.category = "fitting"],
     [Tray EXCEPT !.category = "tray"], [Tray EXCEPT !.code = "joint"], [Tray EXCEPT !.orderUnit = None],
     [Tray EXCEPT !.orderable = Bad], [Tray EXCEPT !.package = 0], [Tray EXCEPT !.orderable = "no", !.package = 0],
     [Tray EXCEPT !.orderable = "no", !.package = -1], [Tray EXCEPT !.page = -1], [Tray EXCEPT !.review = "yes"],
     [Tray EXCEPT !.version = "v3"], [Tray EXCEPT !.fits = FALSE], Bolt >>
\* A text with a unit.
Measured == [Attribute("colour") EXCEPT !.values = {"text"}, !.unit = "mm"]
AttributeRows ==
  << Attribute("length"), [Attribute("colour") EXCEPT !.product = "gone"], [Attribute("colour") EXCEPT !.values = {"text", "number"}],
     [Attribute("colour") EXCEPT !.product = None], [Attribute("colour") EXCEPT !.unit = "inch"],
     [Attribute("colour") EXCEPT !.unit = "kg_per_100_m"], Measured, [Measured EXCEPT !.values = {"boolean"}],
     [Attribute("colour") EXCEPT !.page = -1], [Attribute("colour") EXCEPT !.page = -1, !.source = "kx"] >>
IncludedRows ==
  << Included, [Included EXCEPT !.parent = "joint", !.child = "tray"], [Included EXCEPT !.child = "gone"],
     [Included EXCEPT !.quantity = 0], [Included EXCEPT !.child = "tray"],
     [Included EXCEPT !.parent = "bolt", !.page = -1, !.source = "kx"], [Included EXCEPT !.parent = "bolt"] >>
RuleRows ==
  << Rule, [Rule EXCEPT !.code = "R2", !.allowed = "no"], [Rule EXCEPT !.code = "R2", !.selector = Bad],
     [Rule EXCEPT !.code = None], [Rule EXCEPT !.code = "R2", !.fits = FALSE] >>
TemplateRows == << Template, [Template EXCEPT !.code = "T2"], [Template EXCEPT !.type = "sky"] >>
ComponentRows ==
  << [Component EXCEPT !.template = "gone"], [Component EXCEPT !.product = "gone"],
     [Component EXCEPT !.unit = "inch"], [Component EXCEPT !.fits = FALSE], [Component EXCEPT !.mode = "ever"] >>

Each(rows, Change(_)) == [i \in DOMAIN rows |-> Change(rows[i])]
Variants ==
  Each(ProductChanges, LAMBDA p : [Base EXCEPT !.products[1] = p])
  \o << [Base EXCEPT !.products[2].indoor = "no"], [Base EXCEPT !.products[2].note = FALSE],
        [Base EXCEPT !.products[2].family = "DAZ"], [Base EXCEPT !.products[2].approval = FALSE],
        [Base EXCEPT !.manifest[1].checksum = FALSE], [Base EXCEPT !.manifest[1].scope = None],
        [Base EXCEPT !.manifest = <<Manifest, [Manifest EXCEPT !.scope = "s2"]>>],
        [Base EXCEPT !.manifest = <<[Manifest EXCEPT !.full = Bad], Manifest>>],
        [Base EXCEPT !.observations = << Observation(50, "no"), Observation(100, "no") >>],
        [Base EXCEPT !.observations[1].page = -1], [Mistaken EXCEPT !.observations[2].fits = FALSE] >>
  \o Each(AttributeRows, LAMBDA a : [Base EXCEPT !.attributes = Append(@, a)])
  \o Each(IncludedRows, LAMBDA x : [Base EXCEPT !.included = Append(@, x)])
  \o Each(RuleRows, LAMBDA r : [Base EXCEPT !.rules = Append(@, r)])
  \o Each(TemplateRows, LAMBDA t : [Base EXCEPT !.templates = Append(@, t)])
  \o Each(ComponentRows, LAMBDA c : [Base EXCEPT !.components = Append(@, c)])

Named == [base |-> Base, corrected |-> Corrected, mistaken |-> Mistaken, successor |-> Successor]
VariantName(i) == "variant" \o ToString(i)

\* The named uploads meet one another; a variant is imported into an empty catalog.
MCCatalogue ==
  Named @@ [n \in { VariantName(i) : i \in DOMAIN Variants } |->
              Variants[CHOOSE i \in DOMAIN Variants : VariantName(i) = n]]
MCUploadSets ==
  {{"base", "corrected", "successor"}, {"base", "mistaken"}} \cup { {VariantName(i)} : i \in DOMAIN Variants }
=============================================================================
