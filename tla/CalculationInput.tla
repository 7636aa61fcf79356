--------------------------- MODULE CalculationInput ---------------------------
(***************************************************************************)
(* The input of the calculation engine, calculation-input/v2, and the      *)
(* conditions under which its schema accepts it                            *)
(* (packages/domain/src/schemas/v2/calculation.ts).                        *)
(*                                                                         *)
(* An input is a record.  Collections whose members have an identifier are *)
(* functions from it (routes, products, rules, templates) or sets of       *)
(* records with an id, so that what the schema says of duplicate           *)
(* identifiers is said here only where a collection is not indexed by      *)
(* them.  Texts, sources and snapshot references are left out.  None is an *)
(* absent identifier; an absent level count, package increment, override   *)
(* or fitting length is 0 (Zero), as the schema has them positive.         *)
(* What is said of the fields alone is what the rules compute with: a      *)
(* count is a number, a length or a quantity an exact fraction, and what   *)
(* has an identifier is not None.                                          *)
(***************************************************************************)
EXTENDS ExactDecimal, Sequences

None == "none"

\* The policies of an item that overrides none.
ProjectReserve == <<"projectDefault", 0, None>>
CatalogPackaging == <<"catalogDefault", 0, None>>

Straight(item) == item.kind = "straight"
Routes(in) == DOMAIN in.routes
Products(in) == DOMAIN in.products
Items(in) == UNION { { <<r, i>> : i \in DOMAIN in.routes[r].geometry } : r \in Routes(in) }
Item(in, g) == in.routes[g[1]].geometry[g[2]]
Segments(in) == { g \in Items(in) : Straight(Item(in, g)) }
Fittings(in) == Items(in) \ Segments(in)
Ends(in) == { in.routes[r].ends[i] : r \in Routes(in), i \in 1..2 }

OptionsOf(in, p) == { o.id : o \in in.products[p].options }
HasRole(in, p, role) == p \in Products(in) /\ in.products[p].role = role
IsRule(in, r, type) == r \in DOMAIN in.rules /\ in.rules[r].type = type
IsSequence(s) == s \in Seq({ s[i] : i \in DOMAIN s })
Collection(S, Accepted(_)) == IsFiniteSet(S) /\ \A x \in S : Accepted(x)
Optional(x, Accepted(_)) == x # None => Accepted(x)
IsQuantity(x, unit) == unit = "pcs" => IsInteger(x)
Distinct(S, Id(_)) == \A a, b \in S : Id(a) = Id(b) => a = b

RouteAccepted(in, route) ==
  /\ HasRole(in, route.product, "straightSection")
  /\ route.option \in OptionsOf(in, route.product)
  /\ IsSequence(route.geometry) /\ route.geometry # << >>
  /\ \A i \in DOMAIN route.geometry :
       LET item == route.geometry[i]
       IN IF Straight(item)
          THEN /\ item.length \in Positives
               /\ Optional(item.option, LAMBDA o : o \in OptionsOf(in, route.product))
          ELSE /\ item.length \in Fractions
               /\ Optional(item.product, LAMBDA p : HasRole(in, p, "fitting"))
               /\ Optional(item.connectionRule, LAMBDA r : IsRule(in, r, "fittingConnection"))
               /\ Optional(item.supportRule, LAMBDA r : IsRule(in, r, "fittingAdditionalSupport"))

SupportTypes == {"wall", "ceiling", "floor", "custom"}

\* The fields by themselves, wherever their routes and templates are.
SupportConfigurationAccepted(s) ==
  /\ s.spacing \in Positives
  /\ s.type \in SupportTypes
  /\ {s.levels, s.anchorOverride, s.extra} \subseteq Nat
  /\ s.wstbMode \in {"one", "two"} \/ (s.wstbMode = "custom" /\ s.wstbQuantity \in Nat \ {0})
  /\ Collection(s.manualValues, LAMBDA v : v.quantity \in Positives)

SupportsAccepted(in, s) ==
  /\ SupportConfigurationAccepted(s)
  /\ Optional(s.product, LAMBDA p : HasRole(in, p, "support"))
  /\ Optional(s.anchor, LAMBDA p : HasRole(in, p, "anchor"))
  /\ Optional(s.wstb, LAMBDA p : HasRole(in, p, "wstb"))
  /\ Optional(s.template, LAMBDA t : t \in DOMAIN in.templates)
  /\ IsRule(in, s.wstbRule, "wstbPerSupport")
  /\ Distinct(s.manualValues, LAMBDA v : v.component)

RoutesAccepted(in) ==
  /\ IsSequence(in.routes) /\ Routes(in) # {}
  /\ \A r \in Routes(in) : RouteAccepted(in, in.routes[r]) /\ SupportsAccepted(in, in.routes[r].supports)
  /\ Distinct(Items(in), LAMBDA g : Item(in, g).id)

\* No product includes itself, directly or through others: of any set of products, one
\* includes none of the set.
Acyclic(in) ==
  \A S \in (SUBSET { p \in Products(in) : in.products[p].included # {} }) \ {{}} :
    \E p \in S : \A i \in in.products[p].included : i.child \notin S

ProductAccepted(in, p) ==
  LET product == in.products[p]
  IN /\ {product.orderable, product.active, product.review} \subseteq BOOLEAN
     /\ product.unit \in {"pcs", "m", "kg"}
     /\ product.package \in Fractions /\ (product.orderable => product.package # Zero)
     /\ IsQuantity(product.package, product.unit)
     /\ Collection(product.options, LAMBDA o :
          {o.orderable, o.active} \subseteq BOOLEAN /\ o.length \in {3000, 6000} /\ IsRule(in, o.rule, "supplyOption"))
     /\ Distinct(product.options, LAMBDA o : o.id)
     /\ product.role = "straightSection" => product.options # {}
     /\ Collection(product.included, LAMBDA i : i.child \in Products(in) \ {p} /\ i.quantity \in Nat \ {0})

ProductsAccepted(in) ==
  Products(in) # {} /\ Acyclic(in) /\ Collection(Products(in), LAMBDA p : ProductAccepted(in, p))

RuleProducts(rule) ==
  CASE rule.type \in {"supplyOption", "endpointMaterial"} -> {rule.product}
    [] rule.type = "internalJoint" -> {rule.straight, rule.product}
    [] rule.type \in {"fittingConnection", "physicalConnection"} -> { c.product : c \in rule.components }
    [] rule.type \in {"wstbPerSupport", "fittingAdditionalSupport"} -> {}

\* The fields of a rule; only a fitting may ask for no additional support.
RuleAccepted(rule) ==
  CASE rule.type = "supplyOption" -> TRUE
    [] rule.type \in {"internalJoint", "endpointMaterial", "wstbPerSupport"} -> rule.quantity \in Nat \ {0}
    [] rule.type = "fittingAdditionalSupport" -> rule.quantity \in Nat
    [] rule.type \in {"fittingConnection", "physicalConnection"} ->
         rule.components # {} /\ Collection(rule.components, LAMBDA c : {c.quantity, c.sides} \subseteq Nat \ {0})

RulesAccepted(in) ==
  /\ None \notin DOMAIN in.rules
  /\ Collection(DOMAIN in.rules, LAMBDA r :
       RuleAccepted(in.rules[r]) /\ RuleProducts(in.rules[r]) \subseteq Products(in))

TemplateFieldsAccepted(template) ==
  /\ template.review \in BOOLEAN
  /\ template.components # {} /\ IsFiniteSet(template.components)
  /\ \A c \in template.components :
       /\ c.id # None
       /\ c.role \in {"support", "structure", "anchor", "fastener", "accessory", "wstb"}
       /\ c.mode \in {"fixed", "perSupport", "perLevel", "manual"}
       /\ c.quantity \in Positives /\ IsQuantity(c.quantity, c.unit)

TemplatesAccepted(in) ==
  \A t \in DOMAIN in.templates :
    LET components == in.templates[t].components
    IN /\ TemplateFieldsAccepted(in.templates[t])
       /\ Distinct(components, LAMBDA c : c.id)
       /\ { c.product : c \in components } \subseteq Products(in)

ConnectionAccepted(in, c) ==
  /\ IsSequence(c.participants) /\ Len(c.participants) \in {2, 3}
  /\ {c.before, c.after} \subseteq Nat
  /\ Collection(c.corrections, LAMBDA k : {k.original, k.adjusted} \subseteq Nat)
  /\ \A i \in DOMAIN c.participants :
       LET p == c.participants[i]
       IN p.route \in Routes(in) /\ \E e \in 1..2 : in.routes[p.route].ends[e].id = p.endpoint
  /\ Distinct(DOMAIN c.participants, LAMBDA i : c.participants[i].endpoint)
  /\ c.type = "logicalContinuation" => ~c.physicalBreak
  /\ Optional(c.rule, LAMBDA r : IsRule(in, r, "physicalConnection"))

ConnectionsAccepted(in) ==
  Distinct(in.connections, LAMBDA c : c.id) /\ Collection(in.connections, LAMBDA c : ConnectionAccepted(in, c))

EndsAccepted(in) ==
  \A end \in Ends(in) :
    /\ Optional(end.connection, LAMBDA id :
         \E c \in in.connections : c.id = id /\ \E i \in DOMAIN c.participants :
                                                   c.participants[i].endpoint = end.id)
    /\ Optional(end.rule, LAMBDA r : IsRule(in, r, "endpointMaterial"))

CompatibilityAccepted(in) ==
  Collection(in.compatibility, LAMBDA c : c.allowed \in BOOLEAN /\ c.product \in Products(in))

\* The fields of a policy: a percentage of at most a hundred, a package that is not empty.
ReserveAccepted(policy) ==
  \/ policy[1] \in {"projectDefault", "disabled"}
  \/ policy[1] = "percentageOverride" /\ policy[2] \in 0..100
PackagingAccepted(policy) ==
  \/ policy[1] \in {"catalogDefault", "disabled"}
  \/ policy[1] = "incrementOverride" /\ policy[2] \in Positives

ManualItemAccepted(in, m) ==
  /\ m.unit \in {"pcs", "m", "kg"}
  /\ m.quantity \in Positives /\ m.adjusted \in Fractions
  /\ ReserveAccepted(m.reserve) /\ PackagingAccepted(m.packaging)
  /\ IsQuantity(m.quantity, m.unit) /\ (m.override # None => IsQuantity(m.adjusted, m.unit))
  /\ Optional(m.product, LAMBDA p : p \in Products(in))
  /\ m.packaging[1] = "incrementOverride" => IsQuantity(m.packaging[2], m.unit)
  /\ m.product = None => m.packaging[1] # "catalogDefault"

ManualItemsAccepted(in) ==
  Distinct(in.manualItems, LAMBDA m : m.id) /\ Collection(in.manualItems, LAMBDA m : ManualItemAccepted(in, m))

AdjustmentsAccepted(in) ==
  /\ Collection(in.adjustments, LAMBDA a :
       /\ a.product \in Products(in) /\ IsQuantity(a.adjusted, a.unit)
       /\ a.original \in Fractions /\ a.adjusted \in Positives)
  /\ Distinct(in.adjustments, LAMBDA a : a.product)

LinePoliciesAccepted(in) ==
  /\ IsFiniteSet(in.linePolicies)
  /\ \A l \in in.linePolicies :
       /\ ReserveAccepted(l.reserve) /\ PackagingAccepted(l.packaging)
       /\ l.target[2] \in (IF l.target[1] = "product" THEN Products(in) ELSE { m.id : m \in in.manualItems })
  /\ Distinct(in.linePolicies, LAMBDA l : l.target)

\* CalculationInputV2Schema.
InputAccepted(in) ==
  /\ in.project[1] = "project" /\ in.reserve \in 0..100 /\ in.options.packaging \in BOOLEAN
  /\ IsFiniteSet(in.accessories)
  /\ RoutesAccepted(in) /\ ProductsAccepted(in) /\ RulesAccepted(in) /\ TemplatesAccepted(in)
  /\ ConnectionsAccepted(in) /\ EndsAccepted(in) /\ CompatibilityAccepted(in)
  /\ ManualItemsAccepted(in) /\ AdjustmentsAccepted(in) /\ LinePoliciesAccepted(in)
=============================================================================
