-------------------------- MODULE ProjectCalculation --------------------------
(***************************************************************************)
(* One request to validate or to calculate a project draft, from the       *)
(* preflight to the reply (ProjectApplicationService.validateProject and   *)
(* calculateProject, apps/backend/src/project-service.ts).  It composes    *)
(* the preparation of the input with the calculation engine, which may     *)
(* also be called by itself, with an input that no draft leads to; and     *)
(* with the project editor, which asks for the calculation of a draft once *)
(* it finds the draft complete.                                            *)
(*                                                                         *)
(* The draft and the catalog are those of the one read transaction that    *)
(* loads both; what becomes of the result, and how a draft that is edited  *)
(* is saved, is in ProjectDraft and DraftEditing.                          *)
(***************************************************************************)
EXTENDS DraftEditor, DraftPersistence, CalculationEngine

CONSTANTS
  Drafts,       \* the stored drafts that are considered
  Catalogs,     \* the catalog versions that they are pinned to
  DirectInputs, \* the inputs that other callers give the engine
  Earlier,      \* products and templates of earlier catalogs
  EditorPages,  \* what the editor starts with: <<catalog, stored draft>>
  MaxCalculated \* bound: edits after which the page's calculation is still followed

VARIABLES
  operation,    \* "edit", "validate", "calculate", or "calculateV2" for the engine alone
  reply         \* the status of the reply, the blocking errors and what needs review

vars == <<operation, editorVars, reply, engineVars>>

\* The products and templates on record when c is the latest catalog.
ProductsOnRecord(c) == (DOMAIN c.products) \cup Earlier
TemplatesOnRecord(c) == (DOMAIN c.templates) \cup Earlier

\* What is stored, or sent to the page, has the fields that its schema demands, and what a
\* stored draft refers to is on record.
ASSUME StoredAssumption ==
  /\ \A d \in Drafts : IsDraft(d)
  /\ \A d \in Drafts, c \in Catalogs : DraftAccepted(d) => OnRecord(d, ProductsOnRecord(c), TemplatesOnRecord(c))
  /\ \A page \in EditorPages : /\ IsCatalog(page[1]) /\ IsDraft(page[2])
                               /\ OnRecord(page[2], ProductsOnRecord(page[1]), TemplatesOnRecord(page[1]))

NoReply == [status |-> "none", errors |-> {}, review |-> {}]

RequestStarts ==
  /\ operation \in {"validate", "calculate"}
  /\ draft \in { d \in Drafts : DraftAccepted(d) }
  /\ catalog \in Catalogs
  /\ input = None /\ stage = "prepare"
  /\ NoEditor

\* The page has loaded a draft and its catalog.
EditorStarts ==
  /\ operation = "edit"
  /\ \E page \in EditorPages :
       EditorCatalogAccepted(page[1]) /\ DraftAccepted(page[2]) /\ OpenedWith(page[1], page[2])
  /\ input = None /\ stage = "edit"

EngineStarts ==
  /\ operation = "calculateV2"
  /\ draft = None /\ catalog = None
  /\ input \in DirectInputs /\ stage = "parse"
  /\ NoEditor

Init ==
  /\ RequestStarts \/ EditorStarts \/ EngineStarts
  /\ NothingComputed
  /\ reply = NoReply

\* What blocks a calculation is an answer to a validation and refuses a calculation.
Blocked(errors) ==
  reply' = [ status |-> IF operation = "validate" THEN "validated" ELSE "VALIDATION_FAILED",
             errors |-> errors, review |-> {} ]

\* runCalculation of the page, which first saves the draft.
Submit ==
  /\ stage = "edit" /\ edits <= MaxCalculated /\ form = NoForm /\ CanCalculateLocally
  /\ operation' = "calculate" /\ stage' = "prepare"
  /\ UNCHANGED <<editorVars, reply, input, failure, warnings, sections, groups, events, unsuppressed, result>>

\* prepareCalculation.
Prepare ==
  /\ stage = "prepare"
  /\ LET issues == PreflightIssues(catalog, draft)
     IN IF issues # {}
        THEN /\ Blocked(issues)
             /\ stage' = "answered"
             /\ UNCHANGED input
        ELSE /\ input' = CalculationParts(catalog, draft)
             /\ stage' = "parse"
             /\ UNCHANGED reply
  /\ UNCHANGED <<operation, editorVars, failure, warnings, sections, groups, events, unsuppressed, result>>

\* execute and validationFromResult: an input that the schema refuses is blocked like one
\* that the preflight refuses; the engine's own errors are reported, others are not its.
Respond ==
  /\ stage = "done" /\ operation # "calculateV2"
  /\ stage' = "answered"
  /\ IF failure = "INPUT_SCHEMA_INVALID" THEN Blocked({failure})
     ELSE reply' =
       CASE failure = None ->
              [ status |-> IF operation = "validate" THEN "validated" ELSE "calculated", errors |-> {},
                review |-> { w[1] : w \in warnings } \cap (Blocking \cup EngineeringReview) ]
         [] failure = "NEGATIVE_DOMAIN_VALUE" -> [NoReply EXCEPT !.status = "INTERNAL_ERROR"]
         [] failure \notin {None, "NEGATIVE_DOMAIN_VALUE"} ->
              [NoReply EXCEPT !.status = "CALCULATION_FAILED", !.errors = {failure}]
  /\ UNCHANGED <<operation, editorVars, input, failure, warnings, sections, groups, events, unsuppressed, result>>

Next ==
  \/ stage = "edit" /\ Edit /\ UNCHANGED <<operation, reply, engineVars>>
  \/ Submit
  \/ Prepare
  \/ Calculate /\ UNCHANGED <<operation, editorVars, reply>>
  \/ Respond

Spec == Init /\ [][Next]_vars

---------------------------------------------------------------------------
(* What the preflight and the translation promise. *)

\* What a catalog must keep to for the preflight to be enough: a product is used in one role
\* only, no product includes itself, template rows in pieces count whole pieces, every
\* straight section has a supply length, is sold in pieces or metres, and by the metre in
\* packages of whole sections.
Coherent(c) ==
  /\ Acyclic([products |-> [p \in Known(c) |-> ProductSnapshot(c, p)]])
  /\ \A p \in Known(c) :
    LET product == c.products[p]
    IN /\ \A row \in Range(c.rows) : row.product = p => /\ RoleIn(c, row) = RoleOf(c, p)
                                                /\ IsQuantity(row.quantity, row.unit)
       /\ product.category \in {"straightSection", "wstb"} => RoleOf(c, p) = product.category
       /\ product.category = "straightSection" =>
            /\ product.unit # "kg" /\ product.length # 0
            /\ product.unit = "m" =>
                 IsInteger(Divide(PackageOf(product), Fraction(product.length, 1000)))

\* What a draft must keep to that neither its schema nor the preflight asks for: a segment
\* has the supply option of its route or none, and a manual value is in the unit of its
\* template row.
Consistent(c, d) ==
  \A r \in DOMAIN d.routes :
    LET route == d.routes[r]
    IN /\ \A i \in DOMAIN route.geometry :
            Straight(route.geometry[i]) => route.geometry[i].option \in {None, route.option}
       /\ \A row \in RowsOf(c, route.supports.template), v \in route.supports.manualValues :
            v.component = row.id => v.unit = row.unit

\* The preflight is enough: a draft that it has nothing against is not refused later, by the
\* input schema or by the engine, unless the catalog or the draft is incoherent in one of
\* the ways that no check covers (preflightIssues against calculationParts, the schema of
\* the calculation input and the errors of the rules).
PreflightIsEnough ==
  /\ stage = "answered" /\ PreflightIssues(catalog, draft) = {}
  /\ Coherent(catalog) /\ Consistent(catalog, draft)
  => reply.status \in {"validated", "calculated"} /\ reply.errors = {}

\* Selections are honoured: when the result is ready for approval, every route has sections
\* of its selected product for its whole length, and its support group has supports, anchors
\* and WSTB of the products and in the numbers per support that this route asks for,
\* whichever route the engine takes the group's configuration from.
SelectionsAreHonoured ==
  Calculated /\ result.ready /\ operation # "calculateV2" =>
    \A r \in DOMAIN draft.routes :
      LET route == draft.routes[r]
          s == route.supports
          group == CHOOSE g \in groups : r \in g
          OfGroup(category, p) == Total({ e \in events : /\ e.from[2] = <<"supportGroup", group>>
                                                                /\ e.category = category /\ e.product = p })
          supports == SupportCount(input, group)
          perAxis == { row.quantity : row \in { w \in RowsOf(catalog, s.template) : w.product = s.anchor } }
      IN /\ \A i \in DOMAIN route.geometry : Straight(route.geometry[i]) =>
              \E e \in sections :
                /\ e.from[2] = <<"segment", route.geometry[i].id>>
                /\ e.product = route.straight
                /\ Leq(route.geometry[i].length, Multiply(e.count, e.length))
         /\ s.product # None => OfGroup("support", s.product) = supports
         /\ s.wstb # None => OfGroup("wstb", s.wstb) = Multiply(supports, Whole(PerSupport(s)))
         /\ s.anchor # None =>
              OfGroup("anchor", s.anchor) \in
                { Multiply(supports, n) : n \in IF s.anchorOverride = 0 THEN perAxis
                                                ELSE {Whole(s.anchorOverride)} }

\* A result follows the draft that it is of: what it counts, the topology of the routes
\* (calculateSupportCount and calculateInternalJoinCount), and what it demands for them, their
\* selections.
ResultFollowsDraft == CountsFollowTopology /\ SelectionsAreHonoured

\* A draft that its schema accepts is one that the tables accept: saving it is never refused
\* with an error that names no field (persistenceConflict).
AcceptedIsStorable ==
  stage \in {"edit", "prepare"} /\ DraftAccepted(draft) =>
    Storable(draft, ProductsOnRecord(catalog), TemplatesOnRecord(catalog))

\* What the sections cannot put right: a material of a fitting, an end, a connection or an
\* accessory that an earlier catalog had, a correction of a connection's connectors, and a
\* manual item of a product that is no longer offered.
Leftovers(d) ==
  \/ d.accessories # {} \/ \E x \in d.connections : x.material # None \/ x.corrections # {}
  \/ \E g \in ItemsOf(d) : ~Straight(RouteAt(g[1]).geometry[g[2]]) /\ RouteAt(g[1]).geometry[g[2]].product # None
  \/ \E e \in EndsOf(d) : RouteAt(e[1]).ends[e[2]].product # None
  \/ \E m \in d.manualItems : m.product \notin Selectable \cup {None}

\* What a catalog must keep to for the page to tell a draft that can be calculated: rules
\* for anchors name a product of it, and WSTB rows name products of that category.
OfferedAsUsed(c) ==
  /\ \A rule \in c.compatibility : rule.type = "anchor" => rule.source \in DOMAIN c.products
  /\ \A row \in Range(c.rows) : RoleIn(c, row) = "wstb" => c.products[row.product].category = "wstb"

\* The editor is sound: whatever is edited, in whatever order, the draft's parts refer to
\* each other as its schema demands, so that only a field that is shown may keep it from
\* being saved; nothing is left in it that the catalog does not offer, so that clearing it
\* once is enough (the page would clear it for ever: project-editor.tsx, 286-292); and a
\* draft that the page offers to calculate passes the preflight, except for a manual item
\* in another unit than its product's.
EditorIsSound ==
  stage = "edit" =>
    /\ DraftReferencesAccepted(draft)
    /\ Reconciled(draft) = draft
    /\ CanCalculateLocally /\ ~Leftovers(draft) /\ OfferedAsUsed(catalog)
         => PreflightIssues(catalog, draft) \subseteq {"MANUAL_CATALOG_UNIT_MISMATCH"}

\* Both, as one invariant.
DraftsAreSound == AcceptedIsStorable /\ EditorIsSound

\* A support group never follows its first route against the others: all its routes ask
\* for the same supports, template values included (docs/calculation-engine/
\* stage6-decisions.md, S6-007: "first-route-wins and silent split were rejected because
\* both hide engineering facts").
FirstRouteNeverWins ==
  Calculated /\ operation # "calculateV2" => \A group \in groups : \A r, q \in group :
    LET Values(route) == { <<v.component, v.quantity>> : v \in draft.routes[route].supports.manualValues }
    IN Values(r) = Values(q)
=============================================================================
