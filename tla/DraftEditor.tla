----------------------------- MODULE DraftEditor -----------------------------
(***************************************************************************)
(* The project editor (apps/frontend/src/app/project-editor-sections.tsx): *)
(* what its sections do to the draft that the page holds, and how a draft  *)
(* is reconciled with the catalog that the page shows                      *)
(* (apps/frontend/src/lib/catalog-selection.ts, editor-state.ts).          *)
(*                                                                         *)
(* The page shows the catalog as editorCatalog of project-service.ts sends *)
(* it: products, templates and compatibility relations.  A section works   *)
(* on the route that is selected, which is any route.  After each change   *)
(* the page clears from the draft what the catalog does not offer, before  *)
(* anything else is done with it.  The form of a connection is filled in   *)
(* and saved in one step; the form of a manual item is filled in field by  *)
(* field, as a field may depend on what another one was before.            *)
(* Descriptions, names and the wording of notices are left out.            *)
(***************************************************************************)
EXTENDS CalculationPreparation, SequencesExt

CONSTANTS
  MaxEdits,      \* bound: changes to the draft
  RouteCodes,    \* codes that are given to routes
  Lengths,       \* lengths in metres that are entered
  Counts,        \* numbers of pieces that are entered
  Substrates,    \* substrates that are chosen
  Uuids,         \* bound: the identifiers that are drawn, in this order
  JoinKinds      \* how connections are made: [type, physicalBreak, supports, before, after]

VARIABLES
  draft,    \* the draft that the page holds
  catalog,  \* the catalog that the project is pinned to
  shown,    \* what the page shows of it
  form,     \* the form of a manual item
  edits     \* changes made, up to MaxEdits

editorVars == <<draft, catalog, shown, form, edits>>

\* No identifier is drawn twice; what is entered fits the field that it is entered in.
ASSUME EditorAssumption ==
  /\ IsSequence(Uuids) /\ \A i, j \in DOMAIN Uuids : Uuids[i] = Uuids[j] => i = j
  /\ \A length \in Lengths : length \in Positives
  /\ \A n \in Counts : n \in Nat \ {0}
  /\ Substrates \subseteq SubstrateTypes

---------------------------------------------------------------------------
(* The catalog that the page shows (editorCatalog). *)

\* projectSelection: the exact selection that a rule allows a straight section for.
SelectionOf(c, p) ==
  LET rules == { rule \in c.compatibility : rule.type = "selection" /\ rule.allowed /\ rule.source = p }
      selection == (CHOOSE rule \in rules : TRUE).selection
  IN IF rules # {} /\ None \notin Range(selection) THEN selection ELSE << >>

EditorProduct(c, p) ==
  LET product == c.products[p]
      section == product.category = "straightSection"
      selection == IF section THEN SelectionOf(c, p) ELSE << >>
      orderable == product.active /\ product.orderable /\ PackageOf(product) # Zero
  IN [ role |-> RoleOf(c, p), unit |-> product.unit, selection |-> selection,
       selectable |-> orderable /\ (section => selection # << >>),
       options |-> IF section /\ product.length # 0 /\ orderable THEN {SupplyOption(p)} ELSE {} ]

EditorTemplate(c, t) ==
  [ type |-> c.templates[t].type, system |-> c.templates[t].system,
    components |-> { [ id |-> row.id, product |-> row.product, role |-> RoleIn(c, row), unit |-> row.unit,
                       mode |-> row.mode ] : row \in RowsOf(c, t) } ]

\* editorCompatibility: of the relations it sends, the sections ask only for the anchors of
\* a substrate, as <<product, substrate>>; of several products that a selector matches, the
\* relation names the first one.
EditorAnchors(c) ==
  { <<CHOOSE p \in Selected(c, rule.source, rule.sourceSelectors) : TRUE, rule.substrate>> :
      rule \in { x \in c.compatibility : /\ x.type = "anchor" /\ x.allowed /\ x.substrate # None
                                         /\ Selected(c, x.source, x.sourceSelectors) # {} } }

EditorCatalog(c) ==
  [ products |-> [p \in Known(c) |-> EditorProduct(c, p)],
    templates |-> [t \in { u \in UsableTemplates(c) : /\ c.templates[u].type \in SupportTypes
                                                      /\ c.templates[u].system # None } |-> EditorTemplate(c, t)],
    anchors |-> EditorAnchors(c) ]

\* The schemas of what is sent: a product, a template or a relation that does not keep to
\* them, and the page gets no catalog at all (EditorCatalogResponseV2Schema).
EditorProductAccepted(c, p) ==
  LET product == c.products[p]
      sent == EditorProduct(c, p)
  IN /\ product.orderable => PackageOf(product) # Zero
     /\ IsQuantity(PackageOf(product), product.unit)
     /\ sent.selectable => product.active /\ product.orderable
     /\ sent.selection # << >> => sent.role = "straightSection"

EditorTemplateAccepted(c, t) ==
  /\ RowsOf(c, t) # {}
  /\ \A row \in RowsOf(c, t) : row.quantity # Zero /\ IsQuantity(row.quantity, row.unit)

EditorCatalogAccepted(c) ==
  LET sent == EditorCatalog(c)
  IN /\ \A p \in DOMAIN sent.products : EditorProductAccepted(c, p)
     /\ \A t \in DOMAIN sent.templates :
          /\ EditorTemplateAccepted(c, t)
          /\ { x.product : x \in sent.templates[t].components } \subseteq DOMAIN sent.products
     /\ \A a \in sent.anchors : a[1] \in DOMAIN sent.products /\ a[2] # None

Selectable == { p \in DOMAIN shown.products : shown.products[p].selectable }
StraightSections ==
  { p \in Selectable : shown.products[p].role = "straightSection" /\ shown.products[p].selection # << >> }
\* The straight sections whose selection begins with the first n parts of this one.
Matching(selection, n) ==
  { p \in StraightSections : \A k \in 1..n : shown.products[p].selection[k] = selection[k] }
OptionsShown(p) == IF p \in DOMAIN shown.products THEN shown.products[p].options ELSE {}

\* templateComponentProducts and compatibleTemplateProducts.
Components(t) == IF t \in DOMAIN shown.templates THEN shown.templates[t].components ELSE {}
ComponentProducts(t, role) == Selectable \cap { x.product : x \in { y \in Components(t) : y.role = role } }
AnchorProducts(t, substrate) ==
  { p \in ComponentProducts(t, "anchor") : substrate # None /\ <<p, substrate>> \in shown.anchors }
ManualComponents(t) == { x \in Components(t) : x.mode = "manual" }
HasLevels(t) == \E x \in Components(t) : x.mode = "perLevel"

---------------------------------------------------------------------------
(* reconcileProjectDraftCatalog: a choice is kept if the catalog offers it for the ones   *)
(* before it, and never replaced by another.                                              *)

Keep(x, offered) == IF x \in offered THEN x ELSE None

\* reconcileStraightSelection: the parts from the first one that nothing matches are cleared.
ReconciledSelection(route) ==
  LET kept == Max({0} \cup { n \in 1..4 : Matching(route.selection, n) # {} })
      straight == IF kept = 4 THEN Keep(route.straight, Matching(route.selection, 4)) ELSE None
  IN [route EXCEPT !.selection = [k \in 1..4 |-> IF k <= kept THEN @[k] ELSE None],
                   !.straight = straight, !.option = Keep(@, OptionsShown(straight))]

Applies(t, s, system) ==
  t \in DOMAIN shown.templates /\ shown.templates[t].type = s.type /\ shown.templates[t].system = system

\* Mutant of ReconciledSupports: an anchor stays although the substrate is another one.
ReconciledWithAnyAnchor(s, system) ==
  IF Applies(s.template, s, system)
  THEN [s EXCEPT !.product = Keep(@, ComponentProducts(s.template, "support")),
                 !.anchor = Keep(@, ComponentProducts(s.template, "anchor")),
                 !.wstb = Keep(@, ComponentProducts(s.template, "wstb")),
                 !.levels = IF HasLevels(s.template) THEN @ ELSE 0,
                 !.manualValues = { v \in @ : \E x \in ManualComponents(s.template) :
                                                x.id = v.component /\ x.unit = v.unit }]
  ELSE [s EXCEPT !.template = None, !.product = None, !.anchor = None, !.wstb = None, !.levels = 0,
                 !.manualValues = {}]

ReconciledSupports(s, system) ==
  IF Applies(s.template, s, system)
  THEN [s EXCEPT !.product = Keep(@, ComponentProducts(s.template, "support")),
                 !.anchor = Keep(@, AnchorProducts(s.template, s.substrate)),
                 !.wstb = Keep(@, ComponentProducts(s.template, "wstb")),
                 !.levels = IF HasLevels(s.template) THEN @ ELSE 0,
                 !.manualValues = { v \in @ : \E x \in ManualComponents(s.template) :
                                                x.id = v.component /\ x.unit = v.unit }]
  ELSE [s EXCEPT !.template = None, !.product = None, !.anchor = None, !.wstb = None, !.levels = 0,
                 !.manualValues = {}]

ReconciledRoute(route) ==
  LET selected == ReconciledSelection(route)
      ReconciledItem(item) ==
        IF Straight(item) THEN [item EXCEPT !.option = Keep(@, OptionsShown(selected.straight))] ELSE item
  IN [selected EXCEPT !.geometry = [i \in DOMAIN @ |-> ReconciledItem(@[i])],
                      !.supports = ReconciledSupports(@, selected.selection[1])]

Reconciled(d) == [d EXCEPT !.routes = [r \in DOMAIN @ |-> ReconciledRoute(@[r])]]

---------------------------------------------------------------------------
(* Changes to the draft. *)

NoForm == [ id |-> None, product |-> None, free |-> TRUE, unit |-> "pcs", packaging |-> "disabled" ]

\* The page of a draft, with the catalog that the draft is pinned to.
OpenedWith(c, d) ==
  /\ catalog = c /\ shown = EditorCatalog(c)
  /\ draft = Reconciled(d) /\ form = NoForm /\ edits = 0
NoEditor == shown = None /\ form = NoForm /\ edits = 0

\* A change gives a field another value; the manual item's form is then empty.
Change(d) ==
  /\ edits < MaxEdits /\ form = NoForm
  /\ d # draft
  /\ draft' = Reconciled(d)
  /\ edits' = edits + 1
  /\ UNCHANGED <<catalog, shown, form>>

ChangeRoute(r, route) == Change([draft EXCEPT !.routes[r] = route])
RouteAt(r) == draft.routes[r]

Identifiers ==
  { RouteAt(e[1]).ends[e[2]].id : e \in EndsOf(draft) }
  \cup { RouteAt(g[1]).geometry[g[2]].id : g \in ItemsOf(draft) }
  \cup { x.id : x \in draft.connections \cup draft.manualItems
                      \cup UNION { RouteAt(r).supports.extras : r \in DOMAIN draft.routes } }
\* createBrowserUuid: n identifiers that nothing has.
Unused(n) ==
  LET used == Identifiers IN { k \in 0..(Len(Uuids) - n) : \A i \in 1..n : Uuids[k + i] \notin used }
NewIds(n) == [i \in 1..n |-> Uuids[(CHOOSE k \in Unused(n) : TRUE) + i]]
NewId == NewIds(1)[1]
Codes == { RouteAt(r).code : r \in DOMAIN draft.routes }

SetReserve(percent) == Change([draft EXCEPT !.reserve = percent])
SetLoad(load) == Change([draft EXCEPT !.load = load])

\* createRouteDraft.
EmptyRoute(code, ids) ==
  [ code |-> code, selection |-> <<None, None, None, None>>, straight |-> None, option |-> None,
    geometry |-> << >>,
    ends |-> [j \in 1..2 |-> [id |-> ids[j], type |-> "freeEnd", product |-> None, texts |-> {}]],
    supports |-> [ spacing |-> Zero, type |-> None, product |-> None, template |-> None, levels |-> 0,
                   substrate |-> None, anchor |-> None, anchorOverride |-> 0, wstb |-> None,
                   wstbMode |-> None, wstbQuantity |-> 0, extras |-> {}, manualValues |-> {} ] ]

AddRoute(code) ==
  /\ code \notin Codes /\ Unused(2) # {}
  /\ Change([draft EXCEPT !.routes = Append(@, EmptyRoute(code, NewIds(2)))])

\* A code may be blank or another route's: the draft is not saved until it is neither.
SetCode(r, code) == ChangeRoute(r, [RouteAt(r) EXCEPT !.code = code])

\* Mutant of RemoveRoute: its connections stay.
RemoveOnlyRoute(r) ==
  Change([draft EXCEPT !.routes = [i \in 1..(Len(@) - 1) |-> @[IF i < r THEN i ELSE i + 1]]])

\* removeRouteAndReferences; the ends that it was joined to keep their type.
RemoveRoute(r) ==
  LET Shifted(p) == [p EXCEPT !.route = IF @ > r THEN @ - 1 ELSE @]
      others == { x \in draft.connections : \A i \in DOMAIN x.participants : x.participants[i].route # r }
  IN Change([draft EXCEPT
       !.routes = [i \in 1..(Len(@) - 1) |-> @[IF i < r THEN i ELSE i + 1]],
       !.connections = { [x EXCEPT !.participants = [i \in DOMAIN @ |-> Shifted(@[i])]] : x \in others }])

CopyCode(code) ==
  LET Name(n) == code \o "-COPY" \o (IF n = 1 THEN "" ELSE "-" \o ToString(n))
  IN Name(CHOOSE n \in 1..(Len(draft.routes) + 1) :
            Name(n) \notin Codes /\ \A m \in 1..(n - 1) : Name(m) \in Codes)

\* Mutant of CopyRoute: the additional supports of the copy stay those of its model's items.
CopyWithItsReferences(r) ==
  LET items == Len(RouteAt(r).geometry)
      extras == SetToSeq(RouteAt(r).supports.extras)
      ids == NewIds(2 + items + Len(extras))
  IN /\ Unused(2 + items + Len(extras)) # {}
     /\ Change([draft EXCEPT !.routes = Append(@, [RouteAt(r) EXCEPT
          !.code = CopyCode(@),
          !.ends = [j \in 1..2 |-> [@[j] EXCEPT !.id = ids[j]]],
          !.geometry = [i \in 1..items |-> [@[i] EXCEPT !.id = ids[2 + i]]],
          !.supports.extras = { [extras[k] EXCEPT !.id = ids[2 + items + k]] : k \in DOMAIN extras }])])

\* duplicateRoute: everything of the copy has an identifier of its own, and its additional
\* supports are of the items of the copy; it takes part in no connection.
CopyRoute(r) ==
  LET items == Len(RouteAt(r).geometry)
      extras == SetToSeq(RouteAt(r).supports.extras)
      ids == NewIds(2 + items + Len(extras))
      ItemOf(id) == ids[2 + (CHOOSE i \in 1..items : RouteAt(r).geometry[i].id = id)]
      Source(x) == IF \E i \in 1..items : RouteAt(r).geometry[i].id = x.of THEN ItemOf(x.of) ELSE "route"
  IN /\ Unused(2 + items + Len(extras)) # {}
     /\ Change([draft EXCEPT !.routes = Append(@, [RouteAt(r) EXCEPT
          !.code = CopyCode(@),
          !.ends = [j \in 1..2 |-> [@[j] EXCEPT !.id = ids[j]]],
          !.geometry = [i \in 1..items |-> [@[i] EXCEPT !.id = ids[2 + i]]],
          !.supports.extras = { [extras[k] EXCEPT !.id = ids[2 + items + k], !.of = Source(extras[k])] :
                                  k \in DOMAIN extras }])])

---------------------------------------------------------------------------
(* CatalogSelectionEditor: a part of the selection is open once the part before it is      *)
(* chosen, and offers what the products that match the parts before it have.               *)

ChoosePart(r, k) ==
  /\ k > 1 => RouteAt(r).selection[k - 1] # None
  /\ \E x \in { shown.products[p].selection[k] : p \in Matching(RouteAt(r).selection, k - 1) } \cup {None} :
       ChangeRoute(r, [RouteAt(r) EXCEPT !.selection[k] = x])

\* selectStraightProduct keeps a supply option that the product has too.
ChooseStraight(r) ==
  /\ RouteAt(r).selection[4] # None
  /\ \E p \in Matching(RouteAt(r).selection, 4) \cup {None} :
       ChangeRoute(r, [RouteAt(r) EXCEPT !.straight = p, !.option = Keep(@, OptionsShown(p))])

ChooseSupply(r) ==
  /\ RouteAt(r).straight \in StraightSections
  /\ \E o \in OptionsShown(RouteAt(r).straight) \cup {None} : ChangeRoute(r, [RouteAt(r) EXCEPT !.option = o])

---------------------------------------------------------------------------
(* GeometrySection.  No relation offers a fitting or a material of an end; one that the   *)
(* draft has from before can only be removed.                                             *)

FittingTypes == {"horizontalBend", "verticalBend", "tee", "transition", "custom"}
EndTypes == {"freeEnd", "routeContinuation", "endCap", "equipment", "physicalSplice", "custom"}

ChangeItem(r, i, item) == ChangeRoute(r, [RouteAt(r) EXCEPT !.geometry[i] = item])
GeometryItem(r, i) == RouteAt(r).geometry[i]

AddItem(r, kind) ==
  LET item == IF kind = "straight"
              THEN [kind |-> kind, id |-> NewId, length |-> Zero, option |-> None]
              ELSE [ kind |-> kind, id |-> NewId, type |-> "horizontalBend", described |-> FALSE,
                     product |-> None, length |-> Zero ]
  IN Unused(1) # {} /\ ChangeRoute(r, [RouteAt(r) EXCEPT !.geometry = Append(@, item)])

SetLength(r, i, length) ==
  Straight(GeometryItem(r, i)) /\ ChangeItem(r, i, [GeometryItem(r, i) EXCEPT !.length = length])
ChooseItemSupply(r, i) ==
  /\ Straight(GeometryItem(r, i))
  /\ \E o \in OptionsShown(RouteAt(r).straight) \cup {None} :
       ChangeItem(r, i, [GeometryItem(r, i) EXCEPT !.option = o])
SetFittingType(r, i, type) ==
  /\ ~Straight(GeometryItem(r, i))
  /\ ChangeItem(r, i, [GeometryItem(r, i) EXCEPT !.type = type, !.described = @ /\ type = "custom"])
ClearFitting(r, i) ==
  ~Straight(GeometryItem(r, i)) /\ ChangeItem(r, i, [GeometryItem(r, i) EXCEPT !.product = None])
DescribeFitting(r, i) ==
  /\ ~Straight(GeometryItem(r, i)) /\ GeometryItem(r, i).type = "custom"
  /\ ChangeItem(r, i, [GeometryItem(r, i) EXCEPT !.described = ~@])

\* moveGeometry.
MoveDown(r, i) ==
  /\ i < Len(RouteAt(r).geometry)
  /\ ChangeRoute(r, [RouteAt(r) EXCEPT !.geometry[i] = GeometryItem(r, i + 1), !.geometry[i + 1] = GeometryItem(r, i)])

\* The additional supports of an item go with it.
RemoveItem(r, i) ==
  ChangeRoute(r, [RouteAt(r) EXCEPT
    !.geometry = [j \in 1..(Len(@) - 1) |-> @[IF j < i THEN j ELSE j + 1]],
    !.supports.extras = { x \in @ : x.of # GeometryItem(r, i).id }])

ChangeEnd(r, j, end) == ChangeRoute(r, [RouteAt(r) EXCEPT !.ends[j] = end])
SetEndType(r, j, type) ==
  ChangeEnd(r, j, [RouteAt(r).ends[j] EXCEPT
    !.type = type, !.product = IF type \in {"freeEnd", "routeContinuation"} THEN None ELSE @,
    !.texts = @ \cap NeededTexts(type)])
ClearEndMaterial(r, j) ==
  /\ RouteAt(r).ends[j].type \notin {"freeEnd", "routeContinuation"}
  /\ ChangeEnd(r, j, [RouteAt(r).ends[j] EXCEPT !.product = None])
EnterEndText(r, j) ==
  \E text \in NeededTexts(RouteAt(r).ends[j].type) :
    ChangeEnd(r, j, [RouteAt(r).ends[j] EXCEPT !.texts = IF text \in @ THEN @ \ {text} ELSE @ \cup {text}])

---------------------------------------------------------------------------
(* ConnectionsSection. *)

NewConnection == [id |-> None, participants |-> << >>, corrections |-> {}]

\* The ends of d with these identifiers get the type, and lose their material.
WithEnds(d, ids, type) ==
  LET Retyped(end) == IF end.id \in ids THEN [end EXCEPT !.type = type, !.product = None] ELSE end
      EndsWith(route) == [route EXCEPT !.ends = [j \in 1..2 |-> Retyped(@[j])]]
  IN [d EXCEPT !.routes = [r \in DOMAIN @ |-> EndsWith(@[r])]]

\* participantError: a tee has three ends, a custom connection two or three, others two; of
\* different routes; two ends in different positions; none used by another connection.
Participates(edited, type, ends) ==
  /\ Len(ends) \in (IF type = "tee" THEN {3} ELSE IF type = "custom" THEN {2, 3} ELSE {2})
  /\ \A i, k \in DOMAIN ends : i # k => ends[i][1] # ends[k][1]
  /\ Len(ends) = 2 => ends[1][2] # ends[2][2]
  /\ \A x \in draft.connections, i \in DOMAIN ends :
       x.id # edited.id => RouteAt(ends[i][1]).ends[ends[i][2]].id \notin ParticipantEnds(x)

EndTypeFor(type) == IF type = "logicalContinuation" THEN "routeContinuation" ELSE "physicalSplice"

\* save: a new connection or one that was edited.  A material that an edited one has must
\* be removed first; the ends that an edited connection had become free.
SaveConnection(edited, kind, ends) ==
  LET participants == [i \in DOMAIN ends |-> [route |-> ends[i][1], endpoint |-> RouteAt(ends[i][1]).ends[ends[i][2]].id]]
      connection == [ id |-> IF edited.id = None THEN NewId ELSE edited.id, type |-> kind.type,
                      physicalBreak |-> kind.physicalBreak /\ kind.type # "logicalContinuation",
                      supports |-> kind.supports, participants |-> participants,
                      before |-> kind.before, after |-> kind.after, material |-> None,
                      corrections |-> edited.corrections ]
      freed == WithEnds(draft, ParticipantEnds(edited), "freeEnd")
      joined == WithEnds(freed, ParticipantEnds(connection), EndTypeFor(kind.type))
  IN /\ Participates(edited, kind.type, ends) /\ Unused(1) # {}
     /\ Change([joined EXCEPT !.connections = { x \in @ : x.id # edited.id } \cup {connection}])

RemoveConnection(x) ==
  Change([WithEnds(draft, ParticipantEnds(x), "freeEnd") EXCEPT !.connections = @ \ {x}])
RemoveCorrection(x, k) ==
  Change([draft EXCEPT !.connections = (@ \ {x}) \cup {[x EXCEPT !.corrections = @ \ {k}]}])

---------------------------------------------------------------------------
(* SupportsSection. *)

SupportsAt(r) == RouteAt(r).supports
ChangeSupports(r, s) == ChangeRoute(r, [RouteAt(r) EXCEPT !.supports = s])

SetSpacing(r, spacing) == ChangeSupports(r, [SupportsAt(r) EXCEPT !.spacing = spacing])
SetLevels(r, levels) == HasLevels(SupportsAt(r).template) /\ ChangeSupports(r, [SupportsAt(r) EXCEPT !.levels = levels])
ChooseType(r, type) == ChangeSupports(r, [SupportsAt(r) EXCEPT !.type = type])
ChooseSubstrate(r, substrate) == ChangeSupports(r, [SupportsAt(r) EXCEPT !.substrate = substrate])

\* The templates offered are those for the type and the system, as far as these are chosen.
ChooseTemplate(r) ==
  LET offered == { t \in DOMAIN shown.templates :
                     /\ SupportsAt(r).type \in {None, shown.templates[t].type}
                     /\ RouteAt(r).selection[1] \in {None, shown.templates[t].system} }
  IN \E t \in offered \cup {None} : ChangeSupports(r, [SupportsAt(r) EXCEPT !.template = t])

ChooseSupport(r) ==
  \E p \in ComponentProducts(SupportsAt(r).template, "support") \cup {None} :
    ChangeSupports(r, [SupportsAt(r) EXCEPT !.product = p])
ChooseAnchor(r) ==
  \E p \in AnchorProducts(SupportsAt(r).template, SupportsAt(r).substrate) \cup {None} :
    ChangeSupports(r, [SupportsAt(r) EXCEPT !.anchor = p])
ChooseWstb(r) ==
  /\ \E x \in Components(SupportsAt(r).template) : x.role = "wstb"
  /\ \E p \in ComponentProducts(SupportsAt(r).template, "wstb") \cup {None} :
       ChangeSupports(r, [SupportsAt(r) EXCEPT !.wstb = p])

ChooseWstbMode(r, mode) == ChangeSupports(r, [SupportsAt(r) EXCEPT !.wstbMode = mode, !.wstbQuantity = 0])
SetWstbQuantity(r, n) ==
  SupportsAt(r).wstbMode = "custom" /\ ChangeSupports(r, [SupportsAt(r) EXCEPT !.wstbQuantity = n])

\* updateTemplateManualValue: in the unit of the component, whatever it was before.
SetManualValue(r, n) ==
  \E x \in ManualComponents(SupportsAt(r).template) :
    ChangeSupports(r, [SupportsAt(r) EXCEPT !.manualValues =
      { v \in @ : v.component # x.id } \cup {[component |-> x.id, quantity |-> Whole(n), unit |-> x.unit]}])

OverrideAnchors(r) ==
  ChangeSupports(r, [SupportsAt(r) EXCEPT !.anchorOverride = IF @ = 0 THEN Blank ELSE 0])
SetAnchorOverride(r, n) ==
  SupportsAt(r).anchorOverride # 0 /\ ChangeSupports(r, [SupportsAt(r) EXCEPT !.anchorOverride = n])

\* addExtra: a quantity that is left blank is taken too, and keeps the draft from being saved.
AddExtra(r, n) ==
  Unused(1) # {} /\ ChangeSupports(r, [SupportsAt(r) EXCEPT !.extras = @ \cup {[id |-> NewId, of |-> "route", quantity |-> n]}])
RemoveExtra(r, x) == ChangeSupports(r, [SupportsAt(r) EXCEPT !.extras = @ \ {x}])

---------------------------------------------------------------------------
(* LoadAndManualSection. *)

RemoveAccessory(p) == Change([draft EXCEPT !.accessories = @ \ {p}])
RemoveManualItem(m) == Change([draft EXCEPT !.manualItems = @ \ {m}])

\* The form is filled in before any other change, and its item is the last one (bound).
Fill(f) ==
  /\ edits = 0 /\ MaxEdits > 0
  /\ f # form
  /\ form' = f
  /\ UNCHANGED <<draft, catalog, shown, edits>>

EditManualItem(m) ==
  Fill([id |-> m.id, product |-> m.product, free |-> m.product = None, unit |-> m.unit, packaging |-> m.packaging[1]])
CancelManualItem == form.id # None /\ Fill(NoForm)
SwitchKind ==
  Fill([form EXCEPT !.free = ~@,
                    !.packaging = IF ~form.free /\ @ = "catalogDefault" THEN "disabled" ELSE @])
\* The unit of a catalog item is its product's, at the time when it is chosen.
ChooseProduct(p) ==
  ~form.free /\ Fill([form EXCEPT !.product = p, !.unit = IF p = None THEN @ ELSE shown.products[p].unit])
ChooseUnit(unit) == form.free /\ Fill([form EXCEPT !.unit = unit])
ChoosePackaging(mode) ==
  (form.free => mode # "catalogDefault") /\ Fill([form EXCEPT !.packaging = mode])

\* buildItem, saveItem and upsertManualItem.  What a free-text item is called is left out,
\* the product that was chosen before it became one is not saved.
SaveManualItem(n, reserve, override) ==
  LET item == [ id |-> IF form.id = None THEN NewId ELSE form.id,
                product |-> IF form.free THEN None ELSE form.product, quantity |-> Whole(n), unit |-> form.unit,
                override |-> IF override THEN "override" ELSE None, adjusted |-> IF override THEN Whole(n + 1) ELSE Zero,
                reserve |-> IF reserve = "projectDefault" THEN ProjectReserve
                            ELSE <<reserve, IF reserve = "disabled" THEN 0 ELSE 50, "reserve">>,
                packaging |-> IF form.packaging = "catalogDefault" THEN CatalogPackaging
                              ELSE IF form.packaging = "disabled" THEN <<"disabled", Zero, None>>
                              ELSE <<"incrementOverride", Whole(2), "packaging">> ]
  IN /\ form # NoForm /\ Unused(1) # {} /\ (~form.free => form.product # None)
     /\ DraftManualItemAccepted(item)
     /\ draft' = Reconciled([draft EXCEPT !.manualItems = { m \in @ : m.id # item.id } \cup {item}])
     /\ form' = NoForm
     /\ edits' = MaxEdits
     /\ UNCHANGED <<catalog, shown>>

---------------------------------------------------------------------------

EditProject ==
  \/ \E percent \in {0, 10, Blank} : SetReserve(percent)
  \/ \E load \in BOOLEAN : SetLoad(load)
  \/ \E p \in draft.accessories : RemoveAccessory(p)
  \/ \E m \in draft.manualItems : RemoveManualItem(m)

EditRoutes ==
  \/ \E code \in RouteCodes : AddRoute(code)
  \/ \E r \in DOMAIN draft.routes : RemoveRoute(r) \/ CopyRoute(r) \/ ChooseStraight(r) \/ ChooseSupply(r)
  \/ \E r \in DOMAIN draft.routes, code \in RouteCodes \cup {None} : SetCode(r, code)
  \/ \E r \in DOMAIN draft.routes, k \in 1..4 : ChoosePart(r, k)

EditGeometry ==
  \E r \in DOMAIN draft.routes :
    \/ \E kind \in {"straight", "fitting"} : AddItem(r, kind)
    \/ \E i \in DOMAIN RouteAt(r).geometry :
         \/ \E length \in Lengths : SetLength(r, i, length)
         \/ \E type \in FittingTypes : SetFittingType(r, i, type)
         \/ ChooseItemSupply(r, i) \/ ClearFitting(r, i) \/ DescribeFitting(r, i)
         \/ MoveDown(r, i) \/ RemoveItem(r, i)
    \/ \E j \in 1..2 : \/ \E type \in EndTypes : SetEndType(r, j, type)
                       \/ ClearEndMaterial(r, j) \/ EnterEndText(r, j)

EditConnections ==
  \/ \E kind \in JoinKinds : \E edited \in draft.connections \cup {NewConnection} :
       \E n \in 2..3 : \E ends \in [1..n -> EndsOf(draft)] : SaveConnection(edited, kind, ends)
  \/ \E x \in draft.connections : RemoveConnection(x) \/ \E k \in x.corrections : RemoveCorrection(x, k)

EditSupports ==
  \E r \in DOMAIN draft.routes :
    \/ \E spacing \in Lengths \cup {Zero} : SetSpacing(r, spacing)
    \/ \E type \in SupportTypes \cup {None} : ChooseType(r, type)
    \/ \E substrate \in Substrates \cup {None} : ChooseSubstrate(r, substrate)
    \/ \E mode \in {"one", "two", "custom", None} : ChooseWstbMode(r, mode)
    \/ \E n \in Counts : \/ SetLevels(r, n) \/ SetWstbQuantity(r, n) \/ SetManualValue(r, n)
                         \/ SetAnchorOverride(r, n)
    \/ \E n \in Counts \cup {Blank} : AddExtra(r, n)
    \/ \E x \in SupportsAt(r).extras : RemoveExtra(r, x)
    \/ ChooseTemplate(r) \/ ChooseSupport(r) \/ ChooseAnchor(r) \/ ChooseWstb(r) \/ OverrideAnchors(r)

EditManualItems ==
  \/ \E m \in draft.manualItems : EditManualItem(m)
  \/ CancelManualItem \/ SwitchKind
  \/ \E p \in Selectable \cup {None} : ChooseProduct(p)
  \/ \E unit \in {"pcs", "m", "kg"} : ChooseUnit(unit)
  \/ \E mode \in {"catalogDefault", "disabled", "incrementOverride"} : ChoosePackaging(mode)
  \/ \E n \in Counts, reserve \in {"projectDefault", "disabled", "percentageOverride"}, override \in BOOLEAN :
       SaveManualItem(n, reserve, override)

Edit ==
  EditProject \/ EditRoutes \/ EditGeometry \/ EditConnections \/ EditSupports \/ EditManualItems

\* canCalculateLocally: whether the page offers the calculation of the draft.
RouteReady(route) ==
  LET s == route.supports
      wstb == { x.product : x \in { y \in Components(s.template) : y.role = "wstb" } }
  IN /\ Applies(s.template, s, route.selection[1])
     /\ wstb # {} => s.wstb \in wstb \cap Selectable
     /\ HasLevels(s.template) => s.levels # 0
     /\ \A x \in ManualComponents(s.template) :
          \E v \in s.manualValues : v.component = x.id /\ v.unit = x.unit
     /\ route.geometry # << >> /\ None \notin Range(route.selection)
     /\ route.straight # None /\ route.option # None
     /\ s.spacing # Zero /\ s.substrate \notin {None, "unknown"} /\ s.anchor # None /\ s.wstbMode # None

CanCalculateLocally ==
  DraftAccepted(draft) /\ draft.routes # << >> /\ \A r \in DOMAIN draft.routes : RouteReady(RouteAt(r))
=============================================================================
