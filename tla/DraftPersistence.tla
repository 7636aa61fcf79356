--------------------------- MODULE DraftPersistence ---------------------------
(***************************************************************************)
(* How a project draft is stored besides its document: replaceGraph        *)
(* (apps/backend/src/project-repository.ts) deletes the rows of the        *)
(* project's routes, connections and manual items and inserts those of the *)
(* draft, and the tables' constraints refuse what they do not allow        *)
(* (database/migrations, stages 4 and 7).                                  *)
(*                                                                         *)
(* Whatever is refused is answered VALIDATION_FAILED at the whole draft    *)
(* (persistenceConflict) and nothing is stored.  A check on a value that   *)
(* is absent (Zero, 0 or None, as in the draft) passes.                    *)
(***************************************************************************)
EXTENDS CalculationPreparation

---------------------------------------------------------------------------
(* The rows of a draft. *)

EndpointRow(d, e) ==
  LET end == d.routes[e[1]].ends[e[2]]
  IN [ id |-> end.id, route |-> e[1], position |-> IF e[2] = 1 THEN "start" ELSE "end", kind |-> end.type,
       product |-> end.product, texts |-> end.texts ]
EndpointRows(d) == { EndpointRow(d, e) : e \in EndsOf(d) }

SupportRow(s) ==
  [ spacing |-> s.spacing, type |-> s.type, template |-> s.template, base |-> s.substrate, anchor |-> s.anchor,
    anchors |-> s.anchorOverride, mode |-> IF s.wstbMode = "custom" THEN "manual" ELSE s.wstbMode,
    perSupport |-> IF s.wstbMode = "one" THEN 1 ELSE IF s.wstbMode = "two" THEN 2 ELSE s.wstbQuantity ]

MaterialOf(type) ==
  CASE type = "logicalContinuation" -> "none" [] type = "physicalSplice" -> "connector" [] type = "custom" -> "custom"
    [] type \notin {"logicalContinuation", "physicalSplice", "custom"} -> "fitting"
\* The material of a custom connection is only noted.
ConnectionRow(x) ==
  [ id |-> x.id, type |-> x.type, material |-> MaterialOf(x.type),
    product |-> IF MaterialOf(x.type) \in {"connector", "fitting"} THEN x.material ELSE None ]

ParticipantRows(d) ==
  UNION { { [connection |-> x.id, endpoint |-> x.participants[i].endpoint, order |-> i - 1] : i \in DOMAIN x.participants } :
            x \in d.connections }

---------------------------------------------------------------------------
(* What the tables accept; the products and templates that any catalog ever had are on      *)
(* record.                                                                                  *)

RoutesStorable(d) == Distinct(DOMAIN d.routes, LAMBDA r : d.routes[r].code)

EndpointsStorable(d, onRecord) ==
  /\ Distinct(EndsOf(d), LAMBDA e : EndpointRow(d, e).id)
  /\ \A row \in EndpointRows(d) :
       /\ NeededTexts(row.kind) \subseteq row.texts
       /\ row.product \in onRecord \cup {None}

GeometryStorable(d, onRecord) ==
  \A kind \in {"straight", "fitting"} :
    LET rows == { g \in ItemsOf(d) : d.routes[g[1]].geometry[g[2]].kind = kind }
        ItemAt(g) == d.routes[g[1]].geometry[g[2]]
    IN /\ Distinct(rows, LAMBDA g : ItemAt(g).id)
       /\ \A g \in rows :
            IF kind = "straight" THEN ItemAt(g).length # Zero
            ELSE /\ ItemAt(g).type = "custom" => ItemAt(g).described
                 /\ ItemAt(g).product \in onRecord \cup {None}

SupportsStorable(d, onRecord, templates) ==
  \A r \in DOMAIN d.routes :
    LET row == SupportRow(d.routes[r].supports)
    IN /\ Leq(Zero, row.spacing) /\ row.anchors >= 0 /\ row.perSupport >= 0
       /\ row.type \in {"wall", "ceiling", "floor", "custom", None}
       /\ row.base \in {"concrete", "steel", "masonry", "unknown", None}
       /\ row.template \in templates \cup {None} /\ row.anchor \in onRecord \cup {None}
       /\ row.mode \in {None, "manual"} \/ <<row.mode, row.perSupport>> \in {<<"one", 1>>, <<"two", 2>>}

\* assert_connection_cardinality, for the connections and participants of the transaction
\* when it commits.
CardinalityHolds(x, participants) ==
  LET all == Cardinality(participants)
  IN /\ Cardinality({ row.route : row \in participants }) = all
     /\ all \in (IF x.type = "tee" THEN {3} ELSE IF x.type = "custom" THEN {2, 3} ELSE {2})
     /\ all = 2 => { row.position : row \in participants } = {"start", "end"}
     /\ x.type = "logicalContinuation" => \A row \in participants : row.kind = "routeContinuation"

ConnectionsStorable(d, onRecord) ==
  /\ Distinct(d.connections, LAMBDA x : x.id)
  /\ Distinct(ParticipantRows(d), LAMBDA row : row.endpoint)
  /\ \A row \in ParticipantRows(d) : row.order <= 2 /\ \E end \in EndpointRows(d) : end.id = row.endpoint
  /\ \A x \in d.connections :
       /\ x.type = "logicalContinuation" => ConnectionRow(x).material = "none"
       /\ ConnectionRow(x).product \in onRecord \cup {None}
       /\ CardinalityHolds(x, { end \in EndpointRows(d) :
                                  \E row \in ParticipantRows(d) : row.connection = x.id /\ row.endpoint = end.id })

ManualItemsStorable(d, onRecord) ==
  /\ Distinct(d.manualItems, LAMBDA m : m.id)
  /\ \A m \in d.manualItems : m.quantity # Zero /\ m.product \in onRecord \cup {None}

\* What the rows of a stored draft refer to is on record (their foreign keys).
OnRecord(d, onRecord, templates) ==
  /\ \A e \in EndsOf(d) : d.routes[e[1]].ends[e[2]].product \in onRecord \cup {None}
  /\ \A g \in ItemsOf(d) : LET item == d.routes[g[1]].geometry[g[2]]
                          IN ~Straight(item) => item.product \in onRecord \cup {None}
  /\ \A r \in DOMAIN d.routes : LET s == d.routes[r].supports
                               IN s.template \in templates \cup {None} /\ s.anchor \in onRecord \cup {None}
  /\ \A x \in d.connections : x.material \in onRecord \cup {None}
  /\ \A m \in d.manualItems : m.product \in onRecord \cup {None}

Storable(d, onRecord, templates) ==
  /\ RoutesStorable(d) /\ EndpointsStorable(d, onRecord) /\ GeometryStorable(d, onRecord)
  /\ SupportsStorable(d, onRecord, templates) /\ ConnectionsStorable(d, onRecord) /\ ManualItemsStorable(d, onRecord)
=============================================================================
