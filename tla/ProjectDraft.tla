---------------------------- MODULE ProjectDraft ----------------------------
(***************************************************************************)
(* One project's draft on the server: its replacement, its validation and  *)
(* its calculation, as served by apps/backend/src/project-service.ts and   *)
(* project-repository.ts.                                                  *)
(*                                                                         *)
(* A mutation is one READ COMMITTED transaction.  Its first statement      *)
(* takes the snapshot of the project row and of the catalog that row is    *)
(* pinned to, and then waits for the row; once it has the row, everything  *)
(* up to the commit is one step, because all writers of the draft queue on *)
(* it.  A calculation reads its context in a transaction of its own, is    *)
(* computed outside any, and is stored by a second one.                    *)
(***************************************************************************)
EXTENDS Integers, Sequences

CONSTANTS
  Editors,      \* who has the project open: different accounts that may edit it
  Contents,     \* complete draft documents
  Valid,        \* those that satisfy the schema of a draft
  Calculable,   \* those the preflight of a calculation accepts
  MaxCatalogs   \* bound: catalogs that become active, one after the other

Catalogs == 1..MaxCatalogs

ASSUME ContentsAssumption ==
  /\ Valid \subseteq Contents /\ Calculable \subseteq Valid
  /\ MaxCatalogs \in Nat \ {0}

VARIABLES
  draft,       \* the project row with its document
  saves,       \* audit events of the versions, with the replies recorded for their keys
  calculated,  \* the row of calculation_drafts, or none yet
  active,      \* the active catalog, with its rules
  requests,    \* requests on their way or being served
  answers      \* answers on their way

server == <<draft, saves, calculated>>
network == <<requests, answers>>

\* The key of a replacement is that of the save that drew it.
Keys == Editors \X Nat
Drafts == [version : Nat \ {0}, content : Contents, catalog : Catalogs]
NoCalculation == [version |-> 0]
Calculations == Drafts \cup {NoCalculation}
Saves == [key : Keys, base : Nat, content : Contents, catalog : Catalogs]

RequestKinds == {"replace", "validate", "calculate"}
Phases == {"sent", "computed", "begun"}
\* open: the client still waits.  seen: the draft as the statement, or the
\* calculation, has read it.
Requests == [kind : RequestKinds, editor : Editors, number : Nat, key : Keys, base : Nat,
             content : Contents, open : BOOLEAN, phase : Phases, input : Drafts,
             seen : Catalogs]
Codes == {"ok", "conflict", "notFound", "noSnapshot", "refused"}
Answers == [kind : RequestKinds, editor : Editors, number : Nat, code : Codes, result : Drafts]

ServerTypeOK ==
  /\ draft \in Drafts
  /\ saves \in Seq(Saves)
  /\ calculated \in Calculations
  /\ active \in Catalogs
  /\ requests \subseteq Requests
  /\ answers \subseteq Answers
-----------------------------------------------------------------------------
Request(kind, editor, number, key, base, content) ==
  [kind |-> kind, editor |-> editor, number |-> number, key |-> key, base |-> base,
   content |-> content, open |-> TRUE, phase |-> "sent", input |-> draft, seen |-> active]

\* The transaction of r ends and its reply goes to the client that still waits.
Reply(r, code, result) ==
  /\ requests' = requests \ {r}
  /\ answers' = IF r.open
       THEN answers \cup {[kind |-> r.kind, editor |-> r.editor, number |-> r.number,
                           code |-> code, result |-> result]}
       ELSE answers

\* The first statement of a mutation: lockedProject waits for the project row
\* joined to the catalog it was pinned to when the statement began.
Begin(r) ==
  /\ \/ r.kind = "replace" /\ r.phase = "sent"
     \/ r.kind = "calculate" /\ r.phase = "computed"
  /\ requests' = (requests \ {r}) \cup {[r EXCEPT !.phase = "begun", !.seen = draft.catalog]}
  /\ UNCHANGED <<server, active, answers>>

\* After the wait PostgreSQL joins the new project row to the old catalog row,
\* and finds nothing when the draft has been rebased meanwhile.
RowDropsOut(r) == r.seen # draft.catalog

Stored(key) == {i \in DOMAIN saves : saves[i].key = key}

\* Mutant: the request is not looked up.
ReplayedNever(r) == FALSE

\* Answered before, with the result of then.
Replayed(r) == Stored(r.key) # {}
RecordedResult(r) ==
  LET i == CHOOSE i \in Stored(r.key) : TRUE IN
    [version |-> i, content |-> saves[i].content, catalog |-> saves[i].catalog]

\* Mutant: the last writer wins.
StaleNever(r) == FALSE

Stale(r) == draft.version # r.base

\* The new version is pinned to the catalog that is active now.
Write(r) ==
  LET new == [version |-> draft.version + 1, content |-> r.content, catalog |-> active] IN
    /\ draft' = new
    /\ saves' = Append(saves, [key |-> r.key, base |-> r.base, content |-> r.content,
                               catalog |-> active])
    /\ UNCHANGED calculated
    /\ Reply(r, "ok", new)

\* replaceProject, once it has the project row.
Replace(r) ==
  /\ r.kind = "replace" /\ r.phase = "begun"
  /\ IF ~RowDropsOut(r) /\ ~Replayed(r) /\ ~Stale(r) THEN Write(r)
     ELSE /\ IF RowDropsOut(r) THEN Reply(r, "notFound", draft)
             ELSE IF Replayed(r) THEN Reply(r, "ok", RecordedResult(r))
             ELSE Reply(r, "conflict", draft)
          /\ UNCHANGED server
  /\ UNCHANGED active

\* getCalculationContext, and the calculation or validation of what it returns.
ReadContext(r) ==
  /\ r.kind \in {"validate", "calculate"} /\ r.phase = "sent"
  /\ CASE Stale(r) -> Reply(r, "conflict", draft)
       [] ~Stale(r) /\ draft.catalog # active -> Reply(r, "noSnapshot", draft)
       [] OTHER ->
            IF r.kind = "validate" THEN Reply(r, "ok", draft)
            ELSE IF draft.content \notin Calculable THEN Reply(r, "refused", draft)
            ELSE /\ requests' = (requests \ {r})
                                  \cup {[r EXCEPT !.phase = "computed", !.input = draft]}
                 /\ UNCHANGED answers
  /\ UNCHANGED <<server, active>>

\* storeCalculation, once it has the project row.
Store(r) ==
  /\ r.kind = "calculate" /\ r.phase = "begun"
  /\ IF ~RowDropsOut(r) /\ ~Stale(r) /\ r.input.catalog = active
     THEN calculated' = r.input /\ Reply(r, "ok", r.input)
     ELSE /\ IF RowDropsOut(r) THEN Reply(r, "notFound", draft)
             ELSE IF Stale(r) THEN Reply(r, "conflict", draft)
             ELSE Reply(r, "noSnapshot", draft)
          /\ UNCHANGED calculated
  /\ UNCHANGED <<draft, saves, active>>

Serve(r) == Begin(r) \/ Replace(r) \/ ReadContext(r) \/ Store(r)

\* A later catalog becomes active; projects stay pinned to theirs.
ActivateCatalog ==
  /\ active < MaxCatalogs
  /\ active' = active + 1
  /\ UNCHANGED <<server, network>>
=============================================================================
