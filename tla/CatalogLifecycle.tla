-------------------------- MODULE CatalogLifecycle --------------------------
(***************************************************************************)
(* The managed catalog versions of the administration                      *)
(* (apps/backend/src/catalog-service.ts and catalog-repository.ts, with    *)
(* the triggers, checks and unique indexes of the migration of stage 5).   *)
(*                                                                         *)
(* A version is named by its scope and version text, a content hash by one *)
(* of the uploads with that content.  Every transaction locks its actor's  *)
(* row for share and its version's row for update before it changes        *)
(* anything and is seen by others when it commits, so a transaction is one *)
(* step unless it acts on something that it read without a lock: a draft   *)
(* that is loaded before it is validated, a version that is not there yet, *)
(* or the active versions that an activation is about to archive.          *)
(***************************************************************************)
EXTENDS CatalogImport

CONSTANTS
  Requests,      \* the requests that are in flight at once
  Actors,        \* the accounts that may be administrators
  Catalogue,     \* for each upload its sheets
  UploadSets     \* the sets of uploads that one behaviour draws from

\* The cells of a product row are what the pipeline reads them as.
ASSUME CatalogueAssumption ==
  \A set \in UploadSets : \A u \in set :
    \A i \in DOMAIN Catalogue[u].products : Catalogue[u].products[i] \in ProductRows

VARIABLES
  uploads,       \* the uploads that are at hand, with what is to be said of each
  versions,      \* the rows of catalog_versions
  imports,       \* of each version its rows of catalog_imports, oldest first
  reports,       \* the validation reports: <<version, content, valid>>
  approvals,     \* the approvals: <<version, content>>
  tables,        \* what a version's products, rules and templates are materialised from
  audited,       \* the new state in a version's latest row of catalog_version_transitions
  administrators,
  requests

vars == <<uploads, versions, imports, reports, approvals, tables, audited, administrators, requests>>

\* A draft is filed under the scope and version of the first row of its manifest.
NameOf(bundle) ==
  LET rows == bundle.manifest
  IN IF rows = << >> THEN << >>
     ELSE LET first == CHOOSE i \in DOMAIN rows : \A j \in DOMAIN rows : i <= j
          IN <<rows[first].scope, rows[first].version>>

\* What the pipeline and the tables say of the uploads of a set.
Judgement(set) ==
  LET bundle == [u \in set |-> Bundle(Catalogue[u])]
  IN [u \in set |->
        [ name |-> NameOf(bundle[u]), hash |-> CHOOSE w \in set : SameHash(bundle[w], bundle[u]),
          valid |-> Valid(Catalogue[u]), careful |-> Careful(bundle[u]),
          storable |-> Storable(bundle[u]), observed |-> ObservationsStorable(bundle[u]) ]]

Uploads == DOMAIN uploads
HashOf(u) == uploads[u].hash
Names == { uploads[u].name : u \in Uploads } \ {<< >>}
Scope(name) == name[1]

Absent == [status |-> "absent", content |-> None, validated |-> None, report |-> None, approved |-> None]
Statuses == {"draft", "validated", "approved", "active", "archived"}
Nothing == [content |-> None, rules |-> None]
Idle == [step |-> "idle", kind |-> None, actor |-> None, name |-> << >>, arg |-> None, seen |-> {}]

VersionRows ==
  [ status : Statuses \cup {"absent"}, content : Uploads \cup {None}, validated : Uploads \cup {None},
    report : Uploads \cup {None}, approved : Uploads \cup {None} ]
ImportRows == [content : Uploads, upload : Uploads, status : {"draft", "validated", "invalid", "superseded"}]
TableRows == [content : Uploads \cup {None}, rules : {None, "draft", "active", "archived"}]
RequestRows ==
  [ step : {"idle", "asked", "inserting", "loaded", "locked", "found"},
    kind : {"import", "validate", "approve", "activate", "archive", None}, actor : Actors \cup {None},
    name : Names \cup {<< >>}, arg : Uploads \cup {None}, seen : SUBSET Names ]

TypeOK ==
  /\ Uploads \in UploadSets
  /\ versions \in [Names -> VersionRows]
  /\ imports \in [Names -> Seq(ImportRows)]
  /\ reports \subseteq Names \X Uploads \X BOOLEAN /\ approvals \subseteq Names \X Uploads
  /\ tables \in [Names -> TableRows]
  /\ audited \in [Names -> Statuses \cup {None}]
  /\ administrators \subseteq Actors
  /\ requests \in [Requests -> RequestRows]

Init ==
  /\ uploads \in { Judgement(set) : set \in UploadSets }
  /\ versions = [name \in Names |-> Absent] /\ imports = [name \in Names |-> << >>]
  /\ reports = {} /\ approvals = {}
  /\ tables = [name \in Names |-> Nothing] /\ audited = [name \in Names |-> None]
  /\ administrators = Actors
  /\ requests = [r \in Requests |-> Idle]

---------------------------------------------------------------------------
(* Requests. *)

At(r, step, kind) == requests[r].step = step /\ requests[r].kind = kind
Goes(r, step) == requests' = [requests EXCEPT ![r].step = step]
Replies(r) == requests' = [requests EXCEPT ![r] = Idle]

catalogVars == <<versions, imports, reports, approvals, tables, audited>>
Unchanged == UNCHANGED <<uploads, catalogVars, administrators>>

\* An authenticated administrator asks for something.  Whoever asks for an approval or an
\* activation names the content that is meant; an upload without a manifest is refused.
Request(actor, kind, u) ==
  [ Idle EXCEPT !.step = "asked", !.kind = kind, !.actor = actor, !.name = uploads[u].name,
      !.arg = CASE kind = "import" -> u [] kind \in {"approve", "activate"} -> HashOf(u)
                [] kind \in {"validate", "archive"} -> None ]

Ask(r) ==
  /\ requests[r].step = "idle"
  /\ \E actor \in administrators, kind \in {"import", "validate", "approve", "activate", "archive"},
       u \in Uploads :
       /\ uploads[u].name # << >>
       /\ kind \in {"validate", "archive"} => u = HashOf(u)
       /\ requests' = [requests EXCEPT ![r] = Request(actor, kind, u)]
  /\ Unchanged

\* requireCurrentAdministrator.
Current(r) == requests[r].actor \in administrators
Refuse(r) == Replies(r) /\ Unchanged

Forbid(r) ==
  /\ \/ requests[r].step = "asked" /\ requests[r].kind # "validate"
     \/ requests[r].step = "loaded"
  /\ ~Current(r)
  /\ Refuse(r)

\* A request whose transaction spans several steps holds its actor's row for share, and
\* from the step "locked" on its version's row for update.
InTransaction == { r \in Requests : requests[r].step \in {"inserting", "locked", "found"} }
Unlocked(name) == \A r \in Requests : requests[r].step \in {"locked", "found"} => requests[r].name # name

Transaction(r) == Current(r) /\ Unlocked(requests[r].name)

\* The account is demoted or disabled, and reinstated (pg-store.ts).
Demote(a) ==
  /\ a \in administrators /\ \A r \in InTransaction : requests[r].actor # a
  /\ administrators' = administrators \ {a}
  /\ UNCHANGED <<uploads, catalogVars, requests>>
Reinstate(a) ==
  /\ a \notin administrators
  /\ administrators' = administrators \cup {a}
  /\ UNCHANGED <<uploads, catalogVars, requests>>

---------------------------------------------------------------------------
(* Import: saveDraft. *)

StatusOf(r) == versions[requests[r].name].status
Staged(content, upload) == [content |-> content, upload |-> upload, status |-> "draft"]

\* The import of the version's content: one that is there is used as it is, and leaves no
\* trace; a new one is staged and recorded.
Stage(name, earlier, u) ==
  IF \E i \in DOMAIN earlier : earlier[i].content = HashOf(u)
  THEN /\ imports' = [imports EXCEPT ![name] = earlier]
       /\ UNCHANGED audited
  ELSE /\ imports' = [imports EXCEPT ![name] = Append(earlier, Staged(HashOf(u), u))]
       /\ audited' = [audited EXCEPT ![name] = "draft"]

Superseded(rows) == [i \in DOMAIN rows |-> [rows[i] EXCEPT !.status = "superseded"]]

\* Content that was published is not replaced.
\* Mutant: only the active version is protected.
ImmutableWhileActive(status) == status = "active"
Immutable(status) == status \in {"active", "archived"}

ImportIntoNew(r) ==
  /\ At(r, "asked", "import") /\ Current(r)
  /\ StatusOf(r) = "absent"
  /\ Goes(r, "inserting")
  /\ Unchanged

\* The version is unique: the second of two that found none fails.
InsertDraft(r) ==
  LET name == requests[r].name
      u == requests[r].arg
  IN /\ requests[r].step = "inserting"
     /\ IF StatusOf(r) # "absent" THEN Refuse(r)
        ELSE /\ versions' = [versions EXCEPT ![name] = [Absent EXCEPT !.status = "draft", !.content = HashOf(u)]]
             /\ Stage(name, imports[name], u)
             /\ Replies(r)
             /\ UNCHANGED <<uploads, reports, approvals, tables, administrators>>

ImportIntoExisting(r) ==
  LET name == requests[r].name
      u == requests[r].arg
      same == versions[name].content = HashOf(u)
  IN /\ At(r, "asked", "import") /\ Transaction(r)
     /\ StatusOf(r) # "absent"
     /\ IF Immutable(StatusOf(r)) THEN Refuse(r)
        ELSE /\ versions' = IF same THEN versions
                            ELSE [versions EXCEPT ![name] = [Absent EXCEPT !.status = "draft", !.content = HashOf(u)]]
             /\ Stage(name, IF same THEN imports[name] ELSE Superseded(imports[name]), u)
             /\ Replies(r)
             /\ UNCHANGED <<uploads, reports, approvals, tables, administrators>>

---------------------------------------------------------------------------
(* Validation: loadDraft, the pipeline and saveValidation. *)

Live(name) == { i \in DOMAIN imports[name] : imports[name][i].status # "superseded" }

LoadDraft(r) ==
  /\ At(r, "asked", "validate")
  /\ LET live == Live(requests[r].name)
     IN IF live = {} THEN Refuse(r)
        ELSE LET newest == CHOOSE i \in live : \A j \in live : j <= i
             IN /\ requests' = [requests EXCEPT ![r].step = "loaded",
                                               ![r].arg = imports[requests[r].name][newest].upload]
                /\ Unchanged

\* The status that a validation gives to the import of the version's content.
Judged(rows, content, valid) ==
  [i \in DOMAIN rows |->
     IF rows[i].content = content
     THEN [rows[i] EXCEPT !.status = IF valid THEN "validated" ELSE "invalid"] ELSE rows[i]]

\* Mutant: the content is not compared again after the pipeline.
SameContentAssumed(version, content) == TRUE
SameContent(version, content) == version.content = content

\* clearCandidate and materializeCandidate: of the tables that the version had, nothing stays.
Materialised(content) == [content |-> content, rules |-> "draft"]

\* A judgement of other content than the version's, or of a version that is past it, is
\* refused; a constraint of the tables rolls everything back.  The observations are written
\* whatever the report says, the tables are filled where it has no errors.
SaveValidation(r) ==
  LET name == requests[r].name
      u == requests[r].arg
      content == HashOf(u)
      valid == uploads[u].valid
      version == versions[name]
      materialises == valid /\ version.status = "draft"
      known == \E report \in reports : report[1] = name /\ report[2] = content
  IN /\ requests[r].step = "loaded" /\ Transaction(r)
     /\ IF \/ version.status \notin {"draft", "validated"} \/ ~SameContent(version, content)
           \/ ~uploads[u].observed \/ (materialises /\ ~uploads[u].storable)
        THEN Refuse(r)
        ELSE /\ reports' = IF known THEN reports ELSE reports \cup {<<name, content, valid>>}
             /\ imports' = [imports EXCEPT ![name] = Judged(@, content, valid)]
             /\ IF materialises
                THEN /\ tables' = [tables EXCEPT ![name] = Materialised(content)]
                     /\ versions' = [versions EXCEPT ![name].status = "validated",
                                        ![name].validated = version.content, ![name].report = content]
                     /\ audited' = [audited EXCEPT ![name] = "validated"]
                ELSE UNCHANGED <<tables, versions, audited>>
             /\ Replies(r)
             /\ UNCHANGED <<uploads, approvals, administrators>>

---------------------------------------------------------------------------
(* Approval, activation and archive. *)

\* What is approved is named by its content; the same approval again is answered with what is there.
Approve(r) ==
  LET name == requests[r].name
      content == requests[r].arg
      version == versions[name]
  IN /\ At(r, "asked", "approve") /\ Transaction(r)
     /\ IF /\ version.status = "validated" /\ version.report # None
           /\ version.validated = content /\ version.content = content
           /\ <<name, version.report, TRUE>> \in reports /\ <<name, content>> \notin approvals
        THEN /\ approvals' = approvals \cup {<<name, content>>}
             /\ versions' = [versions EXCEPT ![name].status = "approved", ![name].approved = version.content]
             /\ audited' = [audited EXCEPT ![name] = "approved"]
             /\ Replies(r)
             /\ UNCHANGED <<uploads, imports, reports, tables, administrators>>
        ELSE Refuse(r)

\* The candidate is locked and looked at.
LockCandidate(r) ==
  LET name == requests[r].name
      content == requests[r].arg
      version == versions[name]
  IN /\ At(r, "asked", "activate") /\ Transaction(r)
     /\ IF /\ version.status = "approved" /\ version.content = content /\ version.approved = content
           /\ <<name, content>> \in approvals
        THEN Goes(r, "locked") /\ Unchanged
        ELSE Refuse(r)

ActiveBeside(name) ==
  { n \in Names \ {name} : Scope(n) = Scope(name) /\ versions[n].status = "active" }

\* The statement that locks the active versions of the scope sees those of its start.
FindPrevious(r) ==
  /\ requests[r].step = "locked"
  /\ requests' = [requests EXCEPT ![r].step = "found", ![r].seen = ActiveBeside(requests[r].name)]
  /\ Unchanged

\* It waits for their locks and takes those that are still active.  One active version and
\* one active rule set to a scope: the indexes fail an activation that has missed one.
\* Mutant: the indexes are not there.
ScopeTakenNever(name, archived) == FALSE
ScopeTaken(name, archived) == ActiveBeside(name) \ archived # {}

Retired(name) == [tables[name] EXCEPT !.rules = IF @ = "active" THEN "archived" ELSE @]

Activate(r) ==
  LET name == requests[r].name
      archived == { n \in requests[r].seen : versions[n].status = "active" }
  IN /\ requests[r].step = "found"
     /\ \A n \in requests[r].seen : Unlocked(n)
     /\ IF ScopeTaken(name, archived) THEN Refuse(r)
        ELSE /\ versions' = [n \in Names |->
                   IF n \in archived THEN [versions[n] EXCEPT !.status = "archived"]
                   ELSE IF n = name THEN [versions[n] EXCEPT !.status = "active"] ELSE versions[n]]
             /\ tables' = [n \in Names |->
                   IF n \in archived THEN Retired(n)
                   ELSE IF n = name THEN [tables[n] EXCEPT !.rules = "active"] ELSE tables[n]]
             /\ audited' = [n \in Names |->
                   IF n \in archived THEN "archived" ELSE IF n = name THEN "active" ELSE audited[n]]
             /\ Replies(r)
             /\ UNCHANGED <<uploads, imports, reports, approvals, administrators>>

Archive(r) ==
  LET name == requests[r].name
  IN /\ At(r, "asked", "archive") /\ Transaction(r)
     /\ IF versions[name].status # "active" THEN Refuse(r)
        ELSE /\ versions' = [versions EXCEPT ![name].status = "archived"]
             /\ tables' = [tables EXCEPT ![name] = Retired(name)]
             /\ audited' = [audited EXCEPT ![name] = "archived"]
             /\ Replies(r)
             /\ UNCHANGED <<uploads, imports, reports, approvals, administrators>>

Next ==
  \/ \E r \in Requests :
       \/ Ask(r) \/ Forbid(r) \/ ImportIntoNew(r) \/ InsertDraft(r) \/ ImportIntoExisting(r)
       \/ LoadDraft(r) \/ SaveValidation(r) \/ Approve(r)
       \/ LockCandidate(r) \/ FindPrevious(r) \/ Activate(r) \/ Archive(r)
  \/ \E a \in Actors : Demote(a) \/ Reinstate(a)

Spec == Init /\ [][Next]_vars

---------------------------------------------------------------------------
(* What the administration promises. *)

Published(name) == versions[name].status \in {"approved", "active", "archived"}

\* What is approved, active or archived is what was judged and approved: its tables are
\* materialised from the very content that the approval names, a valid report of it exists,
\* and the rule set's status follows the version's.  A scope has one active version and no
\* other version's rules are active (docs/catalogs/catalog-import.md, steps 3 to 6).
PublishedIsApproved ==
  /\ \A name \in Names : Published(name) =>
       LET version == versions[name]
       IN /\ <<name, version.content>> \in approvals
          /\ <<name, version.content, TRUE>> \in reports
          /\ tables[name].content = version.content
          /\ version.content = version.validated /\ version.content = version.approved
          /\ tables[name].rules = IF version.status = "approved" THEN "draft" ELSE version.status
  /\ \A name \in Names :
       /\ tables[name].rules = "active" => versions[name].status = "active"
       /\ versions[name].status = "active" => ActiveBeside(name) = {}

\* Published content is never touched again: from its activation on a version only goes from
\* active to archived, with the content, the tables and the imports that it has; and content
\* that was approved is only given up for other content, as a draft.
PublishedStays ==
  [][\A name \in Names :
       LET before == versions[name]
           after == versions'[name]
       IN /\ before.status \in {"active", "archived"} =>
               /\ after \in {before, [before EXCEPT !.status = "archived"]}
               /\ tables'[name].content = tables[name].content
               /\ imports'[name] = imports[name]
          /\ before.status = "approved" =>
               \/ after \in {before, [before EXCEPT !.status = "active"]}
               \/ after.content # before.content /\ after.status = "draft" /\ after.approved = None]_vars

\* The pipeline looks at everything that the tables demand, except what Careful names: a
\* validation with a valid report is not rolled back by a constraint
\* (docs/catalogs/catalog-import.md, step 3).
ValidIsStored ==
  \A r \in Requests :
    LET upload == uploads[requests[r].arg]
    IN At(r, "loaded", "validate") /\ upload.valid /\ upload.careful => upload.storable /\ upload.observed
=============================================================================
