# Niedax Generator: specifications and proofs

TLA+ models of the Niedax Generator (a web application that turns cable-tray
projects into bills of materials), checked with TLC and, where it matters most,
proved with TLAPS. Paths below are relative to the repository; `backend/` stands
for `apps/backend/src/`, `frontend/` for `apps/frontend/src/`.

## 1. The system

Browser → Caddy → Next.js frontend and Fastify backend → PostgreSQL. The backend
keeps no state of its own between requests except its export worker: everything
is in PostgreSQL, every mutation is one or two transactions at READ COMMITTED,
and several backends may share a database. Two things are hard: what transactions
do to each other (rows read before a lock wait and used after it, row and
advisory locks taken in some order, retries by idempotency key, a crash or a role
change between two transactions), and what a long chain of validations, each
written by itself, lets through: editor, draft schema, tables, preflight,
calculation input, engine, approval.

| Component | State | Operations | Interacts with | What makes it correct |
| --- | --- | --- | --- | --- |
| **Revision lifecycle** (`backend/revision-service.ts`, `revision-repository.ts`, stage 8 migrations) | `revisions`, `revision_lifecycle_events` (succeeded and rejected), `approvals`, `idempotency_records`, save refusals in `project_audit_events` | Save, Check, Approve, recording of rejections; lists and audit pages read only | draft and calculation (frozen by Save), users (actor guard), exports (evidence) | a saved revision freezes one draft; only the latest revision advances, in order, `approved` only if ready; a key does one thing; a rejected attempt stays rejected; every event's actor is entitled at its commit; replays are exact |
| **Excel exports** (`backend/export-repository.ts`, `export-service.ts`, stage 9 migration) | `export_artifacts` with attempts, claim token and lease; `idempotency_records`; the worker's timer, pass and stop flag | request; claim, render, finalize, fail attempt, sweep; start, stop; list/get/download read only | revisions (captured), users (permission), other backends' workers (leases) | one usable artifact per evidence, showing the revision of its commit; one export per key; only the holder of a claim writes the outcome; no job pending for ever; none given up before its attempts are spent |
| **Users and sessions** (`backend/auth-service.ts`, `pg-store.ts`, stage 8 triggers) | `users`, `sessions`, `user_administration_audit_events` | login, logout, expiry, create, set role, enable/disable, first administrator | every actor check | an enabled administrator always remains; no session outlives a change of role or a disabling; the audit replays to the accounts |
| **Project drafts and calculations** (`backend/project-repository.ts`, `project-service.ts`) | `projects` with draft version and catalog pin, `project_draft_documents`, the rows of the draft's graph, `calculation_drafts`, audit | create, replace, validate, calculate, store | catalog (active pair pinned at each save), editor, engine, revisions | no lost update; a stored calculation is of the current draft and never goes back; what is accepted can be stored; what the preflight passes is calculated |
| **Frontend editor and autosave** (`frontend/app/project-editor.tsx`, `project-editor-sections.tsx`, `frontend/lib`) | page: document, acknowledged version, status, generations, pending request, shown result | edit, autosave, late reply, conflict, retry, rebase, validate, calculate, reload; the sections' changes to the draft | draft endpoints, catalog | "saved" means stored; a conflict is real; a result not marked stale is of the document on display; the page comes to rest; a draft it offers to calculate passes the preflight |
| **Calculation engine** (`packages/calculation-engine`, `packages/domain` calculation schema) | one run: input, warnings, demand events, lines | `calculateV2` in stages | calculations | nothing needed is left out of a result ready for approval; every line reconciles with its demand; reserve and packaging once, in order |
| **Catalog lifecycle** (`backend/catalog-service.ts`, `catalog-repository.ts`, stage 5 migration) | `catalog_versions` and rule sets with status, imports, reports, approvals, transitions | import draft, validate, approve, activate, archive | drafts pin the active pair | at most one active version per scope, validated and approved by exact hash, never touched again |
| **Catalog import** (`packages/catalog-import`) | none | parse, normalise, validate, diff | catalog lifecycle | the report names every error; what is valid and `Careful` can be stored |
| **Authorization policy** (`backend/authorization-policy.ts`) | none | capability table, access scopes | all services | used as it is by the other models |
| **Schema, migrations** (`database/`) | tables, constraints, triggers, `schema_migrations` | up, verify | all | the constraints agree with what the services write |
| **Revision and export panels, workbook renderer, HTTP layer, domain schemas, configuration, backup scripts** | none or files | | | see "Not modelled" |

The hazards of each component, at the line where they bite, are the `hazards` of
`PROJECT.json`, with the properties that would catch them going wrong.

## 2. How the project is laid out

The modules follow the components, most important behaviour first.

1. `Authorization`, `RevisionGuards`, `RevisionLifecycle`, abstract `RevisionHistory`.
2. `ExportJobs`, abstract `ExportArtifacts`.
3. `UserAdministration`.
4. `ProjectDraft` (server) and, over it, `DraftEditing` (pages and network).
5. `ExactDecimal` → `CalculationInput` → `CalculationEngine`;
   `CalculationInput` → `CalculationPreparation` → `DraftEditor`, `DraftPersistence`;
   `ProjectCalculation` composes the last two with the engine.
6. `CatalogImport` → `CatalogLifecycle`.

Three kinds of composition: `DraftEditing` puts clients and a lossy network around
the server's draft; `ProjectCalculation` follows one draft from the sections of the
editor through tables, preflight, translation, engine and reply; and
`RevisionLifecycle` and `ExportJobs` each implement an abstract specification by
`INSTANCE ... WITH`, proved.

`DraftEditing` and `ProjectCalculation` split the drafts between them by what is
hard: the first has opaque documents and every interleaving, the second has real
documents and one request. The assumption the first makes of documents
(`EditingAssumption`: clearing what a catalog does not offer is idempotent) is what
the second checks (`EditorIsSound`) and proves for every catalog (`EditedDraftsAreSound`).

What could come next: a proof of `PreflightIsEnough`; the creation of a project with its key; the differences a catalog report lists; the panels'
retry keys.

## 3. Modules

| Module | Models | State ↔ code |
| --- | --- | --- |
| `Authorization` | `authorization-policy.ts` | `CapabilitiesByRole` is the table restricted to the capabilities the models use; `MayReadProject` and `MayMutateProject` are `projectAccessScope` |
| `RevisionLifecycle` | Save, Check, Approve of one project | table variables (`revisions`, `events`, `approvals`, `tombstones` = rejected events, `saveRefusals`, `idempotency`), `projectLock` = the holder of the project row, per request `pc`, `request` (with the role it was authenticated with), `document` (what its locking statement's snapshot showed), `reason`, `reply` |
| `RevisionGuards` | the triggers of the stage 8 migrations on revisions, events and approvals | predicates of the rows a transaction writes |
| `RevisionHistory` | abstract specification of `RevisionLifecycle` | draft version and the list of revisions |
| `ExportJobs` | exports of one saved revision | `artifacts` and `records` = the tables, `stage` = `revisions.status`, `permitted` = accounts that may export it, per request `pc`, `asked`, `capture`; per backend its worker: place in `recoverOnce`, job, token, claims left in the pass, `stopping` |
| `ExportArtifacts` | abstract specification of `ExportJobs` | revision status and the list of exports |
| `UserAdministration` | accounts, sessions, audit | `account`, `sessions`, `audit`; `shared`, `exclusive` = row locks, `bootstrapLock` = the advisory lock; per request `pc` and `work`, what its counting statement has yet to find, the sessions it ends |
| `ProjectDraft` | the server's side of a draft | `draft` = project row with document and pin, `saves` = audit and replay records, `calculated` = `calculation_drafts`, `active` = the catalog, requests and answers on their way |
| `DraftEditing` | the editor page over it | `editor[e]`: mode, document, acknowledged version, status, save in flight, failed key, task, result shown |
| `ExactDecimal`, `CalculationInput`, `CalculationEngine` | `packages/calculation-engine` | `input`, `stage` of `calculateV2`, `warnings`, `sections`, `groups`, `events`, `result` |
| `CalculationPreparation` | draft schema, preflight, translation to the engine's input | operators |
| `DraftPersistence` | `replaceGraph` and the tables' constraints | operators |
| `DraftEditor` | the editor's sections and `reconcileProjectDraftCatalog` | `draft` and `shown` catalog of the page, the manual item's `form` |
| `ProjectCalculation` | validate and calculate, from editor or stored draft to the reply | `operation`, `reply` and the above |
| `CatalogImport` | the upload pipeline, `materializeCandidate` and its constraints | operators |
| `CatalogLifecycle` | the managed versions | `versions`, `imports`, `reports`, `approvals`, `tables` (what products, rules and templates are materialised from, and the rule set's status), `audited`, `administrators`, `requests` |
| `MC...` | | constants, instances and symmetry for TLC |
| `...Proofs` | | theorems |

### RevisionLifecycle

One action per outcome of a transaction's turn. `Submit*` is the HTTP request
with its authentication and the services' entry checks; `BeginSave` is the
snapshot of Save's locking statement, which joins the draft document to the
project row it then waits for; the `Serve` actions run once the project row is
free (refuse, replay, repeat a tombstone, begin to write, write nothing); `Commit`
makes the writes visible and frees the row. A transaction's writes and its commit
are two steps, because users may change between them and the connection may die
(`Fail`). A rejected transition commits its tombstone in the mutation's
transaction, reports it by an error, and the service then runs the recording
transaction (`recording` → `WriteTombstone`/`SkipRecording`).

Abstractions, each resting on the code:

- Everything a transaction reads under the project row is changed only under that
  row, so locking, deciding and writing are one step. The target of a transition
  is read before the lock, but the columns used from that read never change.
- UUIDs are positions; the fingerprint, the document and the calculation's inputs
  are named by the draft version they belong to.
- A client names a draft version that exists (`SaveBodies`, from
  `buildSaveRevisionInput`): the version comes from a server's answer.
  `SavedFromOneDraft` rests on it.
- `approval_ready` is the calculation having no blocking warning
  (`result-builder.ts`), one bit here.
- Drafts and calculations change by `ReplaceDraft` and `StoreCalculation`, their
  effect on the rows Save reads, under the project row.

### ExportJobs

A request: `Ask`, then `Answer` (refused or replayed) or `WriteRequest` (captures
the evidence, reuses a cached artifact or inserts one) and `CommitRequest`, with
`FailRequest` anywhere. A worker: `Tick`, `Iterate`, `ClaimJob`/`FindNone` (each
with the sweep of exhausted jobs in the same transaction), `Render`, `Finalize`
or `FailAttempt`, `EndPass`; interruptions are a failed or unanswered finalize
(`FinalizeFails`, caught as a failed attempt), a failed pass, a stop and a crash.

- A request's locks (actor and revision `FOR SHARE`, scope, cache identity) are
  all held to the commit and what is read under each changes only under it, so
  they are taken in the deciding step; no request waits while another holds a
  lock out of order, because the order is fixed.
- `FOR UPDATE SKIP LOCKED` makes two claims that overlap behave as one before the
  other. Any claimable job may be the oldest: `created_at` is stamped by the
  clocks of different backends.
- A lease may run out at any moment (`LeaseExpires`): it is compared with the
  database's clock, and nothing bounds how long a backend may sleep.
- The renderer refuses evidence captured for another template, and may fail or
  overrun its deadline on any.
- A request with a wrong fingerprint or format, or to a backend without a mapping,
  is refused before anything is written and is left out.
- True of the code, stated by no property: a failed attempt is claimable at once,
  so one pass may spend all attempts of a job; while backends with two templates
  run side by side, the one that cannot render a capture may spend attempts; the
  reply recorded for a key says `pending` and is replayed for ever.

### UserAdministration

A request resolves its session, then runs one transaction: its actor's row
`FOR SHARE`, the target's `FOR UPDATE`, and, when an enabled administrator would
be lost, every enabled administrator's row `FOR UPDATE`, one row per step in the
order of ids. Waits between them may close a cycle; PostgreSQL aborts one of its
members (`AbortDeadlocked`). Writes become visible at the commit; `now()` is the
transaction's start, so a transaction is stamped when it begins. The triggers on users and sessions are part of the
actions they guard.

- A request never removes its own actor, so the refusal
  `LAST_ENABLED_ADMINISTRATOR` can never be reached: it is defence in depth, and
  `GuardsAgree` says that the service's guards are as strict as the database's.
- A login that read the account before a disabling but opens its session after the
  commit leaves a live row that works again when the account is re-enabled. It is
  not what `SessionsFollowRevocation` counts, which is about sessions opened before.

### ProjectDraft and DraftEditing

A mutation is one transaction whose first statement takes the snapshot and then
waits for the project row: two steps, since the pin it joined may have moved.
Calculate is three: read the context, compute, store. A page's handlers run one
at a time, so an action is what runs until the next `await`, together with the
React effects of the rendering it causes (`AutosaveEffect`). Requests and answers
may be lost; a page may be reloaded while its requests are still on their way; a
catalog may be activated at any moment.

- Authentication failures and read-only roles end a page like `Reload`.
- A calculation's key is drawn afresh for each attempt, so that the replay in
  `storeCalculation` is never reached from the editor.
- The reducer in `frontend/lib/autosave-state.ts` is not used by the editor, and
  is not modelled.
- Two things the model shows and no document speaks of: typing into a buffered
  form overwrites `conflict` and `failed` with `unsaved`, and `performSave` sets
  `saved` although a buffered form has unsaved text.

### Calculation: from the editor to the lines

`CalculationEngine` has one action per stage of `calculateV2`, in its order; an
error thrown by a stage ends the run. Quantities are exact fractions
(`ExactDecimal`). `CalculationPreparation` is the preflight and the translation;
`DraftPersistence` is `Storable`: the rows of a draft under the constraints of the
tables; `DraftEditor` has one action per control of the page's sections, each
followed, as in the page, by the reconciliation with the catalog.
`ProjectCalculation` joins them: `operation` says whether a draft is being edited,
validated or calculated, or the engine is called by itself.

- `CalculationInput` refuses what the schema refuses, the fields of each part
  (`RuleAccepted`, `SupportConfigurationAccepted`, ...) as well as the references
  between parts, so that `EngineSpec`, one call of the engine, may be given any
  value at all as its input.
- The page gets no catalog at all when one product, template or relation does not
  keep to the schema of what is sent (`EditorCatalogAccepted`): it never starts.
- Products, routes and rules are named by code or position; texts, sources,
  versions and messages are left out; of the trace, only that each line
  reconciles with its quantity.
- When several subjects fail in one stage, which one's code is reported depends on
  an order of collections that the model leaves open.
- The scale limit of `toCanonical` is not modelled.

What the models show and no property states, since no document denies it:

- *Editor.* A catalog manual item switched to free text, given another unit and
  switched back is saved with the wrong unit: Calculate is enabled, the preflight
  refuses it (the exception in `EditorIsSound`). A blank extra quantity counts as 0
  and blocks autosave without a message at the field; so does changing the type of
  an end that a continuation joins. An anchor rule with only a `sourceSelector` is
  offered by the editor and refused by the preflight (`OfferedAsUsed`). Two routes
  may be joined at both ends: a closed ring has as many joints as pieces, not one
  less (`ClosesRing`).
- *Preflight.* What it does not look at, and the calculation then refuses:
  `Coherent` names what a catalog, `Consistent` what a draft must keep to.
- *Engine.* A support configuration without a support product gives no support
  demand and no warning; a rule-named product that is inactive or not
  orderable is left out with no warning, and a straight product sold in pieces can
  end in a plain `NEGATIVE_DOMAIN_VALUE` error: neither can be reached through the
  application, whose preflight refuses the draft first. A continuation of three
  routes is joined through its first participant.
- *Storage.* Ids are primary keys over all projects, so a document imported into a
  second project would be refused; `Earlier` products and templates stay on record.

### CatalogImport and CatalogLifecycle

`CatalogImport` is the pipeline as operators over an upload's sheets
(`CatalogueAssumption`: their cells are what the pipeline reads them as), and
`Storable`, what the tables take of the result. An attribute's row has the types of the
value columns that are filled (`product_attributes_typed_value` allows a unit beside a
number only); `source` is the document and printed page a row names, of which one row is
written with the PDF page of the first that names it (`Pages`); `fits` stands for lengths
of texts and sizes of numbers, which no check of the pipeline looks at. Two uploads have
one content hash when `SameHash` finds their rows equal. `SaveValidation` writes the
observations of any report and fills the tables for a valid one; what a constraint refuses
of either rolls it back. In `CatalogLifecycle` every
transaction locks its actor's row and its version's row first, so it is one step
unless it acts on something read without a lock: the draft loaded before it is
validated (`LoadDraft`, `SaveValidation`), a version that is not there yet
(`ImportIntoNew`, `InsertDraft`), the active versions an activation is about to
archive (`LockCandidate`, `FindPrevious`, `Activate`).

What the model shows and no property states:

- A draft replaced by other content and then by its first content again cannot be
  validated: the import row of the first content stays superseded.
- A validation that loaded A's content, while B was imported and then A again,
  revives A's superseded import row; the comparison with the active version may
  then read B's.
- Content that was approved before and is imported again can be validated but
  never approved a second time (one approval per version and hash).
- A report is stored once per content, so the differences it lists may be from
  what was active then.
- What is valid and cannot be stored is among what `Careful` excludes
  (`ValidIsStored`): texts and numbers that do not fit, pages below 1, units of weights,
  units of texts and booleans, packages and weight bases in part, missing notes, repeated
  included items, rules and templates, template rows without a unit. Such a validation is
  rolled back with its report, although the report has no errors.
  An attribute that is a text with the unit `mm`, say, passes the pipeline
  (`pipeline.ts:570`), its unit is written whatever its type (`catalog-repository.ts:284`),
  and `product_attributes_typed_value` refuses the row, although
  `docs/catalogs/catalog-import.md:24` gives a value of any type an optional unit and
  line 94 says that a validation stores its report.
- An invalid upload with an observation the table refuses gets no report either.

## 4. What TLC checks

| Run | Question | Bounds | Distinct states |
| --- | --- | --- | --- |
| `RevisionDrafts` | Does a Save that waits while the draft is edited and recalculated freeze one draft (`SavedFromOneDraft`)? Is an exact retry answered from its record although its body is stale by then (`RetryIsReplayed`)? Is every request answered, whatever crashes (`EveryRequestAnswered`)? | 2 requests, 1 key, 2 drafts, 2 calculations, 1 revision | 132,588 |
| `RevisionHistories` | Types, one revision per key, indexes and triggers met before they have to refuse (`WritesMeetConstraints`), tombstones kept and final, every event replayable, the refinement `HistoryIsKept` of `RevisionHistory` | 2 requests, 2 keys, 2 revisions, histories with at most one tombstone (`AtMostOneTombstone`) | 564,267 |
| `RevisionRoles` | Is an event's actor entitled when it commits, though roles and status change in between (`ActorCurrentAtCommit`)? | 2 requests, owner and reviewer, the reviewer's role and status change freely, 1 revision | 294,994 |
| `ExportRequests` | One export per key, promises that are current at their commit, the refinement `ExportsAreKept` of `ExportArtifacts` | 2 requests, 2 accounts, 1 key each, 2 templates, 2 artifacts, 1 attempt, no interruption | 1,123,254 |
| `ExportWorkers` | Type (attempts included), workbook of the last claim, no early failure, exclusive live claims | 2 backends, 2 artifacts, 2 attempts, passes of 2, sweeps of 1, 1 interruption | 1,265,676 |
| `ExportRecovery` | `NoJobPendingForever`, the comment at `export-repository.ts:387` | 1 backend, 2 artifacts, 2 attempts, 2 interruptions | 190,944 |
| `UserAccounts` | Does an enabled administrator remain, do the service's guards agree with the database's, do sessions end, does the audit tell what happened, is the first administrator created once, is every change authorised, is every request answered though some deadlock? | 2 requests, 2 accounts, from an empty database and from two administrators, 3 transactions | 462,207 |
| `DraftEditing` | What a page calls saved is stored, a conflict is real, an unmarked result is current, a stored calculation never goes back, and every edit settles (`EditsAreSettled`) | 2 pages, 3 documents (one invalid, one not calculable and touched by a catalog change), 2 catalogs, 2 flush attempts, 4 moves of users, network and administrators | 401,171 |
| `ProjectCalculation` | Does a result ready for approval leave anything out? Do its lines account for the demand, are supports and joints counted as the topology says, is suppression independent of order? Is the preflight enough, are selections honoured, can what is accepted be stored, is what the editor offers sound? | every draft of a set against every catalog of a set, about 600 inputs given to the engine directly, 2 edits in any order from each editor page, calculated after at most 1 | 68,600 |
| `CatalogVersions` | Is what is published what was approved, is it never touched again, can what is valid be stored? | 2 requests, 1 account, 2 versions of one scope with corrected, replaced and mistaken uploads; 58 further variants of an upload through the pipeline, 20 of them valid and 17 of these not to be stored | 313,790 |

Two runs expect a violation; each checks a sentence of a document that the code
does not keep (`findings`):

- `DraftRebase` (`StaleIsToldStale`): a calculation that waited for a replacement
  which moved the draft to another catalog is answered `RESOURCE_NOT_FOUND`, since
  PostgreSQL's re-check of the join at `project-repository.ts:556` drops the row.
  The document promises `CONFLICT_STALE_VERSION`.
- `SharedSupports` (`FirstRouteNeverWins`): two routes that share supports and state
  different manual template values count as compatible
  (`topology/support-groups.ts:26`), and the first route's values are taken. The
  document says that first-route-wins was rejected.

Why the bounds are enough for the interesting cases: two requests are the least
for a race and for a retry in parallel with its original; two drafts let the draft
move during a wait; two revisions make one of them outdated; two attempts and two
backends let a lost claim meet its successor on a last and on a not-last attempt;
a sweep of one with two exhausted jobs leaves one for the next claim; two
administrators are the fewest that can remove each other, and three transactions
let a login meet a disabling and a re-enabling. Two pages and four moves are an
edit, a loss, a catalog's activation and a second edit in any order; two edits are
the least of which one breaks what the other relied on. The limits of the code (3
attempts, 4 claims and 4 closures) are constants, and the theorems hold for all
values. All bounds (`MaxDraft`, `MaxRuns`, `MaxRevisions`, `MaxArtifacts`,
`MaxInterruptions`, `MaxTransactions`, `MaxCatalogs`, `MaxMoves`, `MaxEdits`,
`MaxCalculated`, the identifiers in `Uuids`) stand in guards; `AtMostOneTombstone` is a state constraint. In
`DraftEditor` the form of a manual item is filled in before any other edit and
saving it ends the edits. The exports have two runs for their workers, since two
backends with liveness do not fit one. Symmetry is used in safety runs only. Each
property of each run is matched by a mutant of the code (`PROJECT.json`) that
breaks it, defined beside the definition it replaces and marked `Mutant:`.

### Fairness

- `RevisionLifecycle!FairSpec`: weak fairness of beginning and committing (a live
  backend executes its next statement), strong fairness of `Serve` (PostgreSQL
  queues the waiters of a row, so a waiter is not overtaken for ever). Nobody need
  submit, edit, fail or change a role.
- `ExportJobs!FairSpec`: weak fairness of each backend's `Work` (the interval timer
  of `startWorker`; `restart: unless-stopped` in `compose.yaml`) and of the end of
  each lease (two minutes). Nobody need ask; interruptions are bounded, since a
  backend that crashes for ever before it claims renders nothing.
- `UserAdministration!FairSpec`: weak fairness of `Advance(r)`: an accepted request
  executes its next statement, or PostgreSQL's deadlock detector ends it. Nobody
  need ask.
- `DraftEditing!FairSpec`: weak fairness of `Serving` (the server handles what has
  reached it) and of each page's `Proceed` (timers fire, answers that arrived are
  handled). A lost request or answer fails at its page in the step that loses it.
  Users, losses and activations are bounded by `MaxMoves` and need not happen.

## 5. What is proved

`tlapm` checks every proof, for all values of the constants under the
`ConstantsAssumption` of the module (finite bounds are naturals, the limits are
positive, the owner is an account, the lock's "nobody" is no request), the
`ContentsAssumption` and `EditingAssumption` of the drafts (there is an editor; what
a catalog clears it clears once) and the `CatalogueAssumption`. Of what is
stored and sent to the page, `StoredAssumption` says that it has the fields its schema
demands, that a stored draft names products and templates on record (foreign keys),
and that an exact selection of a catalog has its four parts; `EditorAssumption`, that no
identifier is drawn twice and that the fields take what is entered in them (positive
lengths and counts, substrates of the list). The engine needs no
assumption. TLC evaluates the assumptions in the runs. Each module has one inductive
invariant; its conjuncts were checked with TLC before they were proved.

**RevisionLifecycleProofs.** `IInv` (`Invariance`) has

- `TypeOK`; `Locked`, the project row's holder is the one request that has written
  and not committed; `Posed`, a request is where its operation leads;
- `DraftsSeen`: a Save reads a document no older than the draft it names, and when
  it writes, that draft is current. It gives `SavedFromOneDraft`: a document
  between the named and the current version, which are equal, is that version's,
  although it was read before the wait;
- `OneRecordPerAttempt` (`AttemptsAreRecordedOnce`): a record is written only in a
  transaction that found none under the project row. A record that answers a retry
  is therefore the one its original wrote, and `RetryIsReplayed` follows
  (`RetryGetsItsAnswer`): an exact retry sees it before its body is looked at;
- `Fresh` and `SavesRecorded`: nobody has answered the attempt being written, and
  every revision has its record. They give `OneRevisionPerKey` and, with
  `OnlyTransitionsRejected`, `RejectedStaysRejected`;
- `ActorHeld`: a writing transaction holds its actor's row, so
  `ActorCurrentAtCommit`.

Of the history it adds `HInv` (`HistoryInvariance`): `EventsTellStatus` (a
revision's events and approval are those its status asks for), `EventsRecorded`
(one event, one record), `TransitionsHeld` (what was allowed when a transition
wrote still is at its commit: the latest revision stays the latest under the
project row) and `RejectionAlreadyKept`. Every step is quiet, a save or an advance
of the latest revision (`StepIsQuiet`, `Advances`); from these follow

- `EventsReplay`, `RejectionKept`;
- `WritesFit`: what is written is new to every unique index, and no trigger of
  `RevisionGuards` objects to a commit (`SaveIsAccepted`, `TransitionIsAccepted`):
  the payload is protected, the status moves by one, event and approval are of one
  actor whose role the triggers name, since the capability table gives reviewing
  to no other;
- `HistoryIsKeptAlways`, the refinement of `RevisionHistory`.

**ExportJobsProofs.** `IInv` is `TypeOK` with

- `ClaimsWellFormed`: a token is the number of the last attempt, goes with a lease,
  and only pending jobs have one;
- `JobsDrawn`: a worker with a job has drawn a token for one of its attempts. A
  token that matches is therefore the last one: `ReadyFromLastAttempt`,
  `LiveClaimIsExclusive`; and `FailedOnlyExhausted` by `ClaimsWellFormed`;
- `Decided`, `LocksExclude`: what a request decided under its locks stays true while
  it holds them, with `KeyExportsOnce`. They give `PromisesAreCurrent`, and that a
  new artifact is still the only usable one of its evidence.

`ExportsAreKeptAlways` proves the refinement: initial states map to the initial
state; `CommitRequest` to `Capture` or a stutter (`CommitCaptures`), the claims to
`GiveUp` of the swept jobs (`ClaimRefines`), an outcome to `Complete`, `GiveUp` or,
when the claim was lost, a stutter (`OutcomeRefines`), everything else to `Advance`
or a stutter.

**UserAdministrationProofs.** `IInv` is `TypeOK` with

- `RowsExclude`, a row `FOR UPDATE` is nobody else's; `ActorHeld` and `TargetHeld`:
  under its lock the actor stays an enabled administrator, and the target what it
  was found to be;
- `CountsBoth`: a request that removes an administrator finds its actor and its
  target when it counts, and they are two. So the last administrator is never
  removed (`AnAdministratorRemains`): the one who acts remains, because its row is
  shared until the commit. `GuardsAlwaysAgree` follows too;
- `Prepared`, the sessions the transaction revokes are all there are, and its
  timestamp is newer than the row's: with `SessionsFollowRevocation` itself it
  gives `SessionsAreRevoked`;
- `NameHeld` and the advisory lock in `ActorHeld` give `FirstAdministratorOnce`;
- `HistoryKept`, the audit events of an account lead from one to the next and to
  its row: `AuditIsHistory`, `ChangesAlwaysAuthorized`.

**DraftEditingProofs.** `IInv` is `TypeOK` with

- `ServerInv`: each stored version was made from the one before it (`Chained`), is
  stored once, under a key its page has drawn, and requests with one key carry one
  document, the one stored under it (`KeysAgree`);
- `NetworkInv`: a page waits for one save and one task at a time (`Lanes`), and what
  is on its way fits what the page waits for (`RequestFits`, `AnswerFits`), or is a
  request whose page no longer waits for it;
- `PageInv`, the page against the server: what it acknowledged is stored
  (`PageStored`), a conflict means that something newer is stored and the save in
  hand is not (`Missed`), a key kept for a retry is still for the version it was
  drawn for (`FailedFits`), and status, timer and save in flight belong together
  (`PageShape`).

The hard part is that a conflict stays real (`NeverRepeated`): a request that was
thought lost may arrive after its page was told of the conflict. It cannot be stored
then, since a key is only repeated for the version it was drawn for, and that has
passed. From `IInv` follow `SavedIsAlwaysStored`, `ConflictIsAlwaysReal`,
`ResultShownIsAlwaysCurrent`, `CalculationNeverTurnsBack`, and of the stored history
`NoLostUpdate` and `SavesAreStoredOnce`, for any number of pages, documents,
catalogs and lost, late or overtaken messages.

**CatalogLifecycleProofs.** `IInv` is `TypeOK` with

- `VersionsSound`: status, content hashes, tables, rule set, approval and report of
  a version belong together, status by status; `OneActive`;
- `RequestsMeant`, a request in flight names what there is;
- `CandidatesHeld`: the candidate of an activation is approved and stays so, since
  its row is locked, and what it found active is not itself. With the unique index
  of active versions it gives `PublishedWasApproved`; `PublishedContentStays`
  follows by looking at each action.

`ValidUploadsAreStored` adds the pipeline: an upload it has nothing against, and which is
careful where the pipeline does not look (`Careful`), has only rows the tables take. The
constraints that `Careful` does not name are met by a check or by the way the row is made:
keys of products and attributes, references, no item inside itself, package and weight
basis in pairs, units that must be there.

**ExactDecimalProofs.** The arithmetic, for all numbers. Euclid's remainders end at the
greatest common divisor (`GcdIsGreatest`, by well-founded descent), so `Fraction` is
the reduced fraction of the same value (`FractionFits`), and two fractions of one value
are equal (`OneFraction`, `SameRatio`: cancelling needs that a divisor coprime to one
factor divides the other). `IsRatio(x, n, d)` says which number a fraction stands for,
and through it the laws come down to those of the integers: `AddLaws` (commutative,
associative, zero), `MultiplyLaws`, `MultiplyDistributes`, `QuotientLaws`, `OrderLaws`,
`CeilIsLeast`, `RoundUp`. A sum over a finite set takes its elements in an order that
`CHOOSE` fixes; by induction over subsets (`FromSmaller`) it exists (`FoldExists`), is
positive or whole when it should be (`SumFits`), may take any element first
(`SumTakes`), and adds up over disjoint sets (`SumsAdd`), over the classes of a
partition (`SumByParts`) and under other names (`SumOfImage`). Numbers that are taken
from a capacity one after the other, each as far as it lasts, leave together the excess
of their sum over it, whatever the order (`SubtractLaws`, `UncoveredSum`).

**CalculationEngineProofs.** For inputs of any size, first completeness:

- *Partitions.* Joining what pairs connect leaves blocks that are not empty and cover
  the set (`BlocksFit`): every route is in a support group, every segment in a run.
- *Rules.* For each rule, that a stage which neither fails nor gives a blocking
  warning (`Clean`) emits a demand that is not zero: `SectionIsEmitted`,
  `JointIsEmitted`, `FittingIsEmitted`, `ConnectionIsEmitted`, `EndpointIsEmitted`,
  `AccessoryIsEmitted`, `SupportIsEmitted`, `ManualIsEmitted`. A group's supports are
  never zero (`SupportCountFits`).
- *Stages.* `EngineInv` says of every stage passed that it was not refused and that
  what it emitted and warned of is kept (`Kept`); `Verdict` that a result which is
  ready has no blocking warning (`StagesKeep`, `EngineInvariance`).

A result that is ready has passed every stage with nothing blocking, so every stage
was clean, and what each rule emits covers `Needed` (`NothingIsLeftOut`): this is
`ReadyIsComplete`, for `EngineSpec`, one call of `calculateV2` with any input.

Then accounting. `AccountInv` (`AccountInvariance`) says that at every stage there is
finitely much demand and all of it is `Sound`: its product is of the input, its policies
are those the schema takes, it is traced in full, and demand in sections is its count
times a stock length. Soundness is what makes `LinesAccountForDemand` inductive: the
rounding of a line is right only if its quantity, count and length agree, which every
rule has to establish (`SectionEventSound` ... `SupportsSound`, `ManualsSound`),
suppression to preserve (`SuppressedSound`) and adding up to preserve again
(`AggregateFits`, `AdjustedFits`). From a sound line that the builder does not refuse
follows that what is ordered covers quantity and reserve in whole sections, pieces and
packages, with less than one of each to spare (`ReservedCovers`, `OrderedCovers`); and
since the lines are the sums of the classes of the demand, by `SumByParts` they add up
to it (`LinesAddUp`). This is `LinesAlwaysAccount`, for one call of `calculateV2`.

Last, suppression. Only the rows of fitting and connection templates emit demand that
an included item may take away, and such a demand names its row and group (`Original`):
no two of them have one origin (`EligibleDiffer`), so those whose quantity is reduced
do not fall together in the set. With `UncoveredSum` what remains of a product is the
excess over what the included items deliver (`SuppressionTakesCapacity`), for every
order the engine may take. `AccountInv` carries it: `SuppressionAlwaysExact`.

Last, topology: a count is right only if what is joined is one class, and its parts are
not counted twice. `BlocksDivide` shows that joining what pairs connect gives the finest
partition that no pair leaves, whatever the order of the pairs. For supports
(`TopologyCountsSupports`) the groups are then the classes of the routes that continue
each other with one configuration (`GroupsDivide`), every extra of an end, a fitting
or a connection falls to the one group that holds it (`ExtrasFit`), and the events of a
group, spread over the categories, add up to its count (`GroupCountsAddUp`,
`SupportsAddUp`). For joints (`TopologyCountsJoints`) the runs are the classes of the
segments (`RunsDivide`), and how many there are follows from `Forest`: pairs of which
every subset can be cut apart at one of them each make one block less. The gaps within a
route always can; across continuations it needs that no ring is closed
(`PairsAtPlaces`, `PlacesCloseNoRing`). With a joint less than pieces for every run
(`JointsOfRuns`) it is `CountsAlwaysFollowTopology`.

**ProjectCalculationProofs** has the four for whoever asks (`CalculationsAreComplete`,
`CalculationsAccountForDemand`, `CalculationsSuppressExactly`,
`CalculationsFollowTopology`): the engine's invariants
hold while it runs, and there is neither result nor demand before.

Then the selections of a draft. The engine reads a support group's products of one of
its routes; `SelectionsAlwaysHonoured` says that nevertheless every route of the group
gets what it selects itself, in the number per support it asks for, and sections of its
product for its whole length. `PreparedInv` is what has to be carried along: from the
call until the answer the input is the translation of the draft (`CalculationParts`),
and what is demanded for a support group is of that group and of no other
(`AssembledInv`). With it the argument goes from the draft to the result and back:

- what a route selects, the translation keeps (`RouteTranslated`, `SupportsTranslated`,
  `AnchorsTranslated`);
- routes of one group agree in what the comparison key covers (`GroupShares`), and the
  key covers what a route selects (`KeysAgree`), so what is read of one route is what
  the other asks for;
- a group of a result that is ready is demanded one event for each of support, WSTB and
  anchor, in the product and quantity its configuration says (`GroupIsServed`,
  `ReadyGroupIsServed`), and a segment sections for its whole length
  (`ReadySegmentIsCovered`).

`ResultAlwaysFollowsDraft` puts both together, the counts and the selections.

It also proves `EditedDraftsAreSound`, for any number of edits of drafts of any size with
any catalog. `EditorInv` says that the page's draft is the reconciliation of one that
holds together, that the page shows what the catalog gives it, and that the manual form
names a product on record. A draft `DraftHolds` when it has its fields, its references
are those of the schema, and what it names is on record. The argument has four parts:

- *Edits.* Each of the controls leads from a draft that holds to one that does
  (`EditsAreEdits`): what is removed takes its references along, what is copied gets new
  identifiers, and an end that a connection joins gets the type the connection needs.
- *Reconciliation* keeps a draft holding together, and what it keeps it keeps again, so
  that once is enough (`DraftReconciled`).
- *Preflight.* A draft that the page finds complete, and that offers nothing which the
  catalog does not, meets every check of the preflight but the one of manual units
  (`PreflightPasses`).
- *Storage.* A draft that holds and that the schema accepts meets the constraints of
  every table (`HeldIsStorable`).

The third part stands under `OfferedAsUsed`, which names what the page and the preflight
read differently in a catalog: an anchor rule that names no product of the catalog, and
a WSTB row that names a product of another category.

The proofs corrected what is asked. Of
`CountsFollowTopology` (in `ResultFollowsDraft`): groups
have to be as fine as the continuations allow, and a ring may be closed by any number of
continuations (`ClosesRing`); such connections (`Joinings`) are among the inputs now.
Of `CalculationInput`: an accepted input names nothing by the value that means "none".
Of `ReadyLeavesNothingOut`: sections of one run whose
supply options differ need no joint that is made for one option only, and a manual
item that was corrected to zero needs no line. Both are now among the inputs of
`ProjectCalculation`.

**Model-checked only.**

- `EveryRequestAnswered`, `NoJobPendingForever`, `EveryRequestIsAnswered`,
  `EditsAreSettled`: liveness under fairness and ENABLED are out of the prover's
  reach.
- `PreflightIsEnough`: it takes the whole schema of the engine's input and every error of
  every rule, for the fields of any draft and catalog, and among them identifiers that
  the translation makes by joining texts, of which the provers know nothing.
- `StaleIsToldStale`, `FirstRouteNeverWins`, which the code violates.

## 6. Not modelled

- *HTTP application and server*: routing, cookies, CSRF and reply formatting have
  no state beyond what the services keep.
- *Workbook renderer*: layout; `ExportJobs` models that it refuses evidence of
  another template and may fail.
- *Backup and restore scripts, migration runner*: run by hand on a stopped system.
- *Configuration, logging, diagnostics, seeds, fixtures*: no behaviour to state.
- *Domain schemas*: formats of texts and transport envelopes; the refinements that
  relate parts of a draft or an input to each other are modelled.
- *Drafts*: a project's creation is the initial state; its key and the list of
  projects are left out.
- *Anchor overrides*: the original quantity kept beside an override
  (`project-service.ts:1483`); no rule of the engine reads it.
- *Catalog*: which lengths and sizes fit a column (`fits` is given with the row), names
  too long for the row of a version, parsing of XLSX and CSV, the differences a report lists, the queries
  products are selected by. `docs/catalogs` says selectable products need a
  verified rule; the queries do not look at verification.
- *Frontend*: navigation, read-only pages, what the revision and export panels
  show; only the requests they can send are inputs of `RevisionLifecycle`.
- Clock values: the order of timestamps and the CHECKs on them (except
  `updated_at` of accounts) are hazards without a property.
