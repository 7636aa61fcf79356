------------------------- MODULE RevisionLifecycle -------------------------
(***************************************************************************)
(* Save, Check and Approve of one project's revisions, as served by        *)
(* apps/backend/src/revision-service.ts and revision-repository.ts.        *)
(*                                                                         *)
(* Every HTTP request is a process.  It is authenticated (its actor's role *)
(* is read once and kept), then runs one or two PostgreSQL transactions at *)
(* READ COMMITTED: the mutation itself and, for Check and Approve, the     *)
(* recording of a rejection.  A transaction waits for the project row      *)
(* (FOR UPDATE), decides, writes, and commits; between its writes and its  *)
(* commit it also holds its actor's user row FOR SHARE.  Everything it     *)
(* reads under the project row is changed only under that row, so taking   *)
(* the row, deciding and writing is one step here and the commit another.  *)
(* The advisory lock on the idempotency scope is taken under the project   *)
(* row and excludes nothing more.                                          *)
(*                                                                         *)
(* Clients retry as they like: any request may be sent again, with the     *)
(* same key or another, after its reply was lost or in parallel with it.   *)
(* A calculation's fingerprint is a function of the draft it was made for, *)
(* so it is named by that draft's version; so are the catalog and rule     *)
(* pins, which change only with the draft.  A row the code identifies by a *)
(* random UUID is named by its position.                                   *)
(***************************************************************************)
EXTENDS Integers, Sequences, FiniteSets, Authorization, RevisionGuards

CONSTANTS
  Requests,        \* the requests that may be in flight together
  Actors,          \* user accounts
  Owner,           \* the account that owns the project
  InitialRole,     \* role of each account at the start
  Administered,    \* accounts whose role or status changes while requests run
  AssignableRoles, \* roles they are given
  Keys,            \* idempotency keys the clients use
  NoHolder,        \* nobody holds the project row
  MaxDraft,        \* bound: versions of the draft
  MaxRuns,         \* bound: calculations stored
  MaxRevisions     \* bound: revisions saved

ASSUME ConstantsAssumption ==
  /\ Owner \in Actors
  /\ InitialRole \in [Actors -> Roles]
  /\ Administered \subseteq Actors /\ AssignableRoles \subseteq Roles
  /\ NoHolder \notin Requests
  /\ MaxDraft \in Nat /\ MaxRuns \in Nat /\ MaxRevisions \in Nat

VARIABLES
  role, enabled,   \* users.role and users.enabled of each account
  draftVersion,    \* projects.draft_version; the draft document is written with it
  runs,            \* calculations stored so far
  calculation,     \* the one current row of calculation_drafts
  revisions,       \* revisions, by revision_number
  events,          \* succeeded revision_lifecycle_events
  approvals,       \* approvals
  tombstones,      \* rejected revision_lifecycle_events
  saveRefusals,    \* revision.save_authorization_rejected rows of project_audit_events
  idempotency,     \* idempotency_records of the three operations
  projectLock,     \* the request whose transaction holds the project row
  pc,              \* where each request is
  request,         \* what each request asks, and the role it was authenticated with
  document,        \* the draft document in the snapshot of its locking statement
  reason,          \* the rejection it is recording
  reply            \* what the client was told last

users == <<role, enabled>>
draft == <<draftVersion, runs, calculation>>
history == <<revisions, events, approvals, tombstones, saveRefusals, idempotency>>
control == <<projectLock, pc, request, document, reason, reply>>
vars == <<users, draft, history, control>>

\* Nested tuples are for UNCHANGED; a step that changes one part of a group
\* names the parts it leaves alone.
-----------------------------------------------------------------------------
Actions == {"save", "check", "approve"}
Statuses == {"calculated", "checked", "approved"}
Reasons == {"FORBIDDEN", "CONFLICT_STALE_VERSION", "INVALID_STATE_TRANSITION"}
Replies == {"none", "done", "refused", "failed"}

\* The request bodies: SaveProjectRevisionRequestV2 uses all four fields, Check
\* and Approve the latest number and the fingerprint (their draft and run are 0).
Bodies == [draft : Nat, latest : Nat, run : Nat, fingerprint : Nat]

\* Idempotency scope and key; target is 0 (the project) for Save, else a revision.
Attempts == [action : Actions, target : Nat, actor : Actors, key : Keys]

RequestRecords == [action : Actions, target : Nat, actor : Actors, key : Keys,
                   body : Bodies, role : Roles]
NoRequest == [action |-> "none"]

RevisionRows == [run : Nat, sourceDraft : Nat, project : Nat, document : Nat,
                 fingerprint : Nat, ready : BOOLEAN, author : Actors, key : Keys,
                 status : Statuses]

Attempt(q) == [action |-> q.action, target |-> q.target, actor |-> q.actor, key |-> q.key]

\* States in which a transaction has written and not yet committed.
Writing == {"saving", "advancing", "rejecting", "tombstoning"}
Places == {"idle", "begun", "queued", "recording", "refusing"} \cup Writing

TypeOK ==
  /\ role \in [Actors -> Roles] /\ enabled \in [Actors -> BOOLEAN]
  /\ draftVersion \in Nat /\ runs \in Nat
  /\ calculation \in [run : Nat, draft : Nat, ready : BOOLEAN]
  /\ revisions \in Seq(RevisionRows)
  /\ events \subseteq [revision : Nat, action : Actions, actor : Actors, role : Roles]
  /\ approvals \subseteq [revision : Nat, actor : Actors, role : Roles]
  /\ tombstones \subseteq [attempt : Attempts, body : Bodies, reason : Reasons]
  /\ saveRefusals \subseteq [actor : Actors, role : Roles]
  /\ idempotency \subseteq [attempt : Attempts, body : Bodies, revision : Nat, status : Statuses]
  /\ projectLock \in Requests \cup {NoHolder}
  /\ pc \in [Requests -> Places]
  /\ request \in [Requests -> RequestRecords \cup {NoRequest}]
  /\ document \in [Requests -> Nat]
  /\ reason \in [Requests -> Reasons \cup {"none"}]
  /\ reply \in [Requests -> Replies]

\* A new project (createProject) with its first draft, no calculation, no revision.
Init ==
  /\ role = InitialRole /\ enabled = [a \in Actors |-> TRUE]
  /\ draftVersion = 1 /\ runs = 0
  /\ calculation = [run |-> 0, draft |-> 0, ready |-> FALSE]
  /\ revisions = << >>
  /\ events = {} /\ approvals = {} /\ tombstones = {} /\ saveRefusals = {}
  /\ idempotency = {}
  /\ projectLock = NoHolder
  /\ pc = [r \in Requests |-> "idle"]
  /\ request = [r \in Requests |-> NoRequest]
  /\ document = [r \in Requests |-> 0]
  /\ reason = [r \in Requests |-> "none"]
  /\ reply = [r \in Requests |-> "none"]
-----------------------------------------------------------------------------
(* What a transaction finds under the project row.                         *)

\* The actor guard of every inserted lifecycle row: the account is enabled and
\* its role is still the one the request was authenticated with.
ActorCurrent(q) == enabled[q.actor] /\ role[q.actor] = q.role

\* Mutant: a key is never compared with the request it was first used for.
KeyReusedNever(q) == FALSE

\* replay: an exact record answers the request, any other under its key refuses it.
Answered(q) == \E rec \in idempotency : rec.attempt = Attempt(q) /\ rec.body = q.body
KeyReused(q) == \E rec \in idempotency : rec.attempt = Attempt(q) /\ rec.body # q.body

\* Mutant: tombstones are written but never looked up.
PriorRejectionsIgnored(q) == {}

\* The tombstones of this very attempt, and those another request left under it.
PriorRejections(q) == {t \in tombstones : t.attempt = Attempt(q)}
RejectionKeyReused(q) == \E t \in PriorRejections(q) : t.body # q.body

OwnsProject(q) == q.actor = Owner

\* Mutant: the draft version of the project row is not compared.
SaveAllowedAnyDraft(q) ==
  /\ q.body.latest = Len(revisions)
  /\ q.body.run = calculation.run
  /\ q.body.draft = calculation.draft
  /\ q.body.fingerprint = calculation.draft

\* saveRevision, from its draft-version test to its cross-check of the evidence.
SaveAllowed(q) ==
  /\ q.body.draft = draftVersion
  /\ q.body.latest = Len(revisions)
  /\ q.body.run = calculation.run
  /\ q.body.draft = calculation.draft
  /\ q.body.fingerprint = calculation.draft

\* Mutant: the client's number is compared with the revision's; the latest is not read.
TransitionStaleByNumber(q) ==
  q.body.latest # q.target \/ revisions[q.target].fingerprint # q.body.fingerprint

\* transition: "Only the latest non-archived revision can advance", and it must
\* carry the fingerprint the client saw.
TransitionStale(q) ==
  \/ q.body.latest # q.target
  \/ Len(revisions) # q.target
  \/ revisions[q.target].fingerprint # q.body.fingerprint

\* Mutant: a status the workflow has no transition to.
ResultingStatusArchived(action) == "archived"

ExpectedStatus(action) == IF action = "check" THEN "calculated" ELSE "checked"
ResultingStatus(action) == IF action = "check" THEN "checked" ELSE "approved"

\* Mutant: the status of the revision is not tested.
TransitionInvalidByReadiness(q) == q.action = "approve" /\ ~revisions[q.target].ready

\* approval_ready holds exactly when no warning blocks approval (result-builder.ts),
\* so the two tests of approve are one here.
TransitionInvalid(q) ==
  \/ revisions[q.target].status # ExpectedStatus(q.action)
  \/ (q.action = "approve" /\ ~revisions[q.target].ready)

RejectionReason(q) ==
  IF TransitionStale(q) THEN "CONFLICT_STALE_VERSION" ELSE "INVALID_STATE_TRANSITION"
-----------------------------------------------------------------------------
(* How a request moves between its transactions.                           *)

LockFree == projectLock = NoHolder

\* The reply leaves; whatever was not committed is rolled back.
Finish(r, answer) ==
  /\ pc' = [pc EXCEPT ![r] = "idle"]
  /\ request' = [request EXCEPT ![r] = NoRequest]
  /\ document' = [document EXCEPT ![r] = 0]
  /\ reason' = [reason EXCEPT ![r] = "none"]
  /\ reply' = [reply EXCEPT ![r] = answer]

\* The transaction writes: it now holds the project row and its actor's row.
StartWriting(r, place, why) ==
  /\ LockFree
  /\ projectLock' = r
  /\ pc' = [pc EXCEPT ![r] = place]
  /\ reason' = [reason EXCEPT ![r] = why]
  /\ UNCHANGED <<users, draft, history, request, document, reply>>

\* The first transaction ended in a stale or invalid error; the service opens
\* another one to record it (recordTransitionRejection).
ContinueRecording(r, why) ==
  /\ pc' = [pc EXCEPT ![r] = "recording"]
  /\ reason' = [reason EXCEPT ![r] = why]
  /\ UNCHANGED <<request, document, reply>>
-----------------------------------------------------------------------------
(* Requests arrive.                                                        *)

\* The bodies a client can put together: it names versions, runs and numbers
\* that exist, though any of them may be out of date by the time it is served.
SaveBodies == [draft : 1..draftVersion, latest : 0..Len(revisions),
               run : 1..runs, fingerprint : 1..draftVersion]
TransitionBodies == [draft : {0}, latest : 1..Len(revisions), run : {0},
                     fingerprint : 1..draftVersion]

\* The service tests the capability of the authenticated role before anything
\* else; without it the request only leaves evidence of the refusal.
EntryPoint(q) ==
  CASE HasCapability(q.role, q.action) /\ q.action = "save" -> "begun"
    [] HasCapability(q.role, q.action) /\ q.action # "save" -> "queued"
    [] ~HasCapability(q.role, q.action) /\ q.action = "save" -> "refusing"
    [] OTHER -> "recording"

Submit(r, q) ==
  /\ pc[r] = "idle"
  /\ enabled[q.actor] /\ q.role = role[q.actor]
  /\ pc' = [pc EXCEPT ![r] = EntryPoint(q)]
  /\ request' = [request EXCEPT ![r] = q]
  /\ reason' = [reason EXCEPT ![r] = IF EntryPoint(q) = "recording" THEN "FORBIDDEN" ELSE "none"]
  /\ reply' = [reply EXCEPT ![r] = "none"]
  /\ UNCHANGED <<users, draft, history, projectLock, document>>

SubmitSave(r) ==
  \E actor \in Actors, key \in Keys, body \in SaveBodies :
    /\ body.latest < MaxRevisions
    /\ Submit(r, [action |-> "save", target |-> 0, actor |-> actor, key |-> key,
                  body |-> body, role |-> role[actor]])

SubmitTransition(r) ==
  \E action \in {"check", "approve"}, target \in 1..Len(revisions),
     actor \in Actors, key \in Keys, body \in TransitionBodies :
    Submit(r, [action |-> action, target |-> target, actor |-> actor, key |-> key,
               body |-> body, role |-> role[actor]])
-----------------------------------------------------------------------------
(* Save: saveRevision.                                                     *)

\* lockWritableProject joins the draft document to the row it waits for.  After
\* the wait PostgreSQL re-reads the locked project row only: the document is
\* the one of this moment.
BeginSave(r) ==
  /\ pc[r] = "begun"
  /\ pc' = [pc EXCEPT ![r] = "queued"]
  /\ document' = [document EXCEPT ![r] = draftVersion]
  /\ UNCHANGED <<users, draft, history, projectLock, request, reason, reply>>

Served(r, action) == pc[r] = "queued" /\ request[r].action = action /\ LockFree

ReachesProject(q) == MayMutateProject(q.role, OwnsProject(q))

\* Mutant: staleness is tested before the replay record is read.
RefuseSaveBeforeReplay(r) ==
  /\ Served(r, "save")
  /\ ~ReachesProject(request[r]) \/ KeyReused(request[r]) \/ ~SaveAllowed(request[r])
  /\ Finish(r, "refused")
  /\ UNCHANGED <<users, draft, history, projectLock>>

\* Not found, key conflict, stale, no such calculation: rolled back, nothing recorded.
RefuseSave(r) ==
  LET q == request[r] IN
  /\ Served(r, "save")
  /\ \/ ~ReachesProject(q)
     \/ KeyReused(q)
     \/ ~Answered(q) /\ ~SaveAllowed(q)
  /\ Finish(r, "refused")
  /\ UNCHANGED <<users, draft, history, projectLock>>

ReplaySave(r) ==
  /\ Served(r, "save")
  /\ ReachesProject(request[r]) /\ Answered(request[r])
  /\ Finish(r, "done")
  /\ UNCHANGED <<users, draft, history, projectLock>>

FreshSave(q) == ReachesProject(q) /\ ~Answered(q) /\ ~KeyReused(q) /\ SaveAllowed(q)

WriteSave(r) ==
  /\ Served(r, "save")
  /\ FreshSave(request[r]) /\ ActorCurrent(request[r])
  /\ StartWriting(r, "saving", "none")

\* The row frozen by the save: the calculation's input and result, the project
\* row as locked and the draft document as joined to it.
SavedRow(r) ==
  LET q == request[r] IN
  [run |-> calculation.run, sourceDraft |-> q.body.draft, project |-> draftVersion,
   document |-> document[r], fingerprint |-> calculation.draft,
   ready |-> calculation.ready, author |-> q.actor, key |-> q.key, status |-> "calculated"]

\* Mutant: the replay record is forgotten.
SuccessUnrecorded(q, number, status) ==
  /\ events' = events \cup {[revision |-> number, action |-> q.action,
                             actor |-> q.actor, role |-> q.role]}
  /\ UNCHANGED idempotency

Success(q, number, status) ==
  /\ events' = events \cup {[revision |-> number, action |-> q.action,
                             actor |-> q.actor, role |-> q.role]}
  /\ idempotency' = idempotency \cup {[attempt |-> Attempt(q), body |-> q.body,
                                       revision |-> number, status |-> status]}

CommitSave(r) ==
  /\ pc[r] = "saving"
  /\ revisions' = Append(revisions, SavedRow(r))
  /\ Success(request[r], Len(revisions) + 1, "calculated")
  /\ projectLock' = NoHolder
  /\ Finish(r, "done")
  /\ UNCHANGED <<users, draft, approvals, tombstones, saveRefusals>>

\* recordRejectedSaveAttempt: the project audit row of a Save without capability.
\* Its foreign key waits for the project row.
RecordSaveRefusal(r) ==
  LET q == request[r] IN
  /\ pc[r] = "refusing" /\ LockFree
  /\ IF MayReadProject(q.role, OwnsProject(q)) /\ ActorCurrent(q)
       THEN saveRefusals' = saveRefusals \cup {[actor |-> q.actor, role |-> q.role]}
       ELSE UNCHANGED saveRefusals
  /\ Finish(r, IF ActorCurrent(q) THEN "refused" ELSE "failed")
  /\ UNCHANGED <<users, draft, revisions, events, approvals, tombstones, idempotency, projectLock>>
-----------------------------------------------------------------------------
(* Check and Approve: transition.                                          *)

ServedTransition(r) == Served(r, "check") \/ Served(r, "approve")

ReplayTransition(r) ==
  /\ ServedTransition(r)
  /\ Answered(request[r])
  /\ Finish(r, "done")
  /\ UNCHANGED <<users, draft, history, projectLock>>

RefuseKeyReuse(r) ==
  LET q == request[r] IN
  /\ ServedTransition(r)
  /\ KeyReused(q) \/ (~Answered(q) /\ RejectionKeyReused(q))
  /\ Finish(r, "refused")
  /\ UNCHANGED <<users, draft, history, projectLock>>

\* The tombstone of the same request answers it, whatever has happened since.
RepeatRejection(r) ==
  LET q == request[r] IN
  /\ ServedTransition(r)
  /\ ~Answered(q) /\ ~KeyReused(q)
  /\ \E t \in PriorRejections(q) :
       /\ t.body = q.body
       /\ IF t.reason = "FORBIDDEN" THEN Finish(r, "refused") ELSE ContinueRecording(r, t.reason)
  /\ UNCHANGED <<users, draft, history, projectLock>>

FreshTransition(q) == ~Answered(q) /\ ~KeyReused(q) /\ PriorRejections(q) = {}
TransitionAllowed(q) == ~TransitionStale(q) /\ ~TransitionInvalid(q)

WriteRejection(r) ==
  LET q == request[r] IN
  /\ ServedTransition(r)
  /\ FreshTransition(q) /\ ~TransitionAllowed(q) /\ ActorCurrent(q)
  /\ StartWriting(r, "rejecting", RejectionReason(q))

WriteTransition(r) ==
  LET q == request[r] IN
  /\ ServedTransition(r)
  /\ FreshTransition(q) /\ TransitionAllowed(q) /\ ActorCurrent(q)
  /\ StartWriting(r, "advancing", "none")

CommitTransition(r) ==
  LET q == request[r] IN
  /\ pc[r] = "advancing"
  /\ revisions' = [revisions EXCEPT ![q.target].status = ResultingStatus(q.action)]
  /\ approvals' = IF q.action = "approve"
                    THEN approvals \cup {[revision |-> q.target, actor |-> q.actor, role |-> q.role]}
                    ELSE approvals
  /\ Success(q, q.target, ResultingStatus(q.action))
  /\ projectLock' = NoHolder
  /\ Finish(r, "done")
  /\ UNCHANGED <<users, draft, tombstones, saveRefusals>>

\* Mutant: the rejecting transaction writes nothing.
AddTombstoneNever(r) == UNCHANGED history

\* insertRejectedAttempt
AddTombstone(r) ==
  /\ tombstones' = tombstones \cup {[attempt |-> Attempt(request[r]),
                                     body |-> request[r].body, reason |-> reason[r]]}
  /\ UNCHANGED <<revisions, events, approvals, saveRefusals, idempotency>>

\* Mutant: the transaction is left open on the error path.
CommitRejectionLeavingLock(r) ==
  /\ pc[r] = "rejecting"
  /\ AddTombstone(r)
  /\ ContinueRecording(r, reason[r])
  /\ UNCHANGED <<users, draft, projectLock>>

\* The rejecting transaction commits its tombstone, then throws.
CommitRejection(r) ==
  /\ pc[r] = "rejecting"
  /\ AddTombstone(r)
  /\ projectLock' = NoHolder
  /\ ContinueRecording(r, reason[r])
  /\ UNCHANGED <<users, draft>>
-----------------------------------------------------------------------------
(* Recording a rejection: recordRejectedAttempt.                           *)

Visible(q) == MayReadProject(q.role, OwnsProject(q))

\* Not visible to the actor, or recorded already.
SkipRecording(r) ==
  LET q == request[r] IN
  /\ pc[r] = "recording"
  /\ ~Visible(q) \/ (LockFree /\ PriorRejections(q) # {})
  /\ Finish(r, "refused")
  /\ UNCHANGED <<users, draft, history, projectLock>>

WriteTombstone(r) ==
  LET q == request[r] IN
  /\ pc[r] = "recording"
  /\ Visible(q) /\ PriorRejections(q) = {} /\ ActorCurrent(q)
  /\ StartWriting(r, "tombstoning", reason[r])

CommitTombstone(r) ==
  /\ pc[r] = "tombstoning"
  /\ AddTombstone(r)
  /\ projectLock' = NoHolder
  /\ Finish(r, "refused")
  /\ UNCHANGED <<users, draft>>
-----------------------------------------------------------------------------
(* Failures: an error of the database rolls the transaction back and       *)
(* reaches the client as a 500, or as no reply at all.                     *)

\* guard_revision_lifecycle_actor raises: the actor's role or status changed
\* after the request was authenticated.
AbortByActorGuard(r) ==
  LET q == request[r] IN
  /\ \/ Served(r, "save") /\ FreshSave(q)
     \/ ServedTransition(r) /\ FreshTransition(q)
     \/ pc[r] = "recording" /\ LockFree /\ Visible(q) /\ PriorRejections(q) = {}
  /\ ~ActorCurrent(q)
  /\ Finish(r, "failed")
  /\ UNCHANGED <<users, draft, history, projectLock>>

\* The backend process or its connection dies at any point.
Fail(r) ==
  /\ pc[r] # "idle"
  /\ projectLock' = IF projectLock = r THEN NoHolder ELSE projectLock
  /\ Finish(r, "failed")
  /\ UNCHANGED <<users, draft, history>>
-----------------------------------------------------------------------------
(* What the other operations do to the same rows.                          *)

\* replaceProject: a new draft version with its document, under the project row.
ReplaceDraft ==
  /\ LockFree /\ draftVersion < MaxDraft
  /\ draftVersion' = draftVersion + 1
  /\ UNCHANGED <<users, runs, calculation, history, control>>

\* storeCalculation: replaces the project's transient run, under the project row,
\* only while the draft it was computed for is still current.
StoreCalculation ==
  /\ LockFree /\ runs < MaxRuns
  /\ runs' = runs + 1
  /\ \E ready \in BOOLEAN :
       calculation' = [run |-> runs + 1, draft |-> draftVersion, ready |-> ready]
  /\ UNCHANGED <<users, draftVersion, history, control>>

\* Mutant: the guard reads the actor's row without locking it.
UserRowUnlocked(a) == FALSE

\* The actor's row is held FOR SHARE from the insertion of a lifecycle row to
\* the end of its transaction.
UserRowLocked(a) == \E r \in Requests : pc[r] \in Writing /\ request[r].actor = a

\* setUserRole and setUserEnabled of pg-store.ts.
AssignRole(a, newRole) ==
  /\ ~UserRowLocked(a) /\ newRole # role[a]
  /\ role' = [role EXCEPT ![a] = newRole]
  /\ UNCHANGED <<enabled, draft, history, control>>

SetEnabled(a) ==
  /\ ~UserRowLocked(a)
  /\ enabled' = [enabled EXCEPT ![a] = ~enabled[a]]
  /\ UNCHANGED <<role, draft, history, control>>
-----------------------------------------------------------------------------
\* A step taken once the project row is free (a queued transaction's turn).
Serve(r) ==
  \/ RefuseSave(r) \/ ReplaySave(r) \/ WriteSave(r) \/ RecordSaveRefusal(r)
  \/ ReplayTransition(r) \/ RefuseKeyReuse(r) \/ RepeatRejection(r)
  \/ WriteRejection(r) \/ WriteTransition(r)
  \/ SkipRecording(r) \/ WriteTombstone(r) \/ AbortByActorGuard(r)

Commit(r) == CommitSave(r) \/ CommitTransition(r) \/ CommitRejection(r) \/ CommitTombstone(r)

Environment ==
  \/ ReplaceDraft \/ StoreCalculation
  \/ \E a \in Administered : SetEnabled(a) \/ \E newRole \in AssignableRoles : AssignRole(a, newRole)

Next ==
  \/ \E r \in Requests :
       SubmitSave(r) \/ SubmitTransition(r) \/ BeginSave(r) \/ Serve(r) \/ Commit(r) \/ Fail(r)
  \/ Environment

Spec == Init /\ [][Next]_vars

\* A live backend keeps executing its statements (weak fairness); PostgreSQL
\* queues the waiters of a row lock, so a waiting transaction is not overtaken
\* for ever (strong fairness).  Nobody need ever submit, edit or fail.
FairSpec ==
  /\ Spec
  /\ \A r \in Requests : WF_vars(BeginSave(r)) /\ SF_vars(Serve(r)) /\ WF_vars(Commit(r))
-----------------------------------------------------------------------------
(* Properties.                                                             *)

\* A saved revision freezes one draft: the draft version it names, the project
\* row, the draft document read before the lock wait, and the calculation all
\* belong to the same version.
SavedFromOneDraft ==
  \A i \in DOMAIN revisions :
    LET row == revisions[i] IN
    row.project = row.sourceDraft /\ row.document = row.sourceDraft
      /\ row.fingerprint = row.sourceDraft

\* However often and with whatever bodies a client reuses an idempotency key,
\* it creates at most one revision of the project.
OneRevisionPerKey ==
  \A i, j \in DOMAIN revisions :
    revisions[i].author = revisions[j].author /\ revisions[i].key = revisions[j].key => i = j

\* Every successful lifecycle event has exactly one idempotency record, of the
\* actor that caused it, so that the request that caused it can be replayed;
\* and no record promises an event that is not there.
EventsAreReplayable ==
  /\ \A e \in events :
       Cardinality({rec \in idempotency : /\ rec.attempt.action = e.action
                                          /\ rec.revision = e.revision}) = 1
  /\ \A rec \in idempotency : \E e \in events :
       /\ e.action = rec.attempt.action /\ e.revision = rec.revision
       /\ e.actor = rec.attempt.actor

\* The rows the service is about to insert are new to every unique index: the
\* idempotency key, one success per revision and action, one approval per revision.
RowsAreNew ==
  \A r \in Requests : pc[r] \in {"saving", "advancing"} =>
    LET q == request[r]
        number == IF q.action = "save" THEN Len(revisions) + 1 ELSE q.target IN
    /\ ~\E rec \in idempotency : rec.attempt = Attempt(q)
    /\ ~\E e \in events : e.revision = number /\ e.action = q.action
    /\ q.action = "approve" => ~\E a \in approvals : a.revision = number

\* No trigger on revisions, revision_lifecycle_events or approvals objects to what a
\* step commits.
TriggersAccept ==
  /\ \A i \in DOMAIN revisions :
       i \in DOMAIN revisions' /\ PayloadProtected(revisions[i], revisions'[i])
  /\ \A i \in DOMAIN revisions' \ DOMAIN revisions : BeginsCalculated(revisions'[i])
  /\ \A i \in DOMAIN revisions' :
       i \notin DOMAIN revisions \/ revisions'[i] # revisions[i] =>
         Evidenced(i, revisions'[i], events', approvals')
  /\ \A e \in events' \ events :
       /\ e.revision \in DOMAIN revisions' /\ e.role \in LifecycleRoles(e.action)
       /\ EventFits(e, revisions'[e.revision], approvals')
  /\ \A a \in approvals' \ approvals :
       /\ a.revision \in DOMAIN revisions /\ ApprovalAllowed(a, revisions[a.revision])
       /\ ApprovalEvidenced(a, revisions'[a.revision], events')

\* What the service commits satisfies every unique index and every trigger of the
\* schema (RevisionGuards): the decisions it takes under the project row are as
\* strict as the database's own, which never has to refuse an advance.  (The one
\* guard that may is the actor guard, above.)
WritesMeetConstraints == [][RowsAreNew /\ TriggersAccept]_history

\* By the time the service opens the second transaction for a stale or invalid
\* transition, the first has already committed the tombstone: a crash between
\* the two loses nothing, and the second adds nothing.
RejectionAlreadyKept ==
  \A r \in Requests :
    pc[r] = "recording" /\ reason[r] # "FORBIDDEN" => PriorRejections(request[r]) # {}

\* An attempt whose rejection was committed never succeeds later, even if the
\* revision has since become ready for it and the request is retried.
RejectedStaysRejected ==
  [][\A t \in tombstones :
       (~\E rec \in idempotency : rec.attempt = t.attempt)
         => ~\E rec \in idempotency' : rec.attempt = t.attempt]_vars

\* An event is committed only while its actor is enabled, still has the role
\* recorded in the event, and that role has the capability.
ActorCurrentAtCommit ==
  [][\A e \in events' \ events :
       enabled[e.actor] /\ role[e.actor] = e.role /\ HasCapability(e.role, e.action)]_vars

\* An exact retry of a request that succeeded is never refused while its actor
\* keeps the capability (and, for Save, the reach) that the request needs: it is
\* answered from the record, or the backend fails.
RetryIsReplayed ==
  [][\A r \in Requests :
       LET q == request[r] IN
       pc[r] = "queued" /\ pc'[r] # "queued" /\ Answered(q) /\ (q.action = "save" => ReachesProject(q))
         => pc'[r] = "idle" /\ reply'[r] \in {"done", "failed"}]_vars

\* Every request in flight is eventually answered or its backend fails.
EveryRequestAnswered == \A r \in Requests : pc[r] # "idle" ~> pc[r] = "idle"

(***************************************************************************)
(* The inductive invariant from which RevisionLifecycleProofs derives the  *)
(* properties above.                                                       *)
(***************************************************************************)

\* At most one transaction has written and not committed: the project row's holder.
Locked == \A r \in Requests : pc[r] \in Writing <=> projectLock = r

\* A request is where its operation leads it, with the reason it will record.
Posed ==
  \A r \in Requests :
    /\ pc[r] # "idle" => request[r] \in RequestRecords
    /\ pc[r] \in {"begun", "refusing", "saving"} => request[r].action = "save"
    /\ pc[r] \in {"advancing", "rejecting", "recording", "tombstoning"} => request[r].action # "save"
    /\ pc[r] \in {"rejecting", "recording", "tombstoning"} => reason[r] \in Reasons
    /\ pc[r] # "idle" /\ request[r].action = "save" => request[r].target = 0

\* A Save names a draft that was there when its client sent it, and reads a
\* document no older; once it writes, they are the current ones.
DraftsSeen ==
  \A r \in Requests :
    pc[r] \in {"begun", "queued", "saving"} /\ request[r].action = "save" =>
      /\ request[r].body.draft <= draftVersion
      /\ pc[r] # "begun" => request[r].body.draft <= document[r] /\ document[r] <= draftVersion
      /\ pc[r] = "saving" => /\ request[r].body.draft = draftVersion
                             /\ calculation.draft = draftVersion

\* Nobody answered the attempt of a transaction that has begun to write a success.
Fresh ==
  \A r \in Requests :
    /\ pc[r] \in {"saving", "advancing"} => \A rec \in idempotency : rec.attempt # Attempt(request[r])
    /\ pc[r] = "advancing" => PriorRejections(request[r]) = {}

\* A Save leaves no tombstone.
OnlyTransitionsRejected == \A t \in tombstones : t.attempt.action # "save"

\* A writing transaction holds its actor's row; it got there with the capability.
ActorHeld ==
  \A r \in Requests :
    /\ pc[r] \in Writing => ActorCurrent(request[r])
    /\ pc[r] \in {"begun", "queued", "saving", "advancing"} =>
         HasCapability(request[r].role, request[r].action)

\* Every revision has the idempotency record of the Save that made it.
SavesRecorded ==
  \A i \in DOMAIN revisions : \E rec \in idempotency :
    rec.attempt = [action |-> "save", target |-> 0, actor |-> revisions[i].author,
                   key |-> revisions[i].key]

IInv ==
  /\ TypeOK /\ Locked /\ Posed /\ DraftsSeen /\ Fresh /\ OnlyTransitionsRejected
  /\ ActorHeld /\ SavesRecorded /\ SavedFromOneDraft /\ OneRevisionPerKey

\* The revision history is the one RevisionHistory promises.
Abstract == INSTANCE RevisionHistory WITH
  draft <- draftVersion,
  history <- [i \in 1..Len(revisions) |->
                [source |-> revisions[i].sourceDraft, document |-> revisions[i].document,
                 calculated |-> revisions[i].fingerprint, ready |-> revisions[i].ready,
                 status |-> revisions[i].status]]
HistoryIsKept == Abstract!Spec
=============================================================================
