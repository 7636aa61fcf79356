---------------------- MODULE RevisionLifecycleProofs ----------------------
(***************************************************************************)
(* Theorems about RevisionLifecycle, for every number of requests,         *)
(* accounts, keys, drafts, runs and revisions; and about its history: that *)
(* events, replay records and revisions belong together, and that it is    *)
(* the one RevisionHistory promises.                                       *)
(***************************************************************************)
EXTENDS RevisionLifecycle, SequenceTheorems, FiniteSetTheorems, TLAPS

\* A step that ends request r without touching the database, from a state in
\* which it holds nothing.
QuietFinish(r, answer) ==
  /\ pc[r] \notin Writing
  /\ Finish(r, answer)
  /\ UNCHANGED <<users, draft, history, projectLock>>

LEMMA RequestTypes ==
  /\ \A q \in RequestRecords :
       /\ q.action \in Actions /\ q.target \in Nat /\ q.actor \in Actors /\ q.key \in Keys
       /\ q.body \in Bodies /\ q.role \in Roles
       /\ Attempt(q) \in Attempts
  /\ \A b \in Bodies : b.draft \in Nat /\ b.latest \in Nat /\ b.run \in Nat /\ b.fingerprint \in Nat
  /\ NoRequest \notin RequestRecords
BY DEF RequestRecords, Attempts, Attempt, Bodies, NoRequest

LEMMA PlaceTypes ==
  /\ Writing \subseteq Places /\ "idle" \in Places \ Writing
  /\ {"begun", "queued", "recording", "refusing"} \subseteq Places \ Writing
BY DEF Writing, Places

-----------------------------------------------------------------------------
(* The actions that end a request quietly.                                 *)

LEMMA QuietActions ==
  ASSUME NEW r \in Requests,
         \/ RefuseSave(r) \/ ReplaySave(r) \/ ReplayTransition(r) \/ RefuseKeyReuse(r)
         \/ SkipRecording(r) \/ AbortByActorGuard(r)
  PROVE  \E answer \in Replies : QuietFinish(r, answer)
BY DEF RefuseSave, ReplaySave, ReplayTransition, RefuseKeyReuse, SkipRecording,
       AbortByActorGuard, QuietFinish, Served, ServedTransition, Replies, Writing

LEMMA QuietFinishKeeps ==
  ASSUME IInv, NEW r \in Requests, NEW answer \in Replies, QuietFinish(r, answer)
  PROVE  IInv'
<1> USE DEF QuietFinish, Finish, users, draft, history
<1>1. TypeOK'
  BY PlaceTypes DEF IInv, TypeOK
<1>2. Locked'
  BY PlaceTypes DEF IInv, TypeOK, Locked
<1>3. Posed'
  BY DEF IInv, TypeOK, Posed
<1>4. DraftsSeen'
  BY DEF IInv, TypeOK, DraftsSeen
<1>5. Fresh'
  BY DEF IInv, TypeOK, Fresh, PriorRejections, Attempt
<1>6. ActorHeld'
  BY PlaceTypes DEF IInv, TypeOK, ActorHeld, ActorCurrent, HasCapability
<1>7. OnlyTransitionsRejected' /\ SavesRecorded' /\ SavedFromOneDraft' /\ OneRevisionPerKey'
  BY DEF IInv, OnlyTransitionsRejected, SavesRecorded, SavedFromOneDraft, OneRevisionPerKey
<1> QED
  BY <1>1, <1>2, <1>3, <1>4, <1>5, <1>6, <1>7 DEF IInv

LEMMA InitIInv == Init => IInv
BY ConstantsAssumption, PlaceTypes
   DEF Init, IInv, TypeOK, Replies, Locked, Posed, DraftsSeen, Fresh, OnlyTransitionsRejected,
       ActorHeld, SavesRecorded, SavedFromOneDraft, OneRevisionPerKey
-----------------------------------------------------------------------------
(* Requests arrive and wait.                                               *)

LEMMA SubmitKeeps ==
  ASSUME IInv, NEW r \in Requests, NEW q \in RequestRecords, Submit(r, q),
         q.action = "save" => q.target = 0 /\ q.body.draft <= draftVersion
  PROVE  IInv'
<1> USE DEF Submit, users, draft, history
<1> DEFINE place == EntryPoint(q)
<1>1. /\ place \in {"begun", "queued", "refusing", "recording"}
      /\ place \in {"begun", "refusing"} => q.action = "save"
      /\ place \in {"queued", "recording"} => q.action # "save"
      /\ place \in {"begun", "queued"} => HasCapability(q.role, q.action)
  BY DEF EntryPoint
<1> HIDE DEF place
<1>2. TypeOK'
  BY <1>1, PlaceTypes DEF IInv, TypeOK, place, Reasons, Replies
<1>3. Locked'
  BY <1>1, PlaceTypes DEF IInv, TypeOK, Locked, place
<1>4. Posed'
  BY <1>1, RequestTypes DEF IInv, TypeOK, Posed, place, Reasons
<1>5. DraftsSeen'
  BY <1>1 DEF IInv, TypeOK, DraftsSeen, place
<1>6. Fresh'
  BY <1>1 DEF IInv, TypeOK, Fresh, PriorRejections, Attempt, place
<1>7. ActorHeld'
  BY <1>1, PlaceTypes DEF IInv, TypeOK, ActorHeld, ActorCurrent, HasCapability, place
<1>8. OnlyTransitionsRejected' /\ SavesRecorded' /\ SavedFromOneDraft' /\ OneRevisionPerKey'
  BY DEF IInv, OnlyTransitionsRejected, SavesRecorded, SavedFromOneDraft, OneRevisionPerKey
<1> QED
  BY <1>2, <1>3, <1>4, <1>5, <1>6, <1>7, <1>8 DEF IInv

LEMMA SubmitSaveKeeps ==
  ASSUME IInv, NEW r \in Requests, SubmitSave(r)
  PROVE  IInv'
<1>1. PICK actor \in Actors, key \in Keys, body \in SaveBodies :
        Submit(r, [action |-> "save", target |-> 0, actor |-> actor, key |-> key,
                   body |-> body, role |-> role[actor]])
  BY DEF SubmitSave
<1> DEFINE q == [action |-> "save", target |-> 0, actor |-> actor, key |-> key,
                 body |-> body, role |-> role[actor]]
<1>2. body \in Bodies /\ body.draft <= draftVersion
  BY DEF SaveBodies, Bodies, IInv, TypeOK
<1>3. role[actor] \in Roles
  BY DEF IInv, TypeOK
<1>4. q \in RequestRecords
  BY <1>2, <1>3 DEF RequestRecords, Actions
<1> QED
  BY <1>1, <1>2, <1>4, SubmitKeeps

LEMMA SubmitTransitionKeeps ==
  ASSUME IInv, NEW r \in Requests, SubmitTransition(r)
  PROVE  IInv'
<1>1. PICK action \in {"check", "approve"}, target \in 1..Len(revisions),
           actor \in Actors, key \in Keys, body \in TransitionBodies :
        Submit(r, [action |-> action, target |-> target, actor |-> actor, key |-> key,
                   body |-> body, role |-> role[actor]])
  BY DEF SubmitTransition
<1> DEFINE q == [action |-> action, target |-> target, actor |-> actor, key |-> key,
                 body |-> body, role |-> role[actor]]
<1>2. body \in Bodies
  BY DEF TransitionBodies, Bodies, IInv, TypeOK
<1>3. role[actor] \in Roles
  BY DEF IInv, TypeOK
<1>4. q \in RequestRecords
  BY <1>2, <1>3 DEF RequestRecords, Actions
<1> QED
  BY <1>1, <1>4, SubmitKeeps

\* The document is read before the wait and is at least as new as the draft asked for.
LEMMA BeginSaveKeeps ==
  ASSUME IInv, NEW r \in Requests, BeginSave(r)
  PROVE  IInv'
<1> USE DEF BeginSave, users, draft, history
<1>1. TypeOK'
  BY PlaceTypes DEF IInv, TypeOK
<1>2. Locked'
  BY PlaceTypes DEF IInv, TypeOK, Locked
<1>3. Posed'
  BY DEF IInv, TypeOK, Posed
<1>4. DraftsSeen'
  BY DEF IInv, TypeOK, DraftsSeen
<1>5. Fresh'
  BY DEF IInv, TypeOK, Fresh, PriorRejections, Attempt
<1>6. ActorHeld'
  BY PlaceTypes DEF IInv, TypeOK, ActorHeld, ActorCurrent, HasCapability
<1>7. OnlyTransitionsRejected' /\ SavesRecorded' /\ SavedFromOneDraft' /\ OneRevisionPerKey'
  BY DEF IInv, OnlyTransitionsRejected, SavesRecorded, SavedFromOneDraft, OneRevisionPerKey
<1> QED
  BY <1>1, <1>2, <1>3, <1>4, <1>5, <1>6, <1>7 DEF IInv

\* A repeated rejection either ends the request or goes on to be recorded.
LEMMA RepeatRejectionKeeps ==
  ASSUME IInv, NEW r \in Requests, RepeatRejection(r)
  PROVE  IInv'
<1>1. PICK t \in PriorRejections(request[r]) :
        IF t.reason = "FORBIDDEN" THEN Finish(r, "refused") ELSE ContinueRecording(r, t.reason)
  BY DEF RepeatRejection
<1>2. /\ pc[r] = "queued" /\ request[r].action # "save"
      /\ UNCHANGED <<users, draft, history, projectLock>>
  BY DEF RepeatRejection, ServedTransition, Served
<1>3. CASE t.reason = "FORBIDDEN"
  BY <1>1, <1>2, <1>3, QuietFinishKeeps DEF QuietFinish, Replies, Writing
<1>4. CASE t.reason # "FORBIDDEN"
  <2>1. ContinueRecording(r, t.reason) /\ t.reason \in Reasons
    BY <1>1, <1>4 DEF IInv, TypeOK, PriorRejections
  <2> USE <1>2, <2>1 DEF ContinueRecording, users, draft, history
  <2>2. TypeOK'
    BY PlaceTypes DEF IInv, TypeOK
  <2>3. Locked'
    BY PlaceTypes DEF IInv, TypeOK, Locked
  <2>4. Posed'
    BY DEF IInv, TypeOK, Posed
  <2>5. DraftsSeen' /\ Fresh'
    BY DEF IInv, TypeOK, DraftsSeen, Fresh, PriorRejections, Attempt
  <2>6. ActorHeld'
    BY PlaceTypes DEF IInv, TypeOK, ActorHeld, ActorCurrent, HasCapability
  <2>7. OnlyTransitionsRejected' /\ SavesRecorded' /\ SavedFromOneDraft' /\ OneRevisionPerKey'
    BY DEF IInv, OnlyTransitionsRejected, SavesRecorded, SavedFromOneDraft, OneRevisionPerKey
  <2> QED
    BY <2>2, <2>3, <2>4, <2>5, <2>6, <2>7 DEF IInv
<1> QED
  BY <1>3, <1>4

-----------------------------------------------------------------------------
(* A transaction takes the project row and writes.                         *)

LEMMA StartWritingKeeps ==
  ASSUME IInv, NEW r \in Requests, NEW place \in Writing, NEW why \in Reasons \cup {"none"},
         StartWriting(r, place, why),
         pc[r] # "idle", ActorCurrent(request[r]),
         place = "saving" <=> request[r].action = "save",
         place \in {"rejecting", "tombstoning"} => why \in Reasons,
         place = "saving" => FreshSave(request[r]),
         place = "advancing" => FreshTransition(request[r]),
         place \in {"saving", "advancing"} => pc[r] = "queued"
  PROVE  IInv'
<1> USE DEF StartWriting, users, draft, history
<1>1. TypeOK'
  BY PlaceTypes DEF IInv, TypeOK
<1>2. Locked'
  BY ConstantsAssumption DEF IInv, TypeOK, Locked, LockFree
<1>3. Posed'
  BY DEF IInv, TypeOK, Posed, Writing
<1>4. DraftsSeen'
  <2>1. ASSUME NEW s \in Requests, s # r,
               pc[s] \in {"begun", "queued", "saving"} /\ request[s].action = "save"
        PROVE  pc[s] # "saving"
    BY <2>1, ConstantsAssumption DEF IInv, Locked, LockFree, Writing
  <2>2. place = "saving" =>
          /\ request[r].body.draft = draftVersion /\ calculation.draft = draftVersion
          /\ document[r] = draftVersion
    <3> SUFFICES ASSUME place = "saving" PROVE /\ request[r].body.draft = draftVersion
                                               /\ calculation.draft = draftVersion
                                               /\ document[r] = draftVersion
      OBVIOUS
    <3>1. request[r].body.draft = draftVersion /\ calculation.draft = draftVersion
      BY DEF FreshSave, SaveAllowed
    <3>2. request[r].body.draft <= document[r] /\ document[r] <= draftVersion
      BY DEF IInv, DraftsSeen
    <3>3. document[r] \in Nat /\ draftVersion \in Nat
      BY DEF IInv, TypeOK
    <3> QED
      BY <3>1, <3>2, <3>3
  <2> QED
    BY <2>1, <2>2 DEF IInv, TypeOK, DraftsSeen, Writing
<1>5. Fresh'
  BY DEF IInv, TypeOK, Fresh, FreshSave, FreshTransition, Answered, KeyReused, PriorRejections, Attempt
<1>6. ActorHeld'
  <2> SUFFICES ASSUME NEW s \in Requests
               PROVE  /\ pc'[s] \in Writing => ActorCurrent(request[s])
                      /\ pc'[s] \in {"begun", "queued", "saving", "advancing"} =>
                           HasCapability(request[s].role, request[s].action)
    BY DEF ActorHeld, ActorCurrent, HasCapability
  <2>1. CASE s = r
    BY <2>1 DEF IInv, TypeOK, ActorHeld, Writing
  <2>2. CASE s # r
    BY <2>2 DEF IInv, TypeOK, ActorHeld
  <2> QED
    BY <2>1, <2>2
<1>7. OnlyTransitionsRejected' /\ SavesRecorded' /\ SavedFromOneDraft' /\ OneRevisionPerKey'
  BY DEF IInv, OnlyTransitionsRejected, SavesRecorded, SavedFromOneDraft, OneRevisionPerKey
<1> QED
  BY <1>1, <1>2, <1>3, <1>4, <1>5, <1>6, <1>7 DEF IInv

LEMMA WriteKeeps ==
  ASSUME IInv, NEW r \in Requests,
         WriteSave(r) \/ WriteRejection(r) \/ WriteTransition(r) \/ WriteTombstone(r)
  PROVE  IInv'
<1> DEFINE q == request[r]
<1>1. CASE WriteSave(r)
  BY <1>1, StartWritingKeeps DEF WriteSave, Served, Writing
<1>2. CASE WriteRejection(r)
  BY <1>2, StartWritingKeeps DEF WriteRejection, ServedTransition, Served, Writing, RejectionReason, Reasons
<1>3. CASE WriteTransition(r)
  BY <1>3, StartWritingKeeps DEF WriteTransition, ServedTransition, Served, Writing
<1>4. CASE WriteTombstone(r)
  BY <1>4, StartWritingKeeps DEF WriteTombstone, Writing, IInv, Posed
<1> QED
  BY <1>1, <1>2, <1>3, <1>4

-----------------------------------------------------------------------------
(* The writing transaction commits.                                        *)

LEMMA OneWriter ==
  ASSUME IInv, NEW r \in Requests, pc[r] \in Writing
  PROVE  projectLock = r /\ \A s \in Requests : s # r => pc[s] \notin Writing
BY DEF IInv, Locked

\* What every commit leaves behind: the project row is free, request r is idle
\* or goes on to record its rejection, and the others were not writing.
LEMMA ReleaseKeeps ==
  ASSUME IInv, NEW r \in Requests, pc[r] \in Writing,
         projectLock' = NoHolder, UNCHANGED <<users, draft>>,
         \/ \E answer \in Replies : Finish(r, answer)
         \/ pc[r] = "rejecting" /\ ContinueRecording(r, reason[r])
  PROVE  /\ Locked' /\ Posed' /\ DraftsSeen' /\ Fresh' /\ ActorHeld'
         /\ projectLock' \in Requests \cup {NoHolder}
         /\ pc' \in [Requests -> Places]
         /\ request' \in [Requests -> RequestRecords \cup {NoRequest}]
         /\ document' \in [Requests -> Nat]
         /\ reason' \in [Requests -> Reasons \cup {"none"}]
         /\ reply' \in [Requests -> Replies]
<1> DEFINE place == IF pc[r] = "rejecting" /\ pc'[r] = "recording" THEN "recording" ELSE "idle"
<1>1. \A s \in Requests : s # r => pc[s] \notin Writing
  BY OneWriter
<1>2. /\ pc' = [pc EXCEPT ![r] = place]
      /\ \A s \in Requests : s # r => request'[s] = request[s] /\ document'[s] = document[s]
                                      /\ reason'[s] = reason[s]
      /\ place = "recording" => request'[r] = request[r] /\ reason'[r] = reason[r]
  BY DEF Finish, ContinueRecording, IInv, TypeOK
<1>3. place \in {"idle", "recording"} /\ (place = "recording" => pc[r] = "rejecting")
  OBVIOUS
<1> HIDE DEF place
<1>4. /\ projectLock' \in Requests \cup {NoHolder}
      /\ pc' \in [Requests -> Places]
      /\ request' \in [Requests -> RequestRecords \cup {NoRequest}]
      /\ document' \in [Requests -> Nat]
      /\ reason' \in [Requests -> Reasons \cup {"none"}]
      /\ reply' \in [Requests -> Replies]
  <2>1. CASE \E answer \in Replies : Finish(r, answer)
    BY <2>1, PlaceTypes DEF IInv, TypeOK, Finish
  <2>2. CASE ContinueRecording(r, reason[r])
    BY <2>2, PlaceTypes DEF IInv, TypeOK, ContinueRecording
  <2> QED
    BY <2>1, <2>2
<1>5. Locked'
  BY <1>1, <1>2, <1>3, PlaceTypes, ConstantsAssumption DEF IInv, TypeOK, Locked
<1>6. Posed'
  BY <1>2, <1>3, <1>4 DEF IInv, TypeOK, Posed
<1>7. DraftsSeen'
  BY <1>2, <1>3 DEF IInv, TypeOK, DraftsSeen, draft
<1>8. Fresh'
  BY <1>1, <1>2, <1>3 DEF IInv, TypeOK, Fresh, Writing
<1>9. ActorHeld'
  BY <1>1, <1>2, <1>3, PlaceTypes DEF IInv, TypeOK, ActorHeld, ActorCurrent, HasCapability, users
<1> QED
  BY <1>4, <1>5, <1>6, <1>7, <1>8, <1>9

LEMMA SuccessTypes ==
  ASSUME IInv, NEW q \in RequestRecords, NEW number \in Nat, NEW status \in Statuses,
         Success(q, number, status)
  PROVE  /\ events' \subseteq [revision : Nat, action : Actions, actor : Actors, role : Roles]
         /\ idempotency' \subseteq [attempt : Attempts, body : Bodies, revision : Nat, status : Statuses]
BY RequestTypes DEF Success, IInv, TypeOK

LEMMA CommitSaveKeeps ==
  ASSUME IInv, NEW r \in Requests, CommitSave(r)
  PROVE  IInv'
<1> DEFINE q == request[r]  row == SavedRow(r)
<1>1. /\ pc[r] = "saving" /\ q \in RequestRecords /\ q.action = "save" /\ q.target = 0
      /\ revisions \in Seq(RevisionRows) /\ revisions' = Append(revisions, row)
  BY DEF CommitSave, IInv, TypeOK, Posed
<1>2. /\ q.body.draft = draftVersion /\ document[r] = draftVersion
      /\ calculation.draft = draftVersion
  <2>1. /\ q.body.draft = draftVersion /\ calculation.draft = draftVersion
        /\ q.body.draft <= document[r] /\ document[r] <= draftVersion
    BY <1>1 DEF IInv, DraftsSeen
  <2>2. document[r] \in Nat /\ draftVersion \in Nat
    BY DEF IInv, TypeOK
  <2> QED
    BY <2>1, <2>2
<1>3. /\ row \in RevisionRows
      /\ row.project = row.sourceDraft /\ row.document = row.sourceDraft
      /\ row.fingerprint = row.sourceDraft
      /\ row.author = q.actor /\ row.key = q.key
  BY <1>1, <1>2, RequestTypes DEF SavedRow, RevisionRows, Statuses, IInv, TypeOK
<1>4. /\ DOMAIN revisions' = DOMAIN revisions \cup {Len(revisions) + 1}
      /\ Len(revisions) + 1 \notin DOMAIN revisions
      /\ \A i \in DOMAIN revisions : revisions'[i] = revisions[i]
      /\ revisions'[Len(revisions) + 1] = row
      /\ revisions' \in Seq(RevisionRows) /\ Len(revisions) + 1 \in Nat
  BY <1>1, <1>3
<1>5. /\ idempotency \subseteq idempotency'
      /\ \E rec \in idempotency' : rec.attempt = Attempt(q)
  <2> DEFINE new == [attempt |-> Attempt(q), body |-> q.body,
                     revision |-> Len(revisions) + 1, status |-> "calculated"]
  <2>1. idempotency' = idempotency \cup {new}
    BY DEF CommitSave, Success
  <2>2. new.attempt = Attempt(q)
    OBVIOUS
  <2> HIDE DEF new
  <2> QED
    BY <2>1, <2>2
<1>6. Attempt(q) = [action |-> "save", target |-> 0, actor |-> q.actor, key |-> q.key]
  BY <1>1 DEF Attempt
<1> HIDE DEF row
<1>7. /\ Locked' /\ Posed' /\ DraftsSeen' /\ Fresh' /\ ActorHeld'
      /\ projectLock' \in Requests \cup {NoHolder}
      /\ pc' \in [Requests -> Places]
      /\ request' \in [Requests -> RequestRecords \cup {NoRequest}]
      /\ document' \in [Requests -> Nat]
      /\ reason' \in [Requests -> Reasons \cup {"none"}]
      /\ reply' \in [Requests -> Replies]
  BY <1>1, ReleaseKeeps DEF CommitSave, Replies, Writing
<1>8. TypeOK'
  BY <1>1, <1>4, <1>7, SuccessTypes DEF CommitSave, users, draft, IInv, TypeOK, Statuses
<1>9. OnlyTransitionsRejected'
  BY DEF CommitSave, IInv, OnlyTransitionsRejected
<1>10. SavesRecorded'
  BY <1>3, <1>4, <1>5, <1>6 DEF IInv, SavesRecorded
<1>11. SavedFromOneDraft'
  BY <1>3, <1>4 DEF IInv, SavedFromOneDraft
<1>12. OneRevisionPerKey'
  <2>1. \A i \in DOMAIN revisions : revisions[i].author # q.actor \/ revisions[i].key # q.key
    BY <1>1, <1>6 DEF IInv, SavesRecorded, Fresh
  <2> QED
    BY <2>1, <1>3, <1>4 DEF IInv, OneRevisionPerKey
<1> QED
  BY <1>7, <1>8, <1>9, <1>10, <1>11, <1>12 DEF IInv

\* An advance changes the status of a revision and nothing else of it.
LEMMA CommitTransitionKeeps ==
  ASSUME IInv, NEW r \in Requests, CommitTransition(r)
  PROVE  IInv'
<1> DEFINE q == request[r]  to == ResultingStatus(q.action)
<1>1. /\ pc[r] = "advancing" /\ q \in RequestRecords
      /\ revisions \in Seq(RevisionRows)
      /\ revisions' = [revisions EXCEPT ![q.target].status = to]
  BY DEF CommitTransition, IInv, TypeOK, Posed
<1>2. q.target \in Nat /\ q.actor \in Actors /\ q.role \in Roles /\ to \in Statuses
  BY <1>1, RequestTypes DEF ResultingStatus, Statuses
<1> HIDE DEF to
<1>3. /\ revisions' \in Seq(RevisionRows) /\ DOMAIN revisions' = DOMAIN revisions
      /\ \A i \in DOMAIN revisions :
           /\ revisions'[i].author = revisions[i].author /\ revisions'[i].key = revisions[i].key
           /\ revisions'[i].project = revisions[i].project
           /\ revisions'[i].sourceDraft = revisions[i].sourceDraft
           /\ revisions'[i].document = revisions[i].document
           /\ revisions'[i].fingerprint = revisions[i].fingerprint
  <2>1. \A i \in DOMAIN revisions : revisions[i] \in RevisionRows
    BY <1>1
  <2>2. /\ DOMAIN revisions' = DOMAIN revisions /\ DOMAIN revisions = 1..Len(revisions)
        /\ Len(revisions) \in Nat
        /\ \A i \in DOMAIN revisions :
             revisions'[i] = IF i = q.target THEN [revisions[i] EXCEPT !.status = to] ELSE revisions[i]
    BY <1>1
  <2>3. \A row \in RevisionRows :
          /\ [row EXCEPT !.status = to] \in RevisionRows
          /\ [row EXCEPT !.status = to].author = row.author
          /\ [row EXCEPT !.status = to].key = row.key
          /\ [row EXCEPT !.status = to].project = row.project
          /\ [row EXCEPT !.status = to].sourceDraft = row.sourceDraft
          /\ [row EXCEPT !.status = to].document = row.document
          /\ [row EXCEPT !.status = to].fingerprint = row.fingerprint
    BY <1>2 DEF RevisionRows
  <2>4. revisions' = [i \in 1..Len(revisions) |-> revisions'[i]]
    BY <1>1, <2>2
  <2>5. \A i \in DOMAIN revisions : revisions'[i] \in RevisionRows
    BY <2>1, <2>2, <2>3
  <2>6. revisions' \in [1..Len(revisions) -> RevisionRows]
    BY <2>2, <2>4, <2>5
  <2>7. revisions' \in Seq(RevisionRows)
    BY <2>2, <2>6, SeqDef
  <2>8. \A i \in DOMAIN revisions :
           /\ revisions'[i].author = revisions[i].author /\ revisions'[i].key = revisions[i].key
           /\ revisions'[i].project = revisions[i].project
           /\ revisions'[i].sourceDraft = revisions[i].sourceDraft
           /\ revisions'[i].document = revisions[i].document
           /\ revisions'[i].fingerprint = revisions[i].fingerprint
    BY <2>1, <2>2, <2>3
  <2> QED
    BY <2>2, <2>7, <2>8
<1>4. idempotency \subseteq idempotency'
  BY DEF CommitTransition, Success
<1>5. /\ Locked' /\ Posed' /\ DraftsSeen' /\ Fresh' /\ ActorHeld'
      /\ projectLock' \in Requests \cup {NoHolder}
      /\ pc' \in [Requests -> Places]
      /\ request' \in [Requests -> RequestRecords \cup {NoRequest}]
      /\ document' \in [Requests -> Nat]
      /\ reason' \in [Requests -> Reasons \cup {"none"}]
      /\ reply' \in [Requests -> Replies]
  BY <1>1, ReleaseKeeps DEF CommitTransition, Replies, Writing
<1>6. approvals' \subseteq [revision : Nat, actor : Actors, role : Roles]
  BY <1>2 DEF CommitTransition, IInv, TypeOK
<1>7. /\ events' \subseteq [revision : Nat, action : Actions, actor : Actors, role : Roles]
      /\ idempotency' \subseteq [attempt : Attempts, body : Bodies, revision : Nat, status : Statuses]
  BY <1>1, <1>2, SuccessTypes DEF CommitTransition, to
<1>8. TypeOK'
  BY <1>3, <1>5, <1>6, <1>7 DEF CommitTransition, users, draft, IInv, TypeOK
<1>9. OnlyTransitionsRejected'
  BY DEF CommitTransition, IInv, OnlyTransitionsRejected
<1>10. SavesRecorded'
  BY <1>3, <1>4 DEF IInv, SavesRecorded
<1>11. SavedFromOneDraft' /\ OneRevisionPerKey'
  BY <1>3 DEF IInv, SavedFromOneDraft, OneRevisionPerKey
<1> QED
  BY <1>5, <1>8, <1>9, <1>10, <1>11 DEF IInv

\* The two ways a tombstone is committed.
LEMMA AddTombstoneKeeps ==
  ASSUME IInv, NEW r \in Requests, CommitRejection(r) \/ CommitTombstone(r)
  PROVE  IInv'
<1> DEFINE q == request[r]
<1>1. /\ pc[r] \in {"rejecting", "tombstoning"} /\ AddTombstone(r)
      /\ projectLock' = NoHolder /\ UNCHANGED <<users, draft>>
      /\ \/ \E answer \in Replies : Finish(r, answer)
         \/ pc[r] = "rejecting" /\ ContinueRecording(r, reason[r])
  BY DEF CommitRejection, CommitTombstone, Replies
<1>2. q \in RequestRecords /\ q.action # "save" /\ reason[r] \in Reasons
  BY <1>1 DEF IInv, Posed
<1>3. /\ Locked' /\ Posed' /\ DraftsSeen' /\ Fresh' /\ ActorHeld'
      /\ projectLock' \in Requests \cup {NoHolder}
      /\ pc' \in [Requests -> Places]
      /\ request' \in [Requests -> RequestRecords \cup {NoRequest}]
      /\ document' \in [Requests -> Nat]
      /\ reason' \in [Requests -> Reasons \cup {"none"}]
      /\ reply' \in [Requests -> Replies]
  BY <1>1, ReleaseKeeps DEF Writing
<1>4. [attempt |-> Attempt(q), body |-> q.body, reason |-> reason[r]]
        \in [attempt : Attempts, body : Bodies, reason : Reasons]
  BY <1>2, RequestTypes
<1>5. TypeOK'
  BY <1>1, <1>3, <1>4 DEF AddTombstone, users, draft, IInv, TypeOK
<1>6. OnlyTransitionsRejected'
  BY <1>1, <1>2 DEF AddTombstone, Attempt, IInv, OnlyTransitionsRejected
<1>7. SavesRecorded' /\ SavedFromOneDraft' /\ OneRevisionPerKey'
  BY <1>1 DEF AddTombstone, IInv, SavesRecorded, SavedFromOneDraft, OneRevisionPerKey
<1> QED
  BY <1>3, <1>5, <1>6, <1>7 DEF IInv

-----------------------------------------------------------------------------
(* The remaining ways a request ends, and the other operations.            *)

LEMMA RecordSaveRefusalKeeps ==
  ASSUME IInv, NEW r \in Requests, RecordSaveRefusal(r)
  PROVE  IInv'
<1> DEFINE q == request[r]
<1>1. /\ pc[r] = "refusing" /\ q \in RequestRecords
      /\ \E answer \in Replies : Finish(r, answer)
      /\ UNCHANGED <<users, draft, revisions, events, approvals, tombstones, idempotency, projectLock>>
      /\ saveRefusals' = saveRefusals \/ saveRefusals' = saveRefusals \cup {[actor |-> q.actor, role |-> q.role]}
  BY DEF RecordSaveRefusal, Replies, IInv, Posed
<1>2. q.actor \in Actors /\ q.role \in Roles
  BY <1>1, RequestTypes
<1> USE <1>1 DEF Finish, users, draft
<1>3. TypeOK'
  BY <1>2, PlaceTypes DEF IInv, TypeOK
<1>4. Locked'
  BY PlaceTypes DEF IInv, TypeOK, Locked
<1>5. Posed' /\ DraftsSeen'
  BY DEF IInv, TypeOK, Posed, DraftsSeen
<1>6. Fresh'
  BY DEF IInv, TypeOK, Fresh, PriorRejections, Attempt
<1>7. ActorHeld'
  BY PlaceTypes DEF IInv, TypeOK, ActorHeld, ActorCurrent, HasCapability
<1>8. OnlyTransitionsRejected' /\ SavesRecorded' /\ SavedFromOneDraft' /\ OneRevisionPerKey'
  BY DEF IInv, OnlyTransitionsRejected, SavesRecorded, SavedFromOneDraft, OneRevisionPerKey
<1> QED
  BY <1>3, <1>4, <1>5, <1>6, <1>7, <1>8 DEF IInv

LEMMA FailKeeps ==
  ASSUME IInv, NEW r \in Requests, Fail(r)
  PROVE  IInv'
<1>1. Finish(r, "failed") /\ "failed" \in Replies /\ UNCHANGED <<users, draft, history>>
  BY DEF Fail, Replies
<1>2. CASE pc[r] \notin Writing
  BY <1>1, <1>2, QuietFinishKeeps DEF Fail, QuietFinish, IInv, Locked
<1>3. CASE pc[r] \in Writing
  <2>1. projectLock' = NoHolder
    BY <1>3, OneWriter DEF Fail
  <2>2. /\ Locked' /\ Posed' /\ DraftsSeen' /\ Fresh' /\ ActorHeld'
        /\ projectLock' \in Requests \cup {NoHolder}
        /\ pc' \in [Requests -> Places]
        /\ request' \in [Requests -> RequestRecords \cup {NoRequest}]
        /\ document' \in [Requests -> Nat]
        /\ reason' \in [Requests -> Reasons \cup {"none"}]
        /\ reply' \in [Requests -> Replies]
    BY <1>1, <1>3, <2>1, ReleaseKeeps
  <2>3. TypeOK'
    BY <1>1, <2>2 DEF users, draft, history, IInv, TypeOK
  <2>4. OnlyTransitionsRejected' /\ SavesRecorded' /\ SavedFromOneDraft' /\ OneRevisionPerKey'
    BY <1>1 DEF history, IInv, OnlyTransitionsRejected, SavesRecorded, SavedFromOneDraft, OneRevisionPerKey
  <2> QED
    BY <2>2, <2>3, <2>4 DEF IInv
<1> QED
  BY <1>2, <1>3

\* Nobody writes the draft or the calculation while a Save does.
LEMMA DraftOperationsKeep ==
  ASSUME IInv, ReplaceDraft \/ StoreCalculation
  PROVE  IInv'
<1>1. \A s \in Requests : pc[s] # "saving"
  BY ConstantsAssumption DEF ReplaceDraft, StoreCalculation, LockFree, IInv, Locked, Writing
<1>2. /\ UNCHANGED <<users, history, control>>
      /\ draftVersion <= draftVersion' /\ draftVersion \in Nat /\ draftVersion' \in Nat
      /\ runs' \in Nat /\ calculation' \in [run : Nat, draft : Nat, ready : BOOLEAN]
  BY DEF ReplaceDraft, StoreCalculation, IInv, TypeOK
<1> USE <1>2 DEF users, history, control
<1>3. TypeOK'
  BY DEF IInv, TypeOK
<1>4. Locked' /\ Posed' /\ OnlyTransitionsRejected' /\ SavesRecorded' /\ SavedFromOneDraft' /\ OneRevisionPerKey'
  BY DEF IInv, Locked, Posed, OnlyTransitionsRejected, SavesRecorded, SavedFromOneDraft, OneRevisionPerKey
<1>5. Fresh' /\ ActorHeld'
  BY DEF IInv, Fresh, PriorRejections, Attempt, ActorHeld, ActorCurrent, HasCapability
<1>6. DraftsSeen'
  <2> SUFFICES ASSUME NEW s \in Requests,
                      pc[s] \in {"begun", "queued"}, request[s].action = "save"
               PROVE  /\ request[s].body.draft <= draftVersion'
                      /\ pc[s] # "begun" => /\ request[s].body.draft <= document[s]
                                            /\ document[s] <= draftVersion'
    BY <1>1 DEF DraftsSeen
  <2>1. request[s].body.draft \in Nat /\ document[s] \in Nat
    BY RequestTypes DEF IInv, Posed, TypeOK
  <2>2. /\ request[s].body.draft <= draftVersion
        /\ pc[s] # "begun" => request[s].body.draft <= document[s] /\ document[s] <= draftVersion
    BY DEF IInv, DraftsSeen
  <2> QED
    BY <2>1, <2>2
<1> QED
  BY <1>3, <1>4, <1>5, <1>6 DEF IInv

\* Nobody changes the role or the status of an account whose transaction writes.
LEMMA UserOperationsKeep ==
  ASSUME IInv, NEW a \in Administered,
         SetEnabled(a) \/ \E newRole \in AssignableRoles : AssignRole(a, newRole)
  PROVE  IInv'
<1> DEFINE Changes == /\ UNCHANGED <<draft, history, control>> /\ a \in Actors
                      /\ role' \in [Actors -> Roles] /\ enabled' \in [Actors -> BOOLEAN]
                      /\ \A b \in Actors : b # a => role'[b] = role[b] /\ enabled'[b] = enabled[b]
<1>1. Changes
  <2>1. CASE SetEnabled(a)
    <3>1. enabled \in [Actors -> BOOLEAN] /\ enabled' = [enabled EXCEPT ![a] = ~enabled[a]]
      BY <2>1 DEF SetEnabled, IInv, TypeOK
    <3>2. enabled' \in [Actors -> BOOLEAN]
      BY <3>1, Zenon
    <3>3. \A b \in Actors : b # a => enabled'[b] = enabled[b]
      BY <3>1
    <3> QED
      BY <2>1, <3>2, <3>3, ConstantsAssumption DEF SetEnabled, IInv, TypeOK
  <2>2. ASSUME NEW newRole \in AssignableRoles, AssignRole(a, newRole)
        PROVE  Changes
    BY <2>2, ConstantsAssumption DEF AssignRole, IInv, TypeOK
  <2> QED
    BY <2>1, <2>2
<1>2. \A s \in Requests : pc[s] \in Writing => request[s].actor # a /\ request[s].actor \in Actors
  BY RequestTypes, PlaceTypes DEF SetEnabled, AssignRole, UserRowLocked, IInv, Posed
<1> USE <1>1 DEF draft, history, control
<1>3. TypeOK'
  BY DEF IInv, TypeOK
<1>4. Locked' /\ Posed' /\ DraftsSeen' /\ OnlyTransitionsRejected' /\ SavesRecorded'
      /\ SavedFromOneDraft' /\ OneRevisionPerKey'
  BY DEF IInv, Locked, Posed, DraftsSeen, OnlyTransitionsRejected, SavesRecorded,
         SavedFromOneDraft, OneRevisionPerKey
<1>5. Fresh'
  BY DEF IInv, Fresh, PriorRejections, Attempt
<1>6. ActorHeld'
  BY <1>2 DEF IInv, ActorHeld, ActorCurrent, HasCapability
<1> QED
  BY <1>3, <1>4, <1>5, <1>6 DEF IInv

LEMMA StutterKeeps ==
  ASSUME IInv, UNCHANGED vars
  PROVE  IInv'
<1> USE DEF vars, users, draft, history, control
<1>1. TypeOK' /\ Locked' /\ Posed' /\ DraftsSeen'
  BY DEF IInv, TypeOK, Locked, Posed, DraftsSeen
<1>2. Fresh' /\ ActorHeld'
  BY DEF IInv, Fresh, PriorRejections, Attempt, ActorHeld, ActorCurrent, HasCapability
<1>3. OnlyTransitionsRejected' /\ SavesRecorded' /\ SavedFromOneDraft' /\ OneRevisionPerKey'
  BY DEF IInv, OnlyTransitionsRejected, SavesRecorded, SavedFromOneDraft, OneRevisionPerKey
<1> QED
  BY <1>1, <1>2, <1>3 DEF IInv

LEMMA StepKeeps ==
  ASSUME IInv, [Next]_vars
  PROVE  IInv'
<1>1. CASE UNCHANGED vars
  BY <1>1, StutterKeeps
<1>2. CASE Environment
  BY <1>2, DraftOperationsKeep, UserOperationsKeep DEF Environment
<1>3. ASSUME NEW r \in Requests,
             SubmitSave(r) \/ SubmitTransition(r) \/ BeginSave(r) \/ Serve(r) \/ Commit(r) \/ Fail(r)
      PROVE  IInv'
  <2>1. CASE SubmitSave(r) \/ SubmitTransition(r) \/ BeginSave(r)
    BY <2>1, SubmitSaveKeeps, SubmitTransitionKeeps, BeginSaveKeeps
  <2>2. CASE \/ RefuseSave(r) \/ ReplaySave(r) \/ ReplayTransition(r) \/ RefuseKeyReuse(r)
             \/ SkipRecording(r) \/ AbortByActorGuard(r)
    BY <2>2, QuietActions, QuietFinishKeeps
  <2>3. CASE RecordSaveRefusal(r) \/ RepeatRejection(r)
    BY <2>3, RecordSaveRefusalKeeps, RepeatRejectionKeeps
  <2>4. CASE WriteSave(r) \/ WriteRejection(r) \/ WriteTransition(r) \/ WriteTombstone(r)
    BY <2>4, WriteKeeps
  <2>5. CASE Commit(r)
    BY <2>5, CommitSaveKeeps, CommitTransitionKeeps, AddTombstoneKeeps DEF Commit
  <2>6. CASE Fail(r)
    BY <2>6, FailKeeps
  <2> QED
    BY <1>3, <2>1, <2>2, <2>3, <2>4, <2>5, <2>6 DEF Serve
<1> QED
  BY <1>1, <1>2, <1>3 DEF Next

\* IInv holds in every reachable state.
THEOREM Invariance == Spec => []IInv
<1>1. Init => IInv
  BY InitIInv
<1>2. IInv /\ [Next]_vars => IInv'
  BY StepKeeps
<1> QED
  BY <1>1, <1>2, PTL DEF Spec

-----------------------------------------------------------------------------
(* The invariants the runs check.                                          *)

\* Every variable keeps its type.
THEOREM TypeCorrect == Spec => []TypeOK
<1>1. IInv => TypeOK
  BY DEF IInv
<1> QED
  BY <1>1, Invariance, PTL

\* A saved revision freezes one draft, though the draft document in it is read
\* before the wait for the project row: the version the client names bounds that
\* document from below and the version found under the row bounds it from above.
THEOREM SaveFreezesOneDraft == Spec => []SavedFromOneDraft
<1>1. IInv => SavedFromOneDraft
  BY DEF IInv
<1> QED
  BY <1>1, Invariance, PTL

\* A key creates one revision at most, however the requests that use it interleave.
THEOREM KeySavesOnce == Spec => []OneRevisionPerKey
<1>1. IInv => OneRevisionPerKey
  BY DEF IInv
<1> QED
  BY <1>1, Invariance, PTL

-----------------------------------------------------------------------------
(* The action properties the runs check.                                   *)

\* Only the two successful commits add to events and idempotency.
LEMMA OnlySuccessRecords ==
  ASSUME [Next]_vars
  PROVE  \/ \E r \in Requests : CommitSave(r) \/ CommitTransition(r)
         \/ UNCHANGED <<events, idempotency>>
<1> SUFFICES ASSUME \A r \in Requests : ~CommitSave(r) /\ ~CommitTransition(r)
             PROVE  UNCHANGED <<events, idempotency>>
  OBVIOUS
<1> USE DEF history
<1>1. CASE UNCHANGED vars
  BY <1>1 DEF vars
<1>2. CASE Environment
  BY <1>2 DEF Environment, ReplaceDraft, StoreCalculation, SetEnabled, AssignRole
<1>3. ASSUME NEW r \in Requests,
             SubmitSave(r) \/ SubmitTransition(r) \/ BeginSave(r) \/ Serve(r) \/ Commit(r) \/ Fail(r)
      PROVE  UNCHANGED <<events, idempotency>>
  <2>1. CASE SubmitSave(r) \/ SubmitTransition(r) \/ BeginSave(r) \/ Fail(r)
    <3>1. CASE SubmitSave(r)
      BY <3>1 DEF SubmitSave, Submit
    <3>2. CASE SubmitTransition(r)
      BY <3>2 DEF SubmitTransition, Submit
    <3>3. CASE BeginSave(r) \/ Fail(r)
      BY <3>3 DEF BeginSave, Fail
    <3> QED
      BY <2>1, <3>1, <3>2, <3>3
  <2>2. CASE \/ RefuseSave(r) \/ ReplaySave(r) \/ ReplayTransition(r) \/ RefuseKeyReuse(r)
             \/ SkipRecording(r) \/ AbortByActorGuard(r)
    BY <2>2, QuietActions DEF QuietFinish
  <2>3. CASE RecordSaveRefusal(r) \/ RepeatRejection(r)
    BY <2>3 DEF RecordSaveRefusal, RepeatRejection
  <2>4. CASE WriteSave(r) \/ WriteRejection(r) \/ WriteTransition(r) \/ WriteTombstone(r)
    BY <2>4 DEF WriteSave, WriteRejection, WriteTransition, WriteTombstone, StartWriting
  <2>5. CASE CommitRejection(r) \/ CommitTombstone(r)
    BY <2>5 DEF CommitRejection, CommitTombstone, AddTombstone
  <2> QED
    BY <1>3, <2>1, <2>2, <2>3, <2>4, <2>5 DEF Serve, Commit
<1> QED
  BY <1>1, <1>2, <1>3 DEF Next

\* A rejected attempt never succeeds: Save leaves no tombstones, and a transition
\* that writes has found none under the project row it still holds.
THEOREM RejectionIsFinal == Spec => RejectedStaysRejected
<1> DEFINE Stays == \A t \in tombstones :
                      (~\E rec \in idempotency : rec.attempt = t.attempt)
                        => ~\E rec \in idempotency' : rec.attempt = t.attempt
<1>1. IInv /\ [Next]_vars => Stays
  <2> SUFFICES ASSUME IInv, [Next]_vars, NEW t \in tombstones,
                      \A rec \in idempotency : rec.attempt # t.attempt
               PROVE  \A rec \in idempotency' : rec.attempt # t.attempt
    OBVIOUS
  <2>1. ASSUME NEW r \in Requests, CommitSave(r) \/ CommitTransition(r)
        PROVE  \A rec \in idempotency' : rec.attempt # t.attempt
    <3>1. Attempt(request[r]) # t.attempt
      <4>1. CASE CommitSave(r)
        BY <4>1 DEF CommitSave, Attempt, IInv, Posed, OnlyTransitionsRejected
      <4>2. CASE CommitTransition(r)
        BY <4>2 DEF CommitTransition, PriorRejections, IInv, Fresh
      <4> QED
        BY <2>1, <4>1, <4>2
    <3>2. PICK number, status : Success(request[r], number, status)
      BY <2>1 DEF CommitSave, CommitTransition
    <3> QED
      BY <3>1, <3>2 DEF Success
  <2>2. CASE UNCHANGED <<events, idempotency>>
    BY <2>2
  <2> QED
    BY <2>1, <2>2, OnlySuccessRecords
<1>2. IInv /\ [Next]_vars => [Stays]_vars
  BY <1>1
<1> QED
  BY <1>2, Invariance, PTL DEF Spec, RejectedStaysRejected

\* The actor of a committed event is enabled and has its role, and the role the
\* capability, at the very moment of the commit: its row is held since the guard
\* read it, and requests enter only through the capability test.
THEOREM ActorIsCurrent == Spec => ActorCurrentAtCommit
<1> DEFINE Current == \A e \in events' \ events :
                        enabled[e.actor] /\ role[e.actor] = e.role /\ HasCapability(e.role, e.action)
<1>1. IInv /\ [Next]_vars => Current
  <2> SUFFICES ASSUME IInv, [Next]_vars, NEW e \in events' \ events
               PROVE  /\ enabled[e.actor] /\ role[e.actor] = e.role
                      /\ HasCapability(e.role, e.action)
    OBVIOUS
  <2>1. PICK r \in Requests : CommitSave(r) \/ CommitTransition(r)
    BY OnlySuccessRecords
  <2>2. pc[r] \in {"saving", "advancing"}
    BY <2>1 DEF CommitSave, CommitTransition
  <2>3. PICK number, status : Success(request[r], number, status)
    BY <2>1 DEF CommitSave, CommitTransition
  <2>4. /\ e.actor = request[r].actor /\ e.role = request[r].role
        /\ e.action = request[r].action
    BY <2>3 DEF Success
  <2>5. ActorCurrent(request[r]) /\ HasCapability(request[r].role, request[r].action)
    BY <2>2 DEF IInv, ActorHeld, Writing
  <2> QED
    BY <2>4, <2>5 DEF ActorCurrent
<1>2. IInv /\ [Next]_vars => [Current]_vars
  BY <1>1
<1> QED
  BY <1>2, Invariance, PTL DEF Spec, ActorCurrentAtCommit

-----------------------------------------------------------------------------
(* What a retry is told.                                                   *)

\* An attempt has one idempotency record: an exact request under a key and another one under
\* the same key are never both answered (service_idempotency_keys is unique by scope and key).
OneRecordPerAttempt ==
  \A a, b \in idempotency : a.attempt = b.attempt => a = b

\* A record is only written by a transaction that has found none under the project row that it
\* still holds.
THEOREM AttemptsAreRecordedOnce == Spec => []OneRecordPerAttempt
<1>1. Init => OneRecordPerAttempt
  BY DEF Init, OneRecordPerAttempt
<1>2. IInv /\ OneRecordPerAttempt /\ [Next]_vars => OneRecordPerAttempt'
  <2> SUFFICES ASSUME IInv, OneRecordPerAttempt, [Next]_vars PROVE OneRecordPerAttempt'
    OBVIOUS
  <2>1. ASSUME NEW r \in Requests, CommitSave(r) \/ CommitTransition(r)
        PROVE  OneRecordPerAttempt'
    <3>1. \A rec \in idempotency : rec.attempt # Attempt(request[r])
      BY <2>1 DEF CommitSave, CommitTransition, IInv, Fresh
    <3>2. PICK number, status : Success(request[r], number, status)
      BY <2>1 DEF CommitSave, CommitTransition
    <3>3. PICK new : /\ new.attempt = Attempt(request[r])
                     /\ idempotency' = idempotency \cup {new}
      BY <3>2 DEF Success
    <3> QED
      BY <3>1, <3>3 DEF OneRecordPerAttempt
  <2>2. CASE UNCHANGED <<events, idempotency>>
    BY <2>2 DEF OneRecordPerAttempt
  <2> QED
    BY <2>1, <2>2, OnlySuccessRecords
<1> QED
  BY <1>1, <1>2, Invariance, PTL DEF Spec

\* A request that another request's step leaves alone stays where it is.
LEMMA OthersStay ==
  ASSUME IInv, NEW r \in Requests, NEW s \in Requests, r # s,
         \/ SubmitSave(s) \/ SubmitTransition(s) \/ BeginSave(s) \/ Serve(s) \/ Commit(s) \/ Fail(s)
  PROVE  pc'[r] = pc[r]
<1>1. \/ \E answer : Finish(s, answer)
      \/ \E place : pc' = [pc EXCEPT ![s] = place]
  <2>1. CASE SubmitSave(s) \/ SubmitTransition(s) \/ BeginSave(s) \/ Fail(s)
    <3>1. ASSUME NEW q, Submit(s, q) PROVE pc' = [pc EXCEPT ![s] = EntryPoint(q)]
      BY <3>1 DEF Submit
    <3>2. CASE SubmitSave(s) \/ SubmitTransition(s)
      BY <3>1, <3>2 DEF SubmitSave, SubmitTransition
    <3>3. CASE BeginSave(s) \/ Fail(s)
      BY <3>3 DEF BeginSave, Fail
    <3> QED
      BY <2>1, <3>2, <3>3
  <2>2. CASE Commit(s)
    <3>1. CASE CommitSave(s) \/ CommitTransition(s)
      BY <3>1 DEF CommitSave, CommitTransition
    <3>2. CASE CommitRejection(s) \/ CommitTombstone(s)
      BY <3>2 DEF CommitRejection, CommitTombstone, ContinueRecording
    <3> QED
      BY <2>2, <3>1, <3>2 DEF Commit
  <2>3. CASE \/ RefuseSave(s) \/ ReplaySave(s) \/ ReplayTransition(s) \/ RefuseKeyReuse(s)
             \/ SkipRecording(s) \/ AbortByActorGuard(s)
    BY <2>3, QuietActions DEF QuietFinish
  <2>4. CASE RecordSaveRefusal(s) \/ RepeatRejection(s)
    BY <2>4 DEF RecordSaveRefusal, RepeatRejection, ContinueRecording
  <2>5. CASE WriteSave(s) \/ WriteRejection(s) \/ WriteTransition(s) \/ WriteTombstone(s)
    BY <2>5 DEF WriteSave, WriteRejection, WriteTransition, WriteTombstone, StartWriting
  <2> QED
    BY <2>1, <2>2, <2>3, <2>4, <2>5 DEF Serve
<1> QED
  BY <1>1 DEF Finish, IInv, TypeOK

\* A request in the queue for the project row that the records answer leaves it with that
\* answer or with a failure: what would refuse it, or would write for it, wants its attempt
\* recorded for another request or not at all.
LEMMA AnsweredInQueue ==
  ASSUME IInv, OneRecordPerAttempt, NEW r \in Requests, pc[r] = "queued", Answered(request[r]),
         request[r].action = "save" => ReachesProject(request[r]),
         \/ SubmitSave(r) \/ SubmitTransition(r) \/ BeginSave(r) \/ Serve(r) \/ Commit(r) \/ Fail(r)
  PROVE  pc'[r] = "idle" /\ reply'[r] \in {"done", "failed"}
<1> DEFINE q == request[r]
<1>1. ~KeyReused(q)
  BY DEF Answered, KeyReused, OneRecordPerAttempt
<1>2. ~FreshSave(q) /\ ~FreshTransition(q)
  BY DEF FreshSave, FreshTransition
<1>3. CASE ReplaySave(r) \/ ReplayTransition(r) \/ Fail(r) \/ AbortByActorGuard(r)
  BY <1>3 DEF ReplaySave, ReplayTransition, Fail, AbortByActorGuard, Finish, IInv, TypeOK
<1>4. ~SubmitSave(r) /\ ~SubmitTransition(r) /\ ~BeginSave(r) /\ ~Commit(r)
  BY DEF SubmitSave, SubmitTransition, Submit, BeginSave, Commit, CommitSave, CommitTransition,
         CommitRejection, CommitTombstone
<1>5. ~RefuseSave(r) /\ ~WriteSave(r)
  BY <1>1, <1>2 DEF RefuseSave, WriteSave, Served
<1>6. ~RefuseKeyReuse(r) /\ ~RepeatRejection(r) /\ ~WriteRejection(r) /\ ~WriteTransition(r)
  BY <1>1, <1>2 DEF RefuseKeyReuse, RepeatRejection, WriteRejection, WriteTransition
<1>7. ~RecordSaveRefusal(r) /\ ~SkipRecording(r) /\ ~WriteTombstone(r)
  BY DEF RecordSaveRefusal, SkipRecording, WriteTombstone
<1> QED
  BY <1>3, <1>4, <1>5, <1>6, <1>7 DEF Serve

\* An exact retry of a request that succeeded is answered from its record, whatever has
\* happened to the project since, unless the backend fails.
THEOREM RetryGetsItsAnswer == Spec => RetryIsReplayed
<1> DEFINE Replayed ==
      \A r \in Requests :
        LET q == request[r] IN
        pc[r] = "queued" /\ pc'[r] # "queued" /\ Answered(q) /\ (q.action = "save" => ReachesProject(q))
          => pc'[r] = "idle" /\ reply'[r] \in {"done", "failed"}
<1>1. IInv /\ OneRecordPerAttempt /\ [Next]_vars => Replayed
  <2> SUFFICES ASSUME IInv, OneRecordPerAttempt, [Next]_vars, NEW r \in Requests,
                      pc[r] = "queued", pc'[r] # "queued", Answered(request[r]),
                      request[r].action = "save" => ReachesProject(request[r])
               PROVE  pc'[r] = "idle" /\ reply'[r] \in {"done", "failed"}
    OBVIOUS
  <2>1. ~UNCHANGED vars
    BY DEF vars, control
  <2>2. ~Environment
    BY DEF Environment, ReplaceDraft, StoreCalculation, SetEnabled, AssignRole, control
  <2>3. PICK s \in Requests :
          SubmitSave(s) \/ SubmitTransition(s) \/ BeginSave(s) \/ Serve(s) \/ Commit(s) \/ Fail(s)
    BY <2>1, <2>2 DEF Next
  <2>4. s = r
    BY <2>3, OthersStay
  <2> QED
    BY <2>3, <2>4, AnsweredInQueue
<1>2. IInv /\ OneRecordPerAttempt /\ [Next]_vars => [Replayed]_vars
  BY <1>1
<1> QED
  BY <1>2, Invariance, AttemptsAreRecordedOnce, PTL DEF Spec, RetryIsReplayed


-----------------------------------------------------------------------------
(* The history of the revisions.                                           *)

Happened(number, action) == \E e \in events : e.revision = number /\ e.action = action

\* A revision's events tell its status.
EventsTellStatus ==
  /\ \A e \in events : e.revision \in DOMAIN revisions
  /\ \A i \in DOMAIN revisions :
       /\ Happened(i, "check") <=> revisions[i].status \in {"checked", "approved"}
       /\ Happened(i, "approve") <=> revisions[i].status = "approved"
  /\ \A a \in approvals : a.revision \in DOMAIN revisions /\ revisions[a.revision].status = "approved"

\* One event, one replay record.
EventsRecorded ==
  /\ \A e \in events : \E rec \in idempotency :
       rec.attempt.action = e.action /\ rec.revision = e.revision
  /\ \A rec \in idempotency : \E e \in events :
       /\ e.action = rec.attempt.action /\ e.revision = rec.revision
       /\ e.actor = rec.attempt.actor
  /\ \A rec, other \in idempotency :
       rec.attempt.action = other.attempt.action /\ rec.revision = other.revision => rec = other

\* A transition names a revision there is, and is allowed from its writes to its
\* commit.
TransitionsHeld ==
  \A r \in Requests : pc[r] # "idle" /\ request[r].action # "save" =>
    /\ request[r].target \in DOMAIN revisions
    /\ pc[r] = "advancing" => TransitionAllowed(request[r])

HInv == EventsTellStatus /\ EventsRecorded /\ TransitionsHeld /\ RejectionAlreadyKept

-----------------------------------------------------------------------------
(* What the steps do.                                                      *)

\* What a step that is no successful commit may do to a request: end it, let it
\* enter, or lead it on.
Ends(s) == pc'[s] = "idle"
Enters(s) ==
  /\ pc'[s] # "advancing"
  /\ request'[s].action # "save" => request'[s].target \in DOMAIN revisions
  /\ pc'[s] = "recording" => reason'[s] = "FORBIDDEN"
LeadsOn(s) ==
  /\ pc[s] # "idle" /\ request'[s] = request[s]
  /\ pc'[s] = "advancing" => pc[s] = "advancing" \/ TransitionAllowed(request[s])
  /\ pc'[s] = "recording" /\ reason'[s] # "FORBIDDEN" =>
       \/ pc[s] = "recording" /\ reason'[s] = reason[s]
       \/ PriorRejections(request[s])' # {}

Quiet ==
  /\ UNCHANGED <<revisions, events, approvals, idempotency>>
  /\ tombstones \subseteq tombstones'
  /\ \A s \in Requests : Ends(s) \/ Enters(s) \/ LeadsOn(s)

\* Nothing happens to a request.
LEMMA Untouched ==
  ASSUME NEW s \in Requests, pc'[s] = pc[s], request'[s] = request[s], reason'[s] = reason[s]
  PROVE  Ends(s) \/ LeadsOn(s)
BY DEF Ends, LeadsOn

\* A request enters: a transition names a revision there is.
LEMMA SubmitIsQuiet ==
  ASSUME IInv, NEW r \in Requests, SubmitSave(r) \/ SubmitTransition(r)
  PROVE  Quiet
<1>1. ASSUME NEW q, Submit(r, q), q.action # "save" => q.target \in DOMAIN revisions
      PROVE  Quiet
  <2>1. /\ UNCHANGED <<revisions, events, approvals, idempotency, tombstones>>
        /\ pc'[r] = EntryPoint(q) /\ request'[r] = q
        /\ reason'[r] = IF EntryPoint(q) = "recording" THEN "FORBIDDEN" ELSE "none"
        /\ \A s \in Requests : s # r => /\ pc'[s] = pc[s] /\ request'[s] = request[s]
                                        /\ reason'[s] = reason[s]
    BY <1>1 DEF Submit, IInv, TypeOK, history
  <2>2. EntryPoint(q) \in {"begun", "queued", "refusing", "recording"}
    BY DEF EntryPoint
  <2>3. Enters(r)
    BY <1>1, <2>1, <2>2 DEF Enters
  <2> QED
    BY <2>1, <2>3, Untouched DEF Quiet
<1>2. CASE SubmitSave(r)
  <2>1. PICK actor \in Actors, key \in Keys, body \in SaveBodies :
          Submit(r, [action |-> "save", target |-> 0, actor |-> actor, key |-> key,
                     body |-> body, role |-> role[actor]])
    BY <1>2 DEF SubmitSave
  <2> QED
    BY <1>1, <2>1
<1>3. CASE SubmitTransition(r)
  <2>1. PICK action \in {"check", "approve"}, target \in 1..Len(revisions),
             actor \in Actors, key \in Keys, body \in TransitionBodies :
          Submit(r, [action |-> action, target |-> target, actor |-> actor, key |-> key,
                     body |-> body, role |-> role[actor]])
    BY <1>3 DEF SubmitTransition
  <2>2. target \in DOMAIN revisions
    BY <2>1 DEF IInv, TypeOK
  <2> QED
    BY <1>1, <2>1, <2>2
<1> QED
  BY <1>2, <1>3

\* A request that ends, whatever else the step adds to the tombstones.
LEMMA FinishIsQuiet ==
  ASSUME IInv, NEW r \in Requests, NEW answer \in Replies, Finish(r, answer),
         UNCHANGED <<revisions, events, approvals, idempotency>>, tombstones \subseteq tombstones'
  PROVE  Quiet
<1>1. pc'[r] = "idle"
  BY DEF Finish, IInv, TypeOK
<1>2. \A s \in Requests : s # r => /\ pc'[s] = pc[s] /\ request'[s] = request[s]
                                   /\ reason'[s] = reason[s]
  BY DEF Finish, IInv, TypeOK
<1> QED
  BY <1>1, <1>2, Untouched DEF Quiet, Ends

\* A request that goes on to record a rejection finds it recorded already.
LEMMA ContinueIsQuiet ==
  ASSUME IInv, NEW r \in Requests, NEW why, ContinueRecording(r, why), pc[r] # "idle",
         UNCHANGED <<revisions, events, approvals, idempotency>>, tombstones \subseteq tombstones',
         \E t \in tombstones' : t.attempt = Attempt(request[r])
  PROVE  Quiet
<1>1. /\ pc'[r] = "recording" /\ request'[r] = request[r]
      /\ \A s \in Requests : s # r => /\ pc'[s] = pc[s] /\ request'[s] = request[s]
                                      /\ reason'[s] = reason[s]
  BY DEF ContinueRecording, IInv, TypeOK
<1>2. PriorRejections(request[r])' # {}
  BY <1>1 DEF PriorRejections, Attempt
<1>3. LeadsOn(r)
  BY <1>1, <1>2 DEF LeadsOn
<1> QED
  BY <1>1, <1>3, Untouched DEF Quiet

\* A transaction that writes has only decided: nothing is committed yet, and a
\* transition it will commit is allowed.
LEMMA WriteIsQuiet ==
  ASSUME IInv, NEW r \in Requests,
         WriteSave(r) \/ WriteRejection(r) \/ WriteTransition(r) \/ WriteTombstone(r)
  PROVE  Quiet
<1>1. PICK place, why : /\ place \in Writing /\ StartWriting(r, place, why)
                        /\ place = "advancing" => TransitionAllowed(request[r])
  BY DEF WriteSave, WriteRejection, WriteTransition, WriteTombstone, Writing
<1>2. pc[r] # "idle"
  BY DEF WriteSave, WriteRejection, WriteTransition, WriteTombstone, Served, ServedTransition
<1>3. /\ UNCHANGED <<revisions, events, approvals, idempotency, tombstones>>
      /\ pc'[r] = place /\ request'[r] = request[r]
      /\ \A s \in Requests : s # r => /\ pc'[s] = pc[s] /\ request'[s] = request[s]
                                      /\ reason'[s] = reason[s]
  BY <1>1 DEF StartWriting, IInv, TypeOK, history
<1>4. LeadsOn(r)
  BY <1>1, <1>2, <1>3 DEF LeadsOn, Writing
<1> QED
  BY <1>3, <1>4, Untouched DEF Quiet

\* Every step but the two successful commits leaves the history alone.
LEMMA StepIsQuiet ==
  ASSUME IInv, [Next]_vars
  PROVE  Quiet \/ \E r \in Requests : CommitSave(r) \/ CommitTransition(r)
<1>1. CASE UNCHANGED vars \/ Environment
  <2>1. UNCHANGED <<history, control>>
    BY <1>1 DEF vars, Environment, ReplaceDraft, StoreCalculation, SetEnabled, AssignRole
  <2> QED
    BY <2>1, Untouched DEF Quiet, history, control
<1>2. ASSUME NEW r \in Requests,
             SubmitSave(r) \/ SubmitTransition(r) \/ BeginSave(r) \/ Serve(r) \/ Commit(r) \/ Fail(r)
      PROVE  Quiet \/ CommitSave(r) \/ CommitTransition(r)
  <2>1. CASE SubmitSave(r) \/ SubmitTransition(r)
    BY <2>1, SubmitIsQuiet
  <2>2. CASE BeginSave(r)
    <3>1. /\ UNCHANGED <<revisions, events, approvals, idempotency, tombstones, request, reason>>
          /\ pc[r] = "begun" /\ pc'[r] = "queued" /\ \A s \in Requests : s # r => pc'[s] = pc[s]
      BY <2>2 DEF BeginSave, history, IInv, TypeOK
    <3>2. LeadsOn(r)
      BY <3>1 DEF LeadsOn
    <3> QED
      BY <3>1, <3>2, Untouched DEF Quiet
  <2>3. CASE \/ RefuseSave(r) \/ ReplaySave(r) \/ ReplayTransition(r) \/ RefuseKeyReuse(r)
             \/ SkipRecording(r) \/ AbortByActorGuard(r)
    BY <2>3, QuietActions, FinishIsQuiet DEF QuietFinish, history
  <2>4. CASE RecordSaveRefusal(r) \/ Fail(r) \/ CommitTombstone(r)
    BY <2>4, FinishIsQuiet DEF RecordSaveRefusal, Fail, CommitTombstone, AddTombstone, history, Replies
  <2>5. CASE RepeatRejection(r)
    <3>1. PICK t \in PriorRejections(request[r]) :
            IF t.reason = "FORBIDDEN" THEN Finish(r, "refused") ELSE ContinueRecording(r, t.reason)
      BY <2>5 DEF RepeatRejection
    <3>2. pc[r] = "queued" /\ UNCHANGED <<revisions, events, approvals, idempotency, tombstones>>
      BY <2>5 DEF RepeatRejection, ServedTransition, Served, history
    <3> QED
      BY <3>1, <3>2, FinishIsQuiet, ContinueIsQuiet DEF PriorRejections, Replies
  <2>6. CASE CommitRejection(r)
    <3> DEFINE t == [attempt |-> Attempt(request[r]), body |-> request[r].body, reason |-> reason[r]]
    <3>1. t.attempt = Attempt(request[r])
      OBVIOUS
    <3>2. tombstones' = tombstones \cup {t} /\ pc[r] = "rejecting"
          /\ UNCHANGED <<revisions, events, approvals, idempotency>> /\ ContinueRecording(r, reason[r])
      BY <2>6 DEF CommitRejection, AddTombstone
    <3> HIDE DEF t
    <3> QED
      BY <3>1, <3>2, ContinueIsQuiet
  <2>7. CASE WriteSave(r) \/ WriteRejection(r) \/ WriteTransition(r) \/ WriteTombstone(r)
    BY <2>7, WriteIsQuiet
  <2> QED
    BY <1>2, <2>1, <2>2, <2>3, <2>4, <2>5, <2>6, <2>7 DEF Serve, Commit
<1> QED
  BY <1>1, <1>2 DEF Next
-----------------------------------------------------------------------------
(* The invariant is kept.                                                  *)

\* A new project has no history.
LEMMA InitHInv == Init => HInv
BY DEF Init, HInv, EventsTellStatus, EventsRecorded, TransitionsHeld, RejectionAlreadyKept

\* The revisions are the same, so what was allowed stays allowed.
LEMMA QuietKeepsHistory ==
  ASSUME IInv, HInv, Quiet
  PROVE  HInv'
<1>1. EventsTellStatus' /\ EventsRecorded'
  BY DEF Quiet, HInv, EventsTellStatus, EventsRecorded, Happened
<1>2. TransitionsHeld'
  <2> SUFFICES ASSUME NEW s \in Requests, pc'[s] # "idle", request'[s].action # "save"
               PROVE  /\ request'[s].target \in DOMAIN revisions'
                      /\ pc'[s] = "advancing" => TransitionAllowed(request[s])'
    BY DEF TransitionsHeld
  <2>1. revisions' = revisions /\ (Enters(s) \/ LeadsOn(s))
    BY DEF Quiet, Ends
  <2>2. CASE Enters(s)
    BY <2>1, <2>2 DEF Enters
  <2>3. CASE LeadsOn(s)
    <3>1. request'[s] = request[s] /\ pc[s] # "idle" /\ request[s].target \in DOMAIN revisions
      BY <2>3 DEF LeadsOn, HInv, TransitionsHeld
    <3>2. pc'[s] = "advancing" => TransitionAllowed(request[s])
      BY <2>3, <3>1 DEF LeadsOn, HInv, TransitionsHeld
    <3> QED
      BY <2>1, <3>1, <3>2 DEF TransitionAllowed, TransitionStale, TransitionInvalid
  <2> QED
    BY <2>1, <2>2, <2>3
<1>3. RejectionAlreadyKept'
  <2> SUFFICES ASSUME NEW s \in Requests, pc'[s] = "recording", reason'[s] # "FORBIDDEN"
               PROVE  PriorRejections(request[s])' # {}
    BY DEF RejectionAlreadyKept
  <2>1. LeadsOn(s) /\ tombstones \subseteq tombstones'
    BY DEF Quiet, Ends, Enters
  <2> QED
    BY <2>1 DEF LeadsOn, HInv, RejectionAlreadyKept, PriorRejections, Attempt
<1> QED
  BY <1>1, <1>2, <1>3 DEF HInv

\* What the two successful commits record.
LEMMA SuccessRecords ==
  ASSUME IInv, HInv, NEW r \in Requests, NEW number, NEW status,
         Success(request[r], number, status), ~Happened(number, request[r].action)
  PROVE  /\ EventsRecorded'
         /\ \E e : events' = events \cup {e} /\ e.revision = number /\ e.action = request[r].action
<1> DEFINE q == request[r]
<1>1. PICK e : /\ events' = events \cup {e} /\ e.revision = number
               /\ e.action = q.action /\ e.actor = q.actor
  <2> DEFINE new == [revision |-> number, action |-> q.action, actor |-> q.actor, role |-> q.role]
  <2>1. events' = events \cup {new}
    BY DEF Success
  <2>2. new.revision = number /\ new.action = q.action /\ new.actor = q.actor
    OBVIOUS
  <2> HIDE DEF new
  <2> QED
    BY <2>1, <2>2
<1>2. PICK rec : /\ idempotency' = idempotency \cup {rec} /\ rec.revision = number
                 /\ rec.attempt.action = q.action /\ rec.attempt.actor = q.actor
  <2> DEFINE new == [attempt |-> Attempt(q), body |-> q.body, revision |-> number, status |-> status]
  <2>1. idempotency' = idempotency \cup {new}
    BY DEF Success
  <2>2. new.revision = number /\ new.attempt = Attempt(q)
    OBVIOUS
  <2>3. Attempt(q).action = q.action /\ Attempt(q).actor = q.actor
    BY DEF Attempt
  <2> HIDE DEF new
  <2> QED
    BY <2>1, <2>2, <2>3
<1> HIDE DEF q
<1>3. \A other \in idempotency :
        ~(rec.attempt.action = other.attempt.action /\ rec.revision = other.revision)
  BY <1>2 DEF HInv, EventsRecorded, Happened, q
<1>4. EventsRecorded'
  BY <1>1, <1>2, <1>3 DEF HInv, EventsRecorded
<1> QED
  BY <1>1, <1>4 DEF q

\* A commit leaves the requests of others alone.
LEMMA CommitLeavesOthers ==
  ASSUME IInv, HInv, NEW r \in Requests, CommitSave(r) \/ CommitTransition(r),
         DOMAIN revisions \subseteq DOMAIN revisions'
  PROVE  TransitionsHeld' /\ RejectionAlreadyKept'
<1>1. /\ pc[r] \in Writing /\ Finish(r, "done") /\ tombstones' = tombstones
  BY DEF CommitSave, CommitTransition, Writing
<1>2. /\ pc'[r] = "idle"
      /\ \A s \in Requests : s # r => /\ pc'[s] = pc[s] /\ request'[s] = request[s]
                                      /\ reason'[s] = reason[s] /\ pc[s] \notin Writing
  BY <1>1, OneWriter DEF Finish, IInv, TypeOK
<1>3. TransitionsHeld'
  BY <1>2 DEF HInv, TransitionsHeld, Writing
<1>4. RejectionAlreadyKept'
  BY <1>1, <1>2 DEF HInv, RejectionAlreadyKept, PriorRejections, Attempt
<1> QED
  BY <1>3, <1>4

\* A saved revision is the first of its number: no event names it yet.
LEMMA CommitSaveKeepsHistory ==
  ASSUME IInv, IInv', HInv, NEW r \in Requests, CommitSave(r)
  PROVE  HInv'
<1> PICK last : last = Len(revisions) + 1
  OBVIOUS
<1>1. /\ revisions' = Append(revisions, SavedRow(r)) /\ revisions \in Seq(RevisionRows)
      /\ approvals' = approvals /\ Success(request[r], last, "calculated")
      /\ request[r].action = "save"
  BY DEF CommitSave, IInv, TypeOK, Posed
<1>2. /\ DOMAIN revisions' = DOMAIN revisions \cup {last} /\ last \notin DOMAIN revisions
      /\ \A i \in DOMAIN revisions : revisions'[i] = revisions[i]
      /\ revisions'[last] = SavedRow(r)
  BY <1>1
<1>3. \A action : ~Happened(last, action)
  BY <1>2 DEF HInv, EventsTellStatus, Happened
<1>4. ~Happened(last, request[r].action)
  BY <1>3
<1>5. EventsRecorded' /\ \E e : events' = events \cup {e} /\ e.revision = last
                                  /\ e.action = request[r].action
  <2>1. ASSUME NEW number, NEW status, Success(request[r], number, status),
               ~Happened(number, request[r].action)
        PROVE  EventsRecorded' /\ \E e : events' = events \cup {e} /\ e.revision = number
                                         /\ e.action = request[r].action
    BY <2>1, SuccessRecords
  <2>2. Success(request[r], last, "calculated")
    BY <1>1
  <2> QED
    BY <2>1, <2>2, <1>4
<1>6. PICK e : events' = events \cup {e} /\ e.revision = last /\ e.action = "save"
  BY <1>1, <1>5
<1>7. revisions'[last].status = "calculated"
  BY <1>2 DEF SavedRow
<1>8. EventsTellStatus'
  <2>1. \A f \in events' : f.revision \in DOMAIN revisions'
    BY <1>2, <1>6 DEF HInv, EventsTellStatus
  <2>2. ASSUME NEW i \in DOMAIN revisions'
        PROVE  /\ Happened(i, "check")' <=> revisions'[i].status \in {"checked", "approved"}
               /\ Happened(i, "approve")' <=> revisions'[i].status = "approved"
    <3>1. CASE i = last
      BY <1>3, <1>6, <1>7, <3>1 DEF Happened
    <3>2. CASE i \in DOMAIN revisions
      BY <1>2, <1>6, <3>2 DEF HInv, EventsTellStatus, Happened
    <3> QED
      BY <1>2, <3>1, <3>2
  <2>3. \A a \in approvals' :
          a.revision \in DOMAIN revisions' /\ revisions'[a.revision].status = "approved"
    BY <1>1, <1>2 DEF HInv, EventsTellStatus
  <2> QED
    BY <2>1, <2>2, <2>3 DEF EventsTellStatus
<1> QED
  BY <1>2, <1>5, <1>8, CommitLeavesOthers DEF HInv

\* What an advance does to the revisions: the last one gets its next status.
Advanced(r, last, to) ==
  /\ last = Len(revisions) /\ to = ResultingStatus(request[r].action)
  /\ last \in DOMAIN revisions /\ request[r].target = last /\ revisions # << >>
  /\ request[r].action \in {"check", "approve"}
  /\ revisions[last].status = ExpectedStatus(request[r].action)
  /\ request[r].action = "approve" => revisions[last].ready
  /\ revisions[last] \in RevisionRows
  /\ DOMAIN revisions' = DOMAIN revisions /\ Len(revisions') = Len(revisions)
  /\ \A i \in DOMAIN revisions :
       revisions'[i] = IF i = last THEN [revisions[i] EXCEPT !.status = to] ELSE revisions[i]
  /\ revisions'[last].status = to

\* An advance is always of the latest revision, in the status it asks for.
LEMMA Advances ==
  ASSUME IInv, HInv, NEW r \in Requests, CommitTransition(r)
  PROVE  \E last, to : Advanced(r, last, to)
<1> PICK last, to : last = Len(revisions) /\ to = ResultingStatus(request[r].action)
  OBVIOUS
<1>1. /\ revisions \in Seq(RevisionRows) /\ pc[r] = "advancing"
      /\ request[r] \in RequestRecords /\ request[r].action # "save"
      /\ revisions' = [revisions EXCEPT ![request[r].target].status = to]
  BY DEF CommitTransition, IInv, TypeOK, Posed
<1>2. request[r].action \in {"check", "approve"}
  BY <1>1, RequestTypes DEF Actions
<1>3. TransitionAllowed(request[r]) /\ request[r].target \in DOMAIN revisions
  BY <1>1 DEF HInv, TransitionsHeld
<1>4. /\ request[r].target = last /\ revisions[last].status = ExpectedStatus(request[r].action)
      /\ request[r].action = "approve" => revisions[last].ready
  BY <1>3 DEF TransitionAllowed, TransitionStale, TransitionInvalid
<1>5. /\ revisions[last] \in RevisionRows /\ last \in DOMAIN revisions /\ revisions # << >>
      /\ DOMAIN revisions' = DOMAIN revisions /\ Len(revisions') = Len(revisions)
      /\ \A i \in DOMAIN revisions :
           revisions'[i] = IF i = last THEN [revisions[i] EXCEPT !.status = to] ELSE revisions[i]
  BY <1>1, <1>3, <1>4
<1>6. revisions'[last].status = to
  <2>1. revisions'[last] = [revisions[last] EXCEPT !.status = to]
    BY <1>5
  <2> QED
    BY <1>5, <2>1 DEF RevisionRows
<1> QED
  BY <1>2, <1>4, <1>5, <1>6 DEF Advanced

\* An advance adds the one event its revision lacked.
LEMMA CommitTransitionKeepsHistory ==
  ASSUME IInv, IInv', HInv, NEW r \in Requests, CommitTransition(r)
  PROVE  HInv'
<1> PICK last, to : Advanced(r, last, to)
  BY Advances
<1>1. /\ last \in DOMAIN revisions /\ request[r].target = last
      /\ request[r].action \in {"check", "approve"}
      /\ revisions[last].status = ExpectedStatus(request[r].action)
      /\ DOMAIN revisions' = DOMAIN revisions
      /\ \A i \in DOMAIN revisions \ {last} : revisions'[i] = revisions[i]
      /\ revisions'[last].status = to /\ to = ResultingStatus(request[r].action)
  BY DEF Advanced
<1>2. Success(request[r], last, to)
  BY <1>1 DEF CommitTransition
<1>3. ~Happened(last, request[r].action)
  BY <1>1 DEF HInv, EventsTellStatus, ExpectedStatus
<1>4. EventsRecorded' /\ \E e : events' = events \cup {e} /\ e.revision = last
                                  /\ e.action = request[r].action
  BY <1>2, <1>3, SuccessRecords
<1>5. PICK e : events' = events \cup {e} /\ e.revision = last /\ e.action = request[r].action
  BY <1>4
<1>6. EventsTellStatus'
  <2>1. \A f \in events' : f.revision \in DOMAIN revisions'
    BY <1>1, <1>5 DEF HInv, EventsTellStatus
  <2>2. ASSUME NEW i \in DOMAIN revisions'
        PROVE  /\ Happened(i, "check")' <=> revisions'[i].status \in {"checked", "approved"}
               /\ Happened(i, "approve")' <=> revisions'[i].status = "approved"
    <3>1. CASE i = last
      <4>1. /\ Happened(last, "check") <=> revisions[last].status \in {"checked", "approved"}
            /\ Happened(last, "approve") <=> revisions[last].status = "approved"
        BY <1>1 DEF HInv, EventsTellStatus
      <4>2. CASE request[r].action = "check"
        BY <1>1, <1>5, <3>1, <4>1, <4>2 DEF Happened, ExpectedStatus, ResultingStatus
      <4>3. CASE request[r].action = "approve"
        BY <1>1, <1>5, <3>1, <4>1, <4>3 DEF Happened, ExpectedStatus, ResultingStatus
      <4> QED
        BY <1>1, <4>2, <4>3
    <3>2. CASE i # last
      BY <1>1, <1>5, <2>2, <3>2 DEF HInv, EventsTellStatus, Happened
    <3> QED
      BY <3>1, <3>2
  <2>3. \A a \in approvals' :
          a.revision \in DOMAIN revisions' /\ revisions'[a.revision].status = "approved"
    <3>1. \A a \in approvals : a.revision \in DOMAIN revisions' /\ a.revision # last
      BY <1>1 DEF HInv, EventsTellStatus, ExpectedStatus
    <3>2. \A a \in approvals' : a \in approvals \/ (request[r].action = "approve" /\ a.revision = last)
      BY <1>1 DEF CommitTransition
    <3> QED
      BY <1>1, <3>1, <3>2 DEF HInv, EventsTellStatus, ResultingStatus
  <2> QED
    BY <2>1, <2>2, <2>3 DEF EventsTellStatus
<1> QED
  BY <1>1, <1>4, <1>6, CommitLeavesOthers DEF HInv

\* Every step keeps the invariant.
LEMMA HistoryStep ==
  ASSUME IInv, IInv', HInv, [Next]_vars
  PROVE  HInv'
BY StepIsQuiet, QuietKeepsHistory, CommitSaveKeepsHistory, CommitTransitionKeepsHistory

\* HInv holds in every reachable state.
THEOREM HistoryInvariance == Spec => []HInv
<1>1. IInv /\ IInv' /\ HInv /\ [Next]_vars => HInv'
  BY HistoryStep
<1> QED
  BY <1>1, InitHInv, Invariance, PTL DEF Spec
-----------------------------------------------------------------------------
(* What follows from it.                                                   *)

\* No transaction is opened to record a rejection that is not kept already.
THEOREM RejectionKept == Spec => []RejectionAlreadyKept
<1>1. HInv => RejectionAlreadyKept
  BY DEF HInv
<1> QED
  BY <1>1, HistoryInvariance, PTL

\* The rows of a success are new: nobody answered its attempt, and the status under
\* the project row excludes an event or an approval of it.
LEMMA HistoryGivesRowsAreNew ==
  ASSUME IInv, HInv
  PROVE  RowsAreNew
<1> SUFFICES ASSUME NEW r \in Requests, pc[r] \in {"saving", "advancing"},
                    NEW number,
                    number = IF request[r].action = "save" THEN Len(revisions) + 1
                                                           ELSE request[r].target
             PROVE  /\ ~\E rec \in idempotency : rec.attempt = Attempt(request[r])
                    /\ ~\E e \in events : e.revision = number /\ e.action = request[r].action
                    /\ request[r].action = "approve" => ~\E a \in approvals : a.revision = number
  BY DEF RowsAreNew
<1>1. ~\E rec \in idempotency : rec.attempt = Attempt(request[r])
  BY DEF IInv, Fresh
<1>2. CASE request[r].action = "save"
  <2>1. number \notin DOMAIN revisions
    BY <1>2 DEF IInv, TypeOK
  <2> QED
    BY <1>1, <1>2, <2>1 DEF HInv, EventsTellStatus
<1>3. CASE request[r].action # "save"
  <2>1. /\ number \in DOMAIN revisions /\ number = request[r].target
        /\ pc[r] = "advancing" /\ request[r].action \in {"check", "approve"}
    BY <1>3, RequestTypes DEF IInv, Posed, HInv, TransitionsHeld, Actions
  <2>2. revisions[number].status = ExpectedStatus(request[r].action)
    BY <2>1 DEF HInv, TransitionsHeld, TransitionAllowed, TransitionInvalid
  <2>3. ~Happened(number, request[r].action)
    BY <2>1, <2>2 DEF HInv, EventsTellStatus, ExpectedStatus
  <2>4. request[r].action = "approve" => ~\E a \in approvals : a.revision = number
    BY <2>2 DEF HInv, EventsTellStatus, ExpectedStatus
  <2> QED
    BY <1>1, <1>3, <2>1, <2>3, <2>4 DEF Happened
<1> QED
  BY <1>2, <1>3

\* A row that stays is protected.
LEMMA SameRowProtected ==
  ASSUME NEW row \in RevisionRows
  PROVE  PayloadProtected(row, row)
BY DEF PayloadProtected, RevisionRows

\* A step that commits no success gives the triggers nothing to object to.
LEMMA QuietIsAccepted ==
  ASSUME IInv, Quiet
  PROVE  TriggersAccept
<1>1. \A i \in DOMAIN revisions : PayloadProtected(revisions[i], revisions[i])
  BY SameRowProtected DEF IInv, TypeOK
<1>2. revisions' = revisions /\ events' = events /\ approvals' = approvals
  BY DEF Quiet
<1> QED
  BY <1>1, <1>2 DEF TriggersAccept

\* The capability table gives saving and reviewing to the roles the triggers name.
LEMMA SaversMaySave ==
  ASSUME IInv, NEW r \in Requests, pc[r] = "saving"
  PROVE  request[r].role \in {"designer"} \cup ReviewRoles
<1>1. /\ request[r].action = "save" /\ HasCapability(request[r].role, request[r].action)
      /\ request[r] \in RequestRecords
  BY DEF IInv, ActorHeld, Posed
<1>2. request[r].role \in Roles
  BY <1>1 DEF RequestRecords
<1> QED
  BY <1>1, <1>2 DEF HasCapability, CapabilitiesByRole, Roles, ReviewRoles

LEMMA AdvancersMayReview ==
  ASSUME IInv, NEW r \in Requests, pc[r] = "advancing", request[r].action \in {"check", "approve"}
  PROVE  request[r].role \in ReviewRoles
<1>1. HasCapability(request[r].role, request[r].action) /\ request[r] \in RequestRecords
  BY DEF IInv, ActorHeld, Posed
<1>2. request[r].role \in Roles
  BY <1>1 DEF RequestRecords
<1> QED
  BY <1>1, <1>2 DEF HasCapability, CapabilitiesByRole, Roles, ReviewRoles

\* A save begins a revision, with the event of its author.
LEMMA SaveIsAccepted ==
  ASSUME IInv, HInv, NEW r \in Requests, CommitSave(r)
  PROVE  TriggersAccept
<1> PICK last : last = Len(revisions) + 1
  OBVIOUS
<1> PICK e : e = [revision |-> last, action |-> request[r].action,
                  actor |-> request[r].actor, role |-> request[r].role]
  OBVIOUS
<1>1. /\ revisions' = Append(revisions, SavedRow(r)) /\ revisions \in Seq(RevisionRows)
      /\ approvals' = approvals /\ events' = events \cup {e}
      /\ request[r].action = "save"
  BY DEF CommitSave, Success, IInv, TypeOK, Posed
<1>2. /\ DOMAIN revisions' = DOMAIN revisions \cup {last} /\ last \notin DOMAIN revisions
      /\ \A i \in DOMAIN revisions : revisions'[i] = revisions[i] /\ revisions[i] \in RevisionRows
      /\ revisions'[last] = SavedRow(r)
  BY <1>1
<1>3. revisions'[last].status = "calculated" /\ revisions'[last].author = request[r].actor
  BY <1>2 DEF SavedRow
<1>4. e.revision = last /\ e.action = "save" /\ e.actor = request[r].actor /\ e.role = request[r].role
  BY <1>1
<1>5. StatusAfter["save"] = "calculated"
  BY DEF StatusAfter
<1>6. \A i \in DOMAIN revisions :
        i \in DOMAIN revisions' /\ PayloadProtected(revisions[i], revisions'[i])
  BY <1>2, SameRowProtected
<1>7. BeginsCalculated(revisions'[last])
  BY <1>3 DEF BeginsCalculated
<1>8. Evidenced(last, revisions'[last], events', approvals')
  BY <1>1, <1>3, <1>4, <1>5 DEF Evidenced
<1>9. e.role \in LifecycleRoles(e.action)
  BY <1>4, SaversMaySave DEF LifecycleRoles, CommitSave
<1>10. EventFits(e, revisions'[e.revision], approvals')
  BY <1>3, <1>4, <1>5 DEF EventFits
<1>11. \A f \in events' \ events : f = e
  BY <1>1
<1> QED
  BY <1>1, <1>2, <1>4, <1>6, <1>7, <1>8, <1>9, <1>10, <1>11 DEF TriggersAccept

\* A transition moves one revision one status on, with its event and, for an
\* approval, the decision of the same actor.
LEMMA TransitionIsAccepted ==
  ASSUME IInv, HInv, NEW r \in Requests, CommitTransition(r)
  PROVE  TriggersAccept
<1> PICK last, to : Advanced(r, last, to)
  BY Advances
<1> PICK e : e = [revision |-> last, action |-> request[r].action,
                  actor |-> request[r].actor, role |-> request[r].role]
  OBVIOUS
<1> PICK decision : decision = [revision |-> last, actor |-> request[r].actor,
                                role |-> request[r].role]
  OBVIOUS
<1>1. /\ request[r].target = last /\ last \in DOMAIN revisions
      /\ request[r].action \in {"check", "approve"}
      /\ revisions[last].status = ExpectedStatus(request[r].action)
      /\ request[r].action = "approve" => revisions[last].ready
      /\ DOMAIN revisions' = DOMAIN revisions
      /\ \A i \in DOMAIN revisions : revisions[i] \in RevisionRows
      /\ \A i \in DOMAIN revisions \ {last} : revisions'[i] = revisions[i]
      /\ revisions'[last] = [revisions[last] EXCEPT !.status = to]
      /\ revisions'[last].status = to /\ to = ResultingStatus(request[r].action)
  BY DEF Advanced, IInv, TypeOK
<1>2. /\ events' = events \cup {e}
      /\ approvals' = IF request[r].action = "approve" THEN approvals \cup {decision} ELSE approvals
  BY <1>1 DEF CommitTransition, Success
<1>3. /\ e.revision = last /\ e.action = request[r].action
      /\ e.actor = request[r].actor /\ e.role = request[r].role
      /\ decision.revision = last /\ decision.actor = request[r].actor
      /\ decision.role = request[r].role
  OBVIOUS
<1>4. StatusAfter[e.action] = to
  BY <1>1, <1>3 DEF StatusAfter, ResultingStatus
<1>5. e.role \in ReviewRoles
  BY <1>1, <1>3, AdvancersMayReview DEF CommitTransition
<1>6. ASSUME NEW i \in DOMAIN revisions
      PROVE  PayloadProtected(revisions[i], revisions'[i])
  <2>1. CASE i = last
    <3>1. <<revisions[last].status, to>> \in StatusMoves
      BY <1>1 DEF StatusMoves, ExpectedStatus, ResultingStatus
    <3> QED
      BY <1>1, <2>1, <3>1 DEF PayloadProtected
  <2>2. CASE i # last
    BY <1>1, <2>2, SameRowProtected
  <2> QED
    BY <2>1, <2>2
<1>7. Evidenced(last, revisions'[last], events', approvals')
  <2>1. e \in events' /\ StatusAfter[e.action] = revisions'[last].status
    BY <1>1, <1>2, <1>4
  <2>2. to = "approved" => decision \in approvals'
    BY <1>1, <1>2 DEF ResultingStatus
  <2> QED
    BY <1>1, <1>3, <2>1, <2>2 DEF Evidenced
<1>8. EventFits(e, revisions'[last], approvals')
  BY <1>1, <1>2, <1>3, <1>4 DEF EventFits
<1>9. ASSUME request[r].action = "approve"
      PROVE  /\ ApprovalAllowed(decision, revisions[last])
             /\ ApprovalEvidenced(decision, revisions'[last], events')
  <2>1. revisions[last].status = "checked" /\ to = "approved"
    BY <1>1, <1>9 DEF ExpectedStatus, ResultingStatus
  <2> QED
    BY <1>1, <1>2, <1>3, <1>5, <1>9, <2>1 DEF ApprovalAllowed, ApprovalEvidenced
<1>10. \A f \in events' \ events : f = e
  BY <1>2
<1>11. \A a \in approvals' \ approvals : a = decision /\ request[r].action = "approve"
  BY <1>2
<1>12. e.role \in LifecycleRoles(e.action)
  BY <1>1, <1>3, <1>5 DEF LifecycleRoles
<1> QED
  BY <1>1, <1>3, <1>6, <1>7, <1>8, <1>9, <1>10, <1>11, <1>12 DEF TriggersAccept

\* The database's constraints never have to refuse what the service commits: the
\* statuses and capabilities the service tested under the project row exclude it.
THEOREM WritesFit == Spec => WritesMeetConstraints
<1>1. IInv /\ IInv' /\ HInv /\ [Next]_vars => [RowsAreNew /\ TriggersAccept]_history
  BY HistoryGivesRowsAreNew, StepIsQuiet, QuietIsAccepted, SaveIsAccepted, TransitionIsAccepted
<1> QED
  BY <1>1, Invariance, HistoryInvariance, PTL DEF Spec, WritesMeetConstraints

\* Every successful event has the one replay record that answers its request.
THEOREM EventsReplay == Spec => []EventsAreReplayable
<1>1. HInv => EventsAreReplayable
  <2> SUFFICES ASSUME HInv, NEW e \in events
               PROVE  Cardinality({rec \in idempotency : /\ rec.attempt.action = e.action
                                                         /\ rec.revision = e.revision}) = 1
    BY DEF EventsAreReplayable, HInv, EventsRecorded
  <2>1. PICK rec \in idempotency : rec.attempt.action = e.action /\ rec.revision = e.revision
    BY DEF HInv, EventsRecorded
  <2>2. {other \in idempotency : /\ other.attempt.action = e.action
                                 /\ other.revision = e.revision} = {rec}
    BY <2>1 DEF HInv, EventsRecorded
  <2> QED
    BY <2>2, FS_Singleton
<1> QED
  BY <1>1, HistoryInvariance, PTL
-----------------------------------------------------------------------------
(* The history is the one RevisionHistory promises.                        *)

\* What RevisionHistory sees of a revision, and of all of them.
Shown(row) == [source |-> row.sourceDraft, document |-> row.document,
               calculated |-> row.fingerprint, ready |-> row.ready, status |-> row.status]
View == [i \in 1..Len(revisions) |-> Shown(revisions[i])]

\* Only the two successful commits touch the revisions, only an edit the draft.
LEMMA StepKinds ==
  ASSUME [Next]_vars
  PROVE  \/ UNCHANGED <<draftVersion, revisions>>
         \/ draftVersion' = draftVersion + 1 /\ UNCHANGED revisions
         \/ \E r \in Requests : CommitSave(r) \/ CommitTransition(r)
<1> USE DEF draft, history, users
<1>1. CASE UNCHANGED vars \/ Environment
  BY <1>1 DEF vars, Environment, ReplaceDraft, StoreCalculation, SetEnabled, AssignRole
<1>2. ASSUME NEW r \in Requests, SubmitSave(r) \/ SubmitTransition(r) \/ BeginSave(r) \/ Fail(r)
      PROVE  UNCHANGED <<draftVersion, revisions>>
  <2>1. CASE SubmitSave(r)
    BY <2>1 DEF SubmitSave, Submit
  <2>2. CASE SubmitTransition(r)
    BY <2>2 DEF SubmitTransition, Submit
  <2>3. CASE BeginSave(r) \/ Fail(r)
    BY <2>3 DEF BeginSave, Fail
  <2> QED
    BY <1>2, <2>1, <2>2, <2>3
<1>3. ASSUME NEW r \in Requests, Serve(r)
      PROVE  UNCHANGED <<draftVersion, revisions>>
  BY <1>3 DEF Serve, RefuseSave, ReplaySave, WriteSave, RecordSaveRefusal, ReplayTransition,
              RefuseKeyReuse, RepeatRejection, WriteRejection, WriteTransition, SkipRecording,
              WriteTombstone, AbortByActorGuard, StartWriting
<1>4. ASSUME NEW r \in Requests, CommitRejection(r) \/ CommitTombstone(r)
      PROVE  UNCHANGED <<draftVersion, revisions>>
  BY <1>4 DEF CommitRejection, CommitTombstone, AddTombstone
<1> QED
  BY <1>1, <1>2, <1>3, <1>4 DEF Next, Commit

\* A save freezes the draft of its moment: the project row, the document and the
\* calculation all show it.
LEMMA SaveRefines ==
  ASSUME IInv, NEW r \in Requests, CommitSave(r)
  PROVE  Abstract!Next
<1>1. /\ revisions' = Append(revisions, SavedRow(r)) /\ revisions \in Seq(RevisionRows)
      /\ UNCHANGED draftVersion
      /\ pc[r] = "saving" /\ request[r].action = "save" /\ request[r] \in RequestRecords
  BY DEF CommitSave, draft, IInv, TypeOK, Posed
<1>2. /\ request[r].body.draft = draftVersion /\ calculation.draft = draftVersion
      /\ document[r] = draftVersion
  <2>1. /\ request[r].body.draft <= document[r] /\ document[r] <= draftVersion
        /\ request[r].body.draft = draftVersion /\ calculation.draft = draftVersion
    BY <1>1 DEF IInv, DraftsSeen
  <2>2. document[r] \in Nat /\ draftVersion \in Nat
    BY DEF IInv, TypeOK
  <2> QED
    BY <2>1, <2>2
<1>3. calculation.ready \in BOOLEAN
  BY DEF IInv, TypeOK
<1>4. Shown(SavedRow(r)) = [source |-> draftVersion, document |-> draftVersion,
                            calculated |-> draftVersion, ready |-> calculation.ready,
                            status |-> "calculated"]
  BY <1>2 DEF Shown, SavedRow
<1>5. View' = Append(View, Shown(SavedRow(r)))
  <2>1. /\ Len(revisions) \in Nat /\ Len(revisions') = Len(revisions) + 1
        /\ revisions'[Len(revisions) + 1] = SavedRow(r)
        /\ \A i \in 1..Len(revisions) : revisions'[i] = revisions[i]
    BY <1>1
  <2>2. \A i \in 1..Len(revisions) : Shown(revisions'[i]) = Shown(revisions[i])
    BY <2>1
  <2> QED
    BY <2>1, <2>2 DEF View
<1>6. Abstract!SaveRevision
  BY <1>1, <1>3, <1>4, <1>5 DEF Abstract!SaveRevision, View, Shown
<1> QED
  BY <1>6 DEF Abstract!Next

\* A transition moves the latest revision one status on.
LEMMA TransitionRefines ==
  ASSUME IInv, HInv, NEW r \in Requests, CommitTransition(r)
  PROVE  Abstract!Next
<1> PICK last, to : Advanced(r, last, to)
  BY Advances
<1>1. /\ Len(revisions) \in Nat /\ DOMAIN revisions = 1..Len(revisions)
      /\ Len(revisions') = Len(revisions) /\ last = Len(revisions) /\ last \in 1..Len(revisions)
      /\ UNCHANGED draftVersion
  BY DEF Advanced, CommitTransition, draft, IInv, TypeOK
<1>2. Shown(revisions'[last]) = [Shown(revisions[last]) EXCEPT !.status = to]
  <2>1. revisions[last] \in RevisionRows
        /\ revisions'[last] = [revisions[last] EXCEPT !.status = to]
    BY DEF Advanced
  <2>2. revisions'[last].status = to
    BY DEF Advanced
  <2>3. /\ revisions'[last].sourceDraft = revisions[last].sourceDraft
        /\ revisions'[last].document = revisions[last].document
        /\ revisions'[last].fingerprint = revisions[last].fingerprint
        /\ revisions'[last].ready = revisions[last].ready
    BY <2>1 DEF RevisionRows
  <2> QED
    BY <2>2, <2>3 DEF Shown
<1>3. \A i \in 1..Len(revisions) : i # last => Shown(revisions'[i]) = Shown(revisions[i])
  BY <1>1 DEF Advanced
<1>4. View' = [View EXCEPT ![last] = [Shown(revisions[last]) EXCEPT !.status = to]]
  BY <1>1, <1>2, <1>3 DEF View
<1>5. /\ Len(View) = last /\ View # << >> /\ View[last] = Shown(revisions[last])
      /\ View[last].status = revisions[last].status /\ View[last].ready = revisions[last].ready
  <2>1. View[last] = Shown(revisions[last])
    BY <1>1 DEF View
  <2>2. Len(View) = last /\ View # << >>
    BY <1>1 DEF View
  <2> QED
    BY <2>1, <2>2 DEF Shown
<1>6. View' = [View EXCEPT ![Len(View)].status = to]
  BY <1>4, <1>5
<1>7. CASE request[r].action = "check"
  <2>1. View[Len(View)].status = "calculated" /\ to = "checked"
    BY <1>5, <1>7 DEF Advanced, ExpectedStatus, ResultingStatus
  <2>2. Abstract!CheckLatest
    BY <1>1, <1>5, <1>6, <2>1 DEF Abstract!CheckLatest, Abstract!AdvanceLatest, View, Shown
  <2> QED
    BY <2>2 DEF Abstract!Next
<1>8. CASE request[r].action = "approve"
  <2>1. View[Len(View)].status = "checked" /\ to = "approved" /\ View[Len(View)].ready
    BY <1>5, <1>8 DEF Advanced, ExpectedStatus, ResultingStatus
  <2>2. Abstract!ApproveLatest
    BY <1>1, <1>5, <1>6, <2>1 DEF Abstract!ApproveLatest, Abstract!AdvanceLatest, View, Shown
  <2> QED
    BY <2>2 DEF Abstract!Next
<1> QED
  BY <1>7, <1>8 DEF Advanced

\* Requests, locks, retries, roles and crashes do nothing to the history that
\* editing the draft, saving it or advancing the latest revision would not do.
THEOREM HistoryIsKeptAlways == Spec => HistoryIsKept
<1>1. Init => Abstract!Init
  <2>1. ASSUME Init PROVE View = << >>
    BY <2>1 DEF Init, View
  <2> QED
    BY <2>1, SMT DEF Init, Abstract!Init, View, Shown
<1>2. IInv /\ HInv /\ [Next]_vars => [Abstract!Next]_(Abstract!vars)
  <2> SUFFICES ASSUME IInv, HInv, [Next]_vars
               PROVE  Abstract!Next \/ UNCHANGED Abstract!vars
    OBVIOUS
  <2>1. CASE UNCHANGED <<draftVersion, revisions>>
    BY <2>1 DEF Abstract!vars
  <2>2. CASE draftVersion' = draftVersion + 1 /\ UNCHANGED revisions
    BY <2>2 DEF Abstract!Next, Abstract!EditDraft
  <2> QED
    BY <2>1, <2>2, StepKinds, SaveRefines, TransitionRefines
<1> QED
  BY <1>1, <1>2, Invariance, HistoryInvariance, PTL DEF Spec, HistoryIsKept, Abstract!Spec
=============================================================================
