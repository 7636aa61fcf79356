---------------------------- MODULE DraftEditing ----------------------------
(***************************************************************************)
(* The project editor (apps/frontend/src/app/project-editor.tsx) over the  *)
(* server of ProjectDraft: autosave, its acknowledgement and the catalog   *)
(* read that follows it, conflicts, failures and retries, rebasing to a    *)
(* newly active catalog, and the calculation or validation that first      *)
(* flushes the latest edits.                                               *)
(*                                                                         *)
(* An editor is a page in a browser: its handlers run one at a time, so an *)
(* action is what runs until the next await, with the effects of the       *)
(* rendering it causes.  Replies may be lost, and requests abandoned by    *)
(* their page may still reach the server.                                  *)
(***************************************************************************)
EXTENDS ProjectDraft

CONSTANTS
  Cleared,        \* reconcileProjectDraftCatalog: what a catalog leaves of a document
  FlushAttempts,  \* rounds a calculation spends on saving first
  MaxMoves        \* bound: what users, the network and administrators do

ASSUME EditingAssumption ==
  /\ Editors # {}
  /\ Cleared \in [Catalogs -> [Contents -> Contents]]
  /\ \A c \in Catalogs, x \in Contents : Cleared[c][Cleared[c][x]] = Cleared[c][x]
  /\ FlushAttempts \in Nat \ {0} /\ MaxMoves \in Nat

VARIABLES
  editor,  \* each editor's page
  moves    \* moves made

vars == <<server, active, network, editor, moves>>
-----------------------------------------------------------------------------
Modes == {"loading", "fetched", "ready", "failed"}
AutosaveStatuses ==
  {"idle", "unsaved", "saving", "saved", "validationBlocked", "conflict", "failed"}
\* The calculation or validation that runs: saving first, sent, or (refused as
\* stale) waiting for a save in flight.
TaskPhases == {"none", "flushing", "sent", "superseded"}

NoContent == "none"
NoFailed == [content |-> NoContent]
NoCatalog == 0

\* flight, sent: the save in flight and its snapshot; failed: failedSave; armed:
\* the debounce timer runs; project: the last answer of the server; shown: the
\* calculation on display, of the draft it was computed from.
Pages == [mode : Modes, doc : Contents \cup {NoContent},
          acked : [version : Nat, content : Contents \cup {NoContent}],
          status : AutosaveStatuses, number : Nat,
          flight : {"none", "put", "catalog"},
          failed : [content : Contents, key : Keys] \cup {NoFailed},
          armed : BOOLEAN, rebase : BOOLEAN, buffered : BOOLEAN,
          catalog : Catalogs \cup {NoCatalog},
          project : Drafts \cup {NoCalculation},
          task : TaskPhases, taskKind : {"validate", "calculate"}, tries : Nat,
          taskOf : [version : Nat, content : Contents \cup {NoContent}],
          shown : Calculations]

TypeOK == ServerTypeOK /\ editor \in [Editors -> Pages] /\ moves \in Nat

\* What load and the end of a session reset; the numbers drawn stay used.
Blank(ed) ==
  [mode |-> "loading", doc |-> NoContent, acked |-> [version |-> 0, content |-> NoContent],
   status |-> "idle", number |-> ed.number, flight |-> "none", failed |-> NoFailed,
   armed |-> FALSE, rebase |-> FALSE, buffered |-> FALSE, catalog |-> NoCatalog,
   project |-> NoCalculation, task |-> "none", taskKind |-> "validate", tries |-> 0,
   taskOf |-> [version |-> 0, content |-> NoContent], shown |-> NoCalculation]

Owner == CHOOSE e \in Editors : TRUE

\* A project as created, open on every page.
Init ==
  /\ draft \in {[version |-> 1, content |-> c, catalog |-> 1] : c \in Calculable}
  /\ saves = <<[key |-> <<Owner, 0>>, base |-> 0, content |-> draft.content, catalog |-> 1]>>
  /\ calculated = NoCalculation /\ active = 1
  /\ requests = {} /\ answers = {}
  /\ editor = [e \in Editors |->
       [Blank([number |-> 0]) EXCEPT
          !.mode = "ready", !.doc = draft.content, !.status = "saved", !.catalog = 1,
          !.acked = [version |-> 1, content |-> draft.content], !.project = draft]]
  /\ moves = 0
-----------------------------------------------------------------------------
Dirty(ed) == ed.doc # ed.acked.content \/ ed.rebase

\* The effect that saves: it runs when the draft, the project, the buffer or the
\* nonce has changed, and always ends the timer that ran before.
AutosaveEffect(ed) ==
  LET settled(status) == [ed EXCEPT !.armed = FALSE, !.status = status] IN
  CASE ed.mode # "ready" \/ ed.flight # "none" -> settled(ed.status)
    [] ed.mode = "ready" /\ ed.flight = "none" ->
         IF ed.buffered THEN settled("unsaved")
         ELSE IF ed.status \in {"conflict", "failed"} THEN settled(ed.status)
         ELSE IF ed.doc \notin Valid THEN settled("validationBlocked")
         ELSE IF ~Dirty(ed) THEN settled("saved")
         ELSE [settled("unsaved") EXCEPT !.armed = TRUE]

\* A rendering: what the catalog does not know is cleared first.
Reconciled(ed) ==
  IF ed.catalog = NoCatalog THEN ed ELSE [ed EXCEPT !.doc = Cleared[ed.catalog][@]]
Rendered(ed) == AutosaveEffect(Reconciled(ed))

\* Mutant: the key of the request is not kept for a retry.
SavingWithoutKey(ed, e, content, key) ==
  [ed EXCEPT !.number = @ + 1, !.status = "saving", !.flight = "put", !.armed = FALSE,
             !.failed = [content |-> content]]

\* performSave: the snapshot with its key, against the acknowledged version.
Saving(ed, e, content, key) ==
  [ed EXCEPT !.number = @ + 1, !.status = "saving", !.flight = "put", !.armed = FALSE,
             !.failed = [content |-> content, key |-> key]]
SaveRequest(ed, e, content, key) ==
  Request("replace", e, ed.number + 1, key, ed.acked.version, content)
NewKey(ed, e) == <<e, ed.number + 1>>

Save(e, ed, content, key) ==
  /\ editor' = [editor EXCEPT ![e] = Saving(ed, e, content, key)]
  /\ requests' = requests \cup {SaveRequest(ed, e, content, key)}
  /\ UNCHANGED <<server, active, answers>>

\* Mutant: what was edited meanwhile waits for the next edit.
AfterFlightForgetting(ed, status, ok) ==
  [ed EXCEPT !.flight = "none", !.status = status,
             !.task = IF @ = "flushing" /\ ~ok THEN "none" ELSE @]

\* The save in flight has ended; what was edited meanwhile is saved next, and a
\* calculation that waited goes on only after a success.
AfterFlight(ed, status, ok) ==
  LET ended == [ed EXCEPT !.flight = "none", !.status = status,
                          !.task = IF @ = "flushing" /\ ~ok THEN "none" ELSE @]
  IN IF status = "unsaved" THEN Rendered(ended) ELSE ended

\* The page no longer waits: the requests may have got lost or be served yet.
Abandon(gone) ==
  /\ \E lost \in SUBSET gone :
       requests' = (requests \ gone) \cup {[r EXCEPT !.open = FALSE] : r \in gone \ lost}

OpenRequests(e) == {r \in requests : r.editor = e /\ r.open}

\* Handlers of e run; a task that waited for a save continues before they do.
Runs(e) ==
  /\ editor[e].mode = "ready"
  /\ editor[e].flight = "none" => editor[e].task \notin {"flushing", "superseded"}
Move == moves < MaxMoves /\ moves' = moves + 1
-----------------------------------------------------------------------------
(* Users.                                                                  *)

\* A field is edited, or what was typed into a form of a section is applied or
\* discarded (the document is as before).
Edit(e, content) ==
  /\ Runs(e) /\ Move
  /\ content # editor[e].doc \/ editor[e].buffered
  /\ editor' = [editor EXCEPT ![e] = Rendered([@ EXCEPT !.doc = content, !.buffered = FALSE])]
  /\ UNCHANGED <<server, active, network>>

\* Something is typed into such a form.
Type(e) ==
  /\ Runs(e) /\ Move /\ ~editor[e].buffered
  /\ editor' = [editor EXCEPT ![e] = Rendered([@ EXCEPT !.buffered = TRUE])]
  /\ UNCHANGED <<server, active, network>>

\* The retry button, shown when a save has failed.
Retry(e) ==
  /\ Runs(e) /\ Move /\ editor[e].status = "failed"
  /\ Save(e, editor[e], editor[e].failed.content, editor[e].failed.key)

\* The buttons; a calculation also wants its catalog and nothing to rebase.
StartTask(e, kind) ==
  LET ed == editor[e] IN
    /\ Runs(e) /\ Move /\ ed.task = "none" /\ ~ed.buffered
    /\ ed.status \notin {"validationBlocked", "conflict", "failed"}
    /\ kind = "calculate" => ed.catalog # NoCatalog /\ ~ed.rebase /\ ed.doc \in Valid
    /\ editor' = [editor EXCEPT ![e] =
         [ed EXCEPT !.task = "flushing", !.taskKind = kind, !.armed = FALSE,
                    !.tries = IF ed.flight = "none" THEN 0 ELSE 1]]
    /\ UNCHANGED <<server, active, network>>

\* The page is reloaded, or its session ends and another begins.
Reload(e) ==
  /\ Move
  /\ editor' = [editor EXCEPT ![e] = [Blank(editor[e]) EXCEPT !.number = @ + 1]]
  /\ Abandon(OpenRequests(e))
  /\ answers' = {a \in answers : a.editor # e}
  /\ UNCHANGED <<server, active>>

-----------------------------------------------------------------------------
(* Loading.                                                                *)

ProjectArrives(e) ==
  /\ editor[e].mode = "loading"
  /\ editor' = [editor EXCEPT ![e] = [@ EXCEPT !.mode = "fetched", !.project = draft]]
  /\ UNCHANGED <<server, active, network, moves>>

\* Access, catalog and current calculation, read after the project; the catalog
\* may not be available.
LoadSettles(e, catalog) ==
  LET loaded == [editor[e] EXCEPT
        !.mode = "ready", !.catalog = catalog, !.doc = editor[e].project.content,
        !.acked = [version |-> editor[e].project.version, content |-> editor[e].project.content],
        !.rebase = catalog # NoCatalog /\ editor[e].project.catalog # catalog,
        !.shown = calculated]
  IN /\ editor[e].mode = "fetched"
     /\ editor' = [editor EXCEPT ![e] = Rendered(loaded)]
     /\ UNCHANGED <<server, active, network>>

LoadFails(e) ==
  /\ editor[e].mode \in {"loading", "fetched"} /\ Move
  /\ editor' = [editor EXCEPT ![e] = [Blank(@) EXCEPT !.mode = "failed"]]
  /\ UNCHANGED <<server, active, network>>
-----------------------------------------------------------------------------
(* Autosave.                                                               *)

TimerFires(e) ==
  /\ Runs(e) /\ editor[e].armed
  /\ Save(e, editor[e], editor[e].doc, NewKey(editor[e], e))
  /\ UNCHANGED moves

\* Mutant: what is on display is taken for what has been saved.
AcknowledgedDisplay(ed, result) == [version |-> result.version, content |-> ed.doc]

Acknowledged(ed, result) == [version |-> result.version, content |-> ed.failed.content]

\* The reply of the save in flight.
SaveAnswered(e, a) ==
  LET ed == editor[e] IN
    /\ a \in answers /\ a.editor = e /\ a.kind = "replace"
    /\ answers' = answers \ {a}
    /\ editor' = [editor EXCEPT ![e] =
         CASE a.code = "ok" ->
                Rendered([ed EXCEPT !.flight = "catalog", !.project = a.result,
                                    !.acked = Acknowledged(ed, a.result),
                                    !.failed = NoFailed])
           [] a.code = "conflict" -> AfterFlight(ed, "conflict", FALSE)
           [] OTHER -> AfterFlight(ed, "failed", FALSE)]
    /\ UNCHANGED <<server, active, requests, moves>>

\* No reply comes, whatever has become of the request.
SaveFails(e) ==
  /\ editor[e].flight = "put" /\ Move
  /\ Abandon({r \in OpenRequests(e) : r.kind = "replace"})
  /\ answers' = {a \in answers : a.editor # e \/ a.kind # "replace"}
  /\ editor' = [editor EXCEPT ![e] = AfterFlight(@, "failed", FALSE)]
  /\ UNCHANGED <<server, active>>

\* The catalog read that follows an acknowledgement.
CatalogArrives(e) ==
  LET read == Reconciled([editor[e] EXCEPT
                !.catalog = active, !.rebase = editor[e].project.catalog # active])
      status == IF Dirty(read) THEN "unsaved" ELSE "saved"
  IN /\ editor[e].flight = "catalog"
     /\ editor' = [editor EXCEPT ![e] = AfterFlight(read, status, TRUE)]
     /\ UNCHANGED <<server, active, network, moves>>

CatalogFails(e) ==
  LET read == [editor[e] EXCEPT !.catalog = NoCatalog, !.rebase = FALSE]
      status == IF Dirty(read) THEN "unsaved" ELSE "saved"
  IN /\ editor[e].flight = "catalog" /\ Move
     /\ editor' = [editor EXCEPT ![e] = AfterFlight(read, status, FALSE)]
     /\ UNCHANGED <<server, active, network>>
-----------------------------------------------------------------------------
(* Calculation and validation.                                             *)

\* One round of flushLatestDraft, when no save is in flight.
Flush(e) ==
  LET ed == editor[e]
      stop(status) == [ed EXCEPT !.task = "none", !.status = status]
  IN
  /\ ed.mode = "ready" /\ ed.task = "flushing" /\ ed.flight = "none"
  /\ IF ed.tries < FlushAttempts /\ ed.status \notin {"conflict", "failed"} /\ ed.doc \in Valid
     THEN IF ~Dirty(ed)
          THEN /\ editor' = [editor EXCEPT ![e] =
                    [ed EXCEPT !.task = "sent", !.taskOf = ed.acked, !.number = @ + 1]]
               /\ requests' = requests \cup {Request(ed.taskKind, e, ed.number + 1,
                                NewKey(ed, e), ed.acked.version, ed.acked.content)}
               /\ UNCHANGED <<server, active, answers>>
          ELSE Save(e, [ed EXCEPT !.tries = @ + 1], ed.doc, NewKey(ed, e))
     ELSE /\ editor' = [editor EXCEPT ![e] =
               IF ed.tries = FlushAttempts THEN Rendered(stop("unsaved"))
               ELSE IF ed.doc \notin Valid THEN stop("validationBlocked")
               ELSE stop(ed.status)]
          /\ UNCHANGED <<server, active, network>>
  /\ UNCHANGED moves

\* requestCatalogRebase: the draft is saved again, to be pinned anew.
RequestRebase(ed) ==
  LET wanted == [ed EXCEPT !.rebase = TRUE] IN
    IF ed.failed # NoFailed \/ ed.status \in {"conflict", "failed"} THEN wanted
    ELSE Rendered([wanted EXCEPT !.status = "unsaved"])

\* What an error makes of the page.
TaskRefused(ed, a) ==
  LET done == [ed EXCEPT !.task = "none"] IN
  CASE a.code = "conflict" /\ a.kind = "calculate" -> [ed EXCEPT !.task = "superseded"]
    [] a.code = "noSnapshot" -> RequestRebase(done)
    [] OTHER -> done

TaskAnswered(e, a) ==
  LET ed == editor[e]
      done == [ed EXCEPT !.task = "none"]
  IN
  /\ Runs(e) /\ a \in answers /\ a.editor = e /\ a.kind \in {"validate", "calculate"}
  /\ answers' = answers \ {a}
  /\ editor' = [editor EXCEPT ![e] =
       IF a.code # "ok" THEN TaskRefused(ed, a)
       ELSE IF a.kind = "calculate" THEN [done EXCEPT !.shown = a.result] ELSE done]
  /\ UNCHANGED <<server, active, requests, moves>>

\* A calculation refused as stale waits for the save in flight; unless that
\* explains it, another editor has been faster.
JudgeConflict(e) ==
  LET ed == editor[e] IN
    /\ ed.task = "superseded" /\ ed.flight = "none"
    /\ editor' = [editor EXCEPT ![e] = [ed EXCEPT !.task = "none",
         !.status = IF ed.failed = NoFailed /\ ed.taskOf.version = ed.acked.version
                    THEN "conflict" ELSE @]]
    /\ UNCHANGED <<server, active, network, moves>>

\* No reply comes.
TaskFails(e) ==
  /\ editor[e].task = "sent" /\ Move
  /\ Abandon({r \in OpenRequests(e) : r.kind # "replace"})
  /\ answers' = {a \in answers : a.editor # e \/ a.kind = "replace"}
  /\ editor' = [editor EXCEPT ![e].task = "none"]
  /\ UNCHANGED <<server, active>>
-----------------------------------------------------------------------------
User(e) ==
  \/ \E content \in Contents : Edit(e, content)
  \/ Type(e) \/ Retry(e) \/ Reload(e)
  \/ \E kind \in {"validate", "calculate"} : StartTask(e, kind)

\* What goes wrong.
Trouble(e) ==
  \/ LoadFails(e) \/ (LoadSettles(e, NoCatalog) /\ Move)
  \/ SaveFails(e) \/ CatalogFails(e) \/ TaskFails(e)

\* What goes on by itself.
Proceed(e) ==
  \/ ProjectArrives(e) \/ (LoadSettles(e, active) /\ UNCHANGED moves)
  \/ TimerFires(e) \/ CatalogArrives(e)
  \/ Flush(e) \/ JudgeConflict(e)
  \/ \E a \in answers : SaveAnswered(e, a) \/ TaskAnswered(e, a)

Serving == \E r \in requests : Serve(r) /\ UNCHANGED <<editor, moves>>
Activating == ActivateCatalog /\ Move /\ UNCHANGED editor

Next ==
  \/ \E e \in Editors : User(e) \/ Trouble(e) \/ Proceed(e)
  \/ Serving \/ Activating

Spec == Init /\ [][Next]_vars

\* Timers fire, requests are served, replies are handled.
FairSpec == Spec /\ WF_vars(Serving) /\ \A e \in Editors : WF_vars(Proceed(e))
-----------------------------------------------------------------------------
\* What a page says it has saved, the server has stored: the acknowledged version
\* has the acknowledged document, and "saved" is shown over that document only,
\* whatever was edited, answered late, retried or rebased in between
\* (performSave; the generations).
SavedIsStored ==
  \A e \in Editors : editor[e].mode = "ready" =>
    /\ editor[e].acked.version \in DOMAIN saves
    /\ saves[editor[e].acked.version].content = editor[e].acked.content
    /\ editor[e].status \in {"saved", "idle"} => editor[e].doc = editor[e].acked.content

\* A save that is reported as a conflict has not been stored, and somebody else
\* (or this page before it was reloaded) has stored something newer: a repeated
\* request, or two copies of one on their way, do not conflict with themselves.
ConflictIsReal ==
  \A e \in Editors : editor[e].status = "conflict" =>
    /\ draft.version > editor[e].acked.version
    /\ editor[e].failed # NoFailed => Stored(editor[e].failed.key) = {}

\* Mutant: edits that are not yet saved are overlooked.
ResultStaleByVersion(ed) ==
  ed.shown.version # ed.acked.version \/ ed.rebase \/ ed.buffered

\* resultStale of the page.
ResultStale(ed) ==
  ed.shown.version # ed.acked.version \/ ed.doc # ed.acked.content \/ ed.rebase \/ ed.buffered

\* A result that is not marked as stale was calculated from the document on
\* display, with the catalog its version is pinned to (runCalculation, resultStale).
ResultShownIsCurrent ==
  \A e \in Editors :
    LET ed == editor[e] IN
      ed.mode = "ready" /\ ed.shown # NoCalculation /\ ~ResultStale(ed) =>
        /\ ed.shown.content = ed.doc
        /\ ed.shown.catalog = saves[ed.acked.version].catalog

\* A slow calculation never replaces the stored result of a later version, and
\* never offers one of an earlier version or of a retired catalog for saving
\* (storeCalculation).
CalculationNeverGoesBack ==
  [][calculated' # calculated =>
       /\ calculated'.version >= calculated.version
       /\ calculated' = draft /\ calculated'.catalog = active]_vars

\* A calculation whose draft has been replaced meanwhile is answered with a
\* conflict: "A stale draft at step 6 returns CONFLICT_STALE_VERSION"
\* (docs/architecture/idempotency-and-transactions.md).
StaleIsToldStale ==
  [][\A r \in requests :
       r.kind = "calculate" /\ r.phase = "begun" /\ r.open /\ Stale(r) =>
         \A a \in answers' \ answers :
           a.editor = r.editor /\ a.number = r.number => a.code = "conflict"]_vars

\* What the user has to see when the page is at rest.
AtRest(ed) ==
  \/ ed.mode # "ready" \/ ed.buffered
  \/ ed.status \in {"conflict", "failed", "validationBlocked"}
  \/ ed.status \in {"saved", "idle"} /\ ~ed.rebase /\ ed.doc = ed.acked.content

\* Every edit is saved in the end, or the page says why not, and no calculation
\* or validation stays busy: timers, saves in flight, rebases and tasks waiting
\* for them do not wait for each other.
EditsAreSettled ==
  \A e \in Editors : []<>(AtRest(editor[e]) /\ editor[e].task = "none")
=============================================================================
